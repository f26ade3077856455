----------------------------- MODULE Telnet_proofs -----------------------------
(***************************************************************************)
(* Theorems about Telnet.                                                  *)
(***************************************************************************)
EXTENDS Telnet, WellFoundedInduction, FiniteSetTheorems, SequenceTheorems, TLAPS

(***************************************************************************)
(* Operators of the libraries.                                             *)
(***************************************************************************)
\* A set of naturals that is not empty has a least element: every induction below
\* is over the least counterexample.
LEMMA Least ==
  ASSUME NEW S \in SUBSET Nat, S # {}
  PROVE  \E x \in S : \A y \in S : x <= y
<1>1. PICK x \in S : \A y \in S : ~(<<y, x>> \in OpToRel(<, Nat))
  BY NatLessThanWellFounded, WFMin
<1>2. \A y \in S : x <= y
  <2> TAKE y \in S
  <2>1. ~(<<y, x>> \in {ss \in Nat \X Nat : ss[1] < ss[2]})
    BY <1>1, Zenon DEF OpToRel
  <2> QED
    BY <2>1
<1> QED
  BY <1>2

\* What a subset of 1..k + 1 with k + 1 in it has as its Max.
LEMMA MaxIs ==
  ASSUME NEW k \in Nat, NEW s \in SUBSET (1 .. k), k \in s
  PROVE  Max(s) = k
<1>1. \A y \in s : k >= y
  OBVIOUS
<1>2. Max(s) \in s /\ \A y \in s : Max(s) >= y
  BY <1>1 DEF Max
<1>3. Max(s) \in 1 .. k
  BY <1>2
<1> QED
  BY <1>2, <1>3

Folded(m, es) == FoldLeft(Dispatch, m, es)

\* The fold of Dispatch, one event after the other.
LEMMA FoldIs ==
  ASSUME NEW base, NEW seq, NEW n \in Nat, DOMAIN seq = 1 .. n
  PROVE  \E h : /\ h[0] = base
                /\ \A i \in 1 .. n : h[i] = Dispatch(h[i - 1], seq[i])
                /\ Folded(base, seq) = h[n]
<1> DEFINE Step(f, s) == IF s = {} THEN base ELSE Dispatch(f[s \ {Max(s)}], seq[Max(s)])
           Rec(f, k)  == [s \in SUBSET (1 .. k) |-> Step(f, s)]
           Short      == {k \in 0 .. n : ~\E g : g = Rec(g, k)}
           it         == CHOOSE f : f = Rec(f, n)
<1>1. Folded(base, seq) = (CHOOSE f : f = [s \in SUBSET DOMAIN seq |-> Step(f, s)])[DOMAIN seq]
  BY DEF Folded, FoldLeft, MapThenFoldSet
<1>2. ASSUME Short # {}
      PROVE  FALSE
  <2>1. PICK k \in Short : \A y \in Short : k <= y
    <3>1. Short \in SUBSET Nat
      OBVIOUS
    <3> QED
      BY <1>2, <3>1, Least
  <2>2. CASE k = 0
    <3> DEFINE g == [s \in SUBSET (1 .. 0) |-> base]
    <3>1. \A s \in SUBSET (1 .. 0) : s = {}
      OBVIOUS
    <3>2. g = Rec(g, 0)
      BY <3>1
    <3> QED
      BY <2>1, <2>2, <3>2
  <2>3. CASE k # 0
    <3>1. k - 1 \in 0 .. n /\ k - 1 + 1 = k /\ k \in Nat
      BY <2>1, <2>3
    <3>5. k - 1 \notin Short
      <4>1. ~(k <= k - 1)
        BY <3>1
      <4> QED
        BY <2>1, <4>1
    <3>2. PICK g : g = Rec(g, k - 1)
      BY <3>1, <3>5
    <3> DEFINE h == [s \in SUBSET (1 .. k) |->
                       IF s \in SUBSET (1 .. k - 1) THEN g[s]
                       ELSE Dispatch(g[s \ {k}], seq[k])]
    <3>3. ASSUME NEW s \in SUBSET (1 .. k)
          PROVE  h[s] = Step(h, s)
      <4>1. CASE s \in SUBSET (1 .. k - 1) /\ s # {}
        <5>1. s \ {Max(s)} \in SUBSET (1 .. k - 1)
          BY <4>1
        <5>2. s \ {Max(s)} \in SUBSET (1 .. k)
          BY <5>1, <3>1
        <5>3. h[s] = g[s] /\ h[s \ {Max(s)}] = g[s \ {Max(s)}] /\ g[s] = Step(g, s)
          BY <3>2, <4>1, <5>1, <5>2
        <5> QED
          BY <4>1, <5>3
      <4>2. CASE s = {}
        <5>1. s \in SUBSET (1 .. k - 1)
          BY <4>2
        <5>2. g[s] = base
          BY <3>2, <4>2, <5>1
        <5> QED
          BY <4>2, <5>1, <5>2
      <4>3. CASE ~(s \in SUBSET (1 .. k - 1))
        <5>1. k \in s /\ s # {} /\ k \in Nat
          BY <3>1, <4>3
        <5>2. Max(s) = k
          BY <5>1, MaxIs
        <5>3. s \ {k} \in SUBSET (1 .. k - 1) /\ s \ {k} \in SUBSET (1 .. k)
          BY <3>1
        <5>4. h[s] = Dispatch(g[s \ {k}], seq[k]) /\ h[s \ {k}] = g[s \ {k}]
          BY <4>3, <5>3
        <5> QED
          BY <5>1, <5>2, <5>4
      <4> QED
        BY <4>1, <4>2, <4>3
    <3>4. h = Rec(h, k)
      BY <3>3
    <3> QED
      BY <2>1, <3>4
  <2> QED
    BY <2>2, <2>3
<1>3. \E f : f = Rec(f, n)
  <2>1. Short = {}
    BY <1>2, Zenon
  <2>2. n \in 0 .. n
    OBVIOUS
  <2> QED
    BY <2>1, <2>2
<1>4. it = Rec(it, n)
  BY <1>3, Zenon
<1>5. Folded(base, seq) = it[1 .. n]
  BY <1>1, Zenon
<1> HIDE DEF it
<1> DEFINE h == [k \in 0 .. n |-> it[1 .. k]]
<1>6. \A s \in SUBSET (1 .. n) : it[s] = Step(it, s)
  BY <1>4
<1>7. h[0] = base
  <2>1. 1 .. 0 = {} /\ {} \in SUBSET (1 .. n) /\ 0 \in 0 .. n
    OBVIOUS
  <2>2. it[{}] = base
    BY <1>6, <2>1, Zenon
  <2> QED
    BY <2>1, <2>2
<1>8. ASSUME NEW i \in 1 .. n
      PROVE  h[i] = Dispatch(h[i - 1], seq[i])
  <2>1. 1 .. i \in SUBSET (1 .. n) /\ i \in 1 .. i /\ i \in Nat /\ 1 .. i # {}
    OBVIOUS
  <2>2. Max(1 .. i) = i
    BY <2>1, MaxIs
  <2>3. (1 .. i) \ {i} = 1 .. (i - 1) /\ i \in 0 .. n /\ i - 1 \in 0 .. n
    OBVIOUS
  <2> QED
    BY <1>6, <2>1, <2>2, <2>3
<1>9. h[n] = it[1 .. n]
  OBVIOUS
<1> HIDE DEF h
<1> QED
  BY <1>5, <1>7, <1>8, <1>9

LEMMA FoldNone ==
  ASSUME NEW m
  PROVE  Folded(m, <<>>) = m
<1>1. PICK h : h[0] = m /\ Folded(m, <<>>) = h[0]
  <2>1. DOMAIN <<>> = 1 .. 0
    OBVIOUS
  <2> QED
    BY <2>1, FoldIs
<1> QED
  BY <1>1

LEMMA FoldOne ==
  ASSUME NEW m, NEW e
  PROVE  Folded(m, <<e>>) = Dispatch(m, e)
<1>1. PICK s : s = <<e>>
  OBVIOUS
<1>2. PICK n : n = 1
  OBVIOUS
<1>3. n \in Nat /\ DOMAIN s = 1 .. n /\ s[1] = e /\ 1 \in 1 .. n /\ 1 - 1 = 0
  BY <1>1, <1>2
<1>4. \E h : /\ h[0] = m
             /\ \A i \in 1 .. n : h[i] = Dispatch(h[i - 1], s[i])
             /\ Folded(m, s) = h[n]
  BY <1>3, FoldIs
<1> QED
  BY <1>1, <1>2, <1>3, <1>4

\* The first event, and then the others.
LEMMA FoldFirst ==
  ASSUME NEW m, NEW e, NEW T, NEW es \in Seq(T)
  PROVE  Folded(m, <<e>> \o es) = Folded(Dispatch(m, e), es)
<1> DEFINE n == Len(es)
<1>1. /\ n \in Nat /\ DOMAIN es = 1 .. n /\ DOMAIN (<<e>> \o es) = 1 .. n + 1
      /\ (<<e>> \o es)[1] = e /\ \A i \in 1 .. n : (<<e>> \o es)[i + 1] = es[i]
  OBVIOUS
<1> HIDE DEF n
<1> DEFINE all == <<e>> \o es
<1>0. n + 1 \in Nat /\ DOMAIN all = 1 .. (n + 1)
  BY <1>1
<1>2. PICK h : /\ h[0] = m
               /\ \A i \in 1 .. n + 1 : h[i] = Dispatch(h[i - 1], (<<e>> \o es)[i])
               /\ Folded(m, <<e>> \o es) = h[n + 1]
  <2> HIDE DEF all
  <2>1. \E h : /\ h[0] = m
               /\ \A i \in 1 .. n + 1 : h[i] = Dispatch(h[i - 1], all[i])
               /\ Folded(m, all) = h[n + 1]
    BY <1>0, FoldIs
  <2> QED
    BY <2>1, Zenon DEF all
<1>3. PICK g : /\ g[0] = Dispatch(m, e)
               /\ \A i \in 1 .. n : g[i] = Dispatch(g[i - 1], es[i])
               /\ Folded(Dispatch(m, e), es) = g[n]
  <2>1. n \in Nat /\ DOMAIN es = 1 .. n
    BY <1>1
  <2>2. PICK s : s = es
    OBVIOUS
  <2>3. \E g : /\ g[0] = Dispatch(m, e)
               /\ \A i \in 1 .. n : g[i] = Dispatch(g[i - 1], s[i])
               /\ Folded(Dispatch(m, e), s) = g[n]
    <3>1. n \in Nat /\ DOMAIN s = 1 .. n
      BY <2>1, <2>2
    <3> QED
      BY <3>1, FoldIs
  <2> QED
    BY <2>2, <2>3
<1> DEFINE Bad == {i \in 0 .. n : g[i] # h[i + 1]}
<1>4. ASSUME Bad # {}
      PROVE  FALSE
  <2>1. PICK k \in Bad : \A y \in Bad : k <= y
    <3>1. Bad \in SUBSET Nat
      OBVIOUS
    <3> QED
      BY <1>4, <3>1, Least
  <2>2. CASE k = 0
    <3>1. 1 \in 1 .. n + 1 /\ 1 - 1 = 0 /\ 0 + 1 = 1
      BY <1>1
    <3>2. h[1] = Dispatch(h[0], e)
      BY <1>1, <1>2, <3>1
    <3> QED
      BY <1>2, <1>3, <2>1, <2>2, <3>1, <3>2
  <2>3. CASE k # 0
    <3>1. k - 1 \in 0 .. n /\ k - 1 \notin Bad /\ k - 1 + 1 = k /\ k \in 1 .. n
          /\ k + 1 \in 1 .. n + 1 /\ k + 1 - 1 = k
      BY <1>1, <2>1, <2>3
    <3>2. g[k - 1] = h[k]
      BY <3>1
    <3>3. h[k + 1] = Dispatch(h[k], es[k])
      BY <1>1, <1>2, <3>1
    <3> QED
      BY <1>3, <2>1, <3>1, <3>2, <3>3
  <2> QED
    BY <2>2, <2>3
<1>5. n \in 0 .. n
  BY <1>1
<1> QED
  BY <1>2, <1>3, <1>4, <1>5

(***************************************************************************)
(* Counting.                                                               *)
(***************************************************************************)
\* One more position behind the others.
LEMMA PlacesGrow ==
  ASSUME NEW n \in Nat, NEW T \in SUBSET (1 .. n)
  PROVE  /\ IsFiniteSet(T) /\ Cardinality(T) \in Nat /\ Cardinality(T) <= n
         /\ Cardinality(T \union {n + 1}) = Cardinality(T) + 1
         /\ \A i \in 1 .. n : /\ Rank(T \union {n + 1}, i) = Rank(T, i)
                             /\ Rank(T, i) \in Nat /\ Rank(T, i) <= Cardinality(T)
         /\ Rank(T \union {n + 1}, n + 1) = Cardinality(T) + 1
<1>1. IsFiniteSet(1 .. n) /\ Cardinality(1 .. n) = n
  BY FS_Interval
<1>2. IsFiniteSet(T) /\ Cardinality(T) \in Nat /\ Cardinality(T) <= n
  BY <1>1, FS_Subset, FS_CardinalityType
<1>3. n + 1 \notin T
  OBVIOUS
<1>4. Cardinality(T \union {n + 1}) = Cardinality(T) + 1
  BY <1>2, <1>3, FS_AddElement
<1>5. ASSUME NEW i \in 1 .. n
      PROVE  /\ Rank(T \union {n + 1}, i) = Rank(T, i)
             /\ Rank(T, i) \in Nat /\ Rank(T, i) <= Cardinality(T)
  <2>1. {j \in T \union {n + 1} : j <= i} = {j \in T : j <= i}
    OBVIOUS
  <2>2. {j \in T : j <= i} \in SUBSET T
    OBVIOUS
  <2>3. IsFiniteSet({j \in T : j <= i}) /\ Cardinality({j \in T : j <= i}) <= Cardinality(T)
    BY <1>2, <2>2, FS_Subset
  <2> QED
    BY <2>1, <2>3, FS_CardinalityType DEF Rank
<1>6. {j \in T \union {n + 1} : j <= n + 1} = T \union {n + 1}
  <2>1. \A j \in T \union {n + 1} : j <= n + 1
    OBVIOUS
  <2> QED
    BY <2>1, Zenon
<1> QED
  BY <1>2, <1>4, <1>5, <1>6 DEF Rank

LEMMA CountMore ==
  ASSUME NEW M, NEW s \in Seq(M), NEW x \in M, NEW u
  PROVE  /\ CountIn(u, s) \in Nat /\ CountIn(u, s) <= Len(s)
         /\ CountIn(u, Append(s, x)) = CountIn(u, s) + IF x = u THEN 1 ELSE 0
<1> DEFINE n == Len(s)
           T == {i \in DOMAIN s : s[i] = u}
           V == {i \in DOMAIN Append(s, x) : Append(s, x)[i] = u}
<1>1. n \in Nat /\ T \in SUBSET (1 .. n)
  OBVIOUS
<1>2. \A i : i \in V <=> i \in T \/ (i = n + 1 /\ x = u)
  OBVIOUS
<1>3. Cardinality(T) \in Nat /\ Cardinality(T) <= n
      /\ Cardinality(T \union {n + 1}) = Cardinality(T) + 1
  <2> HIDE DEF T, n
  <2> QED
    BY <1>1, PlacesGrow
<1>4. CountIn(u, s) = Cardinality(T) /\ CountIn(u, Append(s, x)) = Cardinality(V)
  BY DEF CountIn
<1>5. Len(s) = n
  OBVIOUS
<1> HIDE DEF T, V, n
<1>6. CASE x = u
  <2>1. V = T \union {n + 1}
    BY <1>2, <1>6
  <2> QED
    BY <1>3, <1>4, <1>5, <1>6, <2>1
<1>7. CASE x # u
  <2>1. V = T
    BY <1>2, <1>7
  <2> QED
    BY <1>3, <1>4, <1>5, <1>7, <2>1
<1> QED
  BY <1>6, <1>7

LEMMA CountNone ==
  ASSUME NEW u
  PROVE  CountIn(u, <<>>) = 0
<1>1. {i \in DOMAIN <<>> : <<>>[i] = u} = {}
  OBVIOUS
<1> QED
  BY <1>1, FS_EmptySet DEF CountIn

LEMMA PrefixOf ==
  ASSUME NEW M, NEW s \in Seq(M), NEW x \in M
  PROVE  /\ \A i \in 0 .. Len(s) : SubSeq(Append(s, x), 1, i) = SubSeq(s, 1, i)
         /\ SubSeq(Append(s, x), 1, Len(s) + 1) = Append(s, x)
         /\ SubSeq(s, 1, Len(s)) = s
<1>1. ASSUME NEW i \in 0 .. Len(s)
      PROVE  SubSeq(Append(s, x), 1, i) = SubSeq(s, 1, i)
  <2>1. \A k \in 1 .. i : Append(s, x)[k] = s[k]
    OBVIOUS
  <2> QED
    BY <2>1
<1> QED
  BY <1>1

\* One sequence behind another.
LEMMA CountConcat ==
  ASSUME NEW M, NEW s \in Seq(M), NEW t \in Seq(M), NEW u
  PROVE  CountIn(u, s \o t) = CountIn(u, s) + CountIn(u, t)
<1> DEFINE p(k) == SubSeq(t, 1, k)
           Bad  == {k \in 0 .. Len(t) : CountIn(u, s \o p(k)) # CountIn(u, s) + CountIn(u, p(k))}
<1>1. ASSUME Bad # {}
      PROVE  FALSE
  <2>1. PICK k \in Bad : \A y \in Bad : k <= y
    <3>1. Bad \in SUBSET Nat
      OBVIOUS
    <3> QED
      BY <1>1, <3>1, Least
  <2>2. CASE k = 0
    <3>1. p(k) = <<>> /\ s \o <<>> = s
      BY <2>2
    <3>3. CountIn(u, s \o p(k)) # CountIn(u, s) + CountIn(u, p(k))
      BY <2>1
    <3>2. CountIn(u, <<>>) = 0 /\ CountIn(u, s) \in Nat
      <4>1. ASSUME NEW x \in M
            PROVE  CountIn(u, s) \in Nat
        BY CountMore
      <4>2. CASE M = {}
        <5>1. s = <<>>
          BY <4>2
        <5> QED
          BY <5>1, CountNone
      <4> QED
        BY <4>1, <4>2, CountNone
    <3> HIDE DEF p
    <3> QED
      BY <3>1, <3>2, <3>3
  <2>3. CASE k # 0
    <3>1. k \in 1 .. Len(t) /\ k - 1 \in 0 .. Len(t) /\ ~(k <= k - 1) /\ t[k] \in M
      BY <2>1, <2>3
    <3>2. k - 1 \notin Bad
      BY <2>1, <3>1
    <3> DEFINE q == p(k - 1)
    <3>3. q \in Seq(M) /\ p(k) = Append(q, t[k])
      BY <3>1
    <3>4. s \o p(k) = Append(s \o q, t[k]) /\ s \o q \in Seq(M)
      BY <3>1, <3>3
    <3>5. CountIn(u, s \o q) = CountIn(u, s) + CountIn(u, q)
      BY <3>1, <3>2
    <3>7. CountIn(u, s \o p(k)) # CountIn(u, s) + CountIn(u, p(k))
      BY <2>1
    <3> HIDE DEF q, p
    <3>6. /\ CountIn(u, Append(q, t[k])) = CountIn(u, q) + IF t[k] = u THEN 1 ELSE 0
          /\ CountIn(u, q) \in Nat
      BY <3>1, <3>3, CountMore
    <3>8. CountIn(u, Append(s \o q, t[k])) = CountIn(u, s \o q) + IF t[k] = u THEN 1 ELSE 0
      BY <3>1, <3>4, CountMore
    <3>9. CountIn(u, s) \in Nat
      BY <3>1, CountMore
    <3> QED
      BY <3>3, <3>4, <3>5, <3>6, <3>7, <3>8, <3>9
  <2> QED
    BY <2>2, <2>3
<1>2. Len(t) \in 0 .. Len(t) /\ p(Len(t)) = t
  OBVIOUS
<1>3. Len(t) \notin Bad
  BY <1>1
<1> QED
  BY <1>2, <1>3

(***************************************************************************)
(* rawProcess's loop.                                                      *)
(***************************************************************************)
\* One turn of the loop; f is what the turns from the later bytes on come to.
ScanStep(d, i, f) ==
    CASE i > Len(d) -> Ends("ok")
      [] i <= Len(d) /\ d[i] = "IAC" -> Command(d, i, f)
      [] i <= Len(d) /\ d[i] = "BELL" -> Event(<<"BELL">>, f[i + 1])
      [] i <= Len(d) /\ d[i] \in Stripped -> f[i + 1]
      [] OTHER -> Put(d[i], f[i + 1])
Scans(d, f) == \A i \in 1 .. Len(d) + 1 : f[i] = ScanStep(d, i, f)

\* SubEnd looks forward.
LEMMA SubEndIs ==
  ASSUME NEW d, NEW n \in Nat, Len(d) = n, NEW i \in Nat
  PROVE  /\ SubEnd(d, i) \in Nat
         /\ SubEnd(d, i) = n \/ SubEnd(d, i) \in i + 3 .. n
<1> DEFINE S == {j \in i + 3 .. n : d[j] = "IAC"}
<1>1. CASE S = {}
  <2>1. SubEnd(d, i) = n
    BY <1>1 DEF SubEnd
  <2> QED
    BY <2>1
<1>2. CASE S # {}
  <2>1. S \in SUBSET Nat
    OBVIOUS
  <2>2. PICK m \in S : \A y \in S : m <= y
    BY <1>2, <2>1, Least
  <2>3. m \in i + 3 .. n /\ d[m] = "IAC" /\ \A k \in i + 3 .. m - 1 : d[k] # "IAC"
    BY <2>2
  <2>4. SubEnd(d, i) \in i + 3 .. n
    BY <2>3 DEF SubEnd
  <2> QED
    BY <2>4
<1> QED
  BY <1>1, <1>2

\* A turn depends on later bytes only.
LEMMA StepLooksForward ==
  ASSUME NEW d, NEW n \in Nat, Len(d) = n, NEW i \in 1 .. n + 1, NEW f, NEW g,
         \A k \in i + 1 .. n + 1 : f[k] = g[k]
  PROVE  ScanStep(d, i, f) = ScanStep(d, i, g)
<1>1. CASE i > n
  BY <1>1 DEF ScanStep
<1>2. CASE i <= n /\ d[i] # "IAC"
  <2>1. f[i + 1] = g[i + 1]
    BY <1>2
  <2> QED
    BY <1>2, <2>1 DEF ScanStep
<1>3. CASE i <= n /\ d[i] = "IAC"
  <2>1. f[i + 1] = g[i + 1]
    BY <1>3
  <2>2. i < n => f[i + 2] = g[i + 2]
    OBVIOUS
  <2>3. i + 2 <= n => f[i + 3] = g[i + 3]
    OBVIOUS
  <2>4. Subnegotiation(d, i, f) = Subnegotiation(d, i, g)
    <3>1. SubEnd(d, i) \in Nat /\ (SubEnd(d, i) = n \/ SubEnd(d, i) \in i + 3 .. n)
      BY SubEndIs
    <3>2. SubEnd(d, i) < n => f[SubEnd(d, i) + 2] = g[SubEnd(d, i) + 2]
      BY <3>1
    <3>3. CASE SubEnd(d, i) < n
      <4>1. f[SubEnd(d, i) + 2] = g[SubEnd(d, i) + 2]
        BY <3>2, <3>3
      <4> QED
        BY <4>1, Zenon DEF Subnegotiation, DispatchSub
    <3>4. CASE SubEnd(d, i) = n
      BY <3>4 DEF Subnegotiation
    <3> QED
      BY <3>1, <3>3, <3>4
  <2>5. Command(d, i, f) = Command(d, i, g)
    BY <1>3, <2>1, <2>2, <2>3, <2>4 DEF Command, AfterOption
  <2> QED
    BY <1>3, <2>5 DEF ScanStep
<1> QED
  BY <1>1, <1>2, <1>3

\* There is a function that the loop computes.
LEMMA ScanIs ==
  ASSUME NEW d, NEW n \in Nat, Len(d) = n
  PROVE  \E f : Scans(d, f) /\ RawProcess(d) = IF d = <<"IAC">> THEN Ends("ok") ELSE f[1]
<1> DEFINE Rec(f, k) == [i \in n + 1 - k .. n + 1 |-> ScanStep(d, i, f)]
           Short     == {k \in 0 .. n : ~\E g : g = Rec(g, k)}
           it        == CHOOSE f : f = [i \in 1 .. Len(d) + 1 |-> ScanStep(d, i, f)]
<1>1. RawProcess(d) = IF d = <<"IAC">> THEN Ends("ok") ELSE it[1]
  BY Zenon DEF RawProcess, ScanStep
<1>2. ASSUME Short # {}
      PROVE  FALSE
  <2>1. PICK k \in Short : \A y \in Short : k <= y
    <3>1. Short \in SUBSET Nat
      OBVIOUS
    <3> QED
      BY <1>2, <3>1, Least
  <2>2. CASE k = 0
    <3> DEFINE g == [i \in n + 1 .. n + 1 |-> Ends("ok")]
    <3>1. \A i \in n + 1 .. n + 1 : ScanStep(d, i, g) = Ends("ok")
      BY DEF ScanStep
    <3>2. g = Rec(g, 0)
      BY <3>1
    <3> QED
      BY <2>1, <2>2, <3>2
  <2>3. CASE k # 0
    <3>1. k - 1 \in 0 .. n /\ k \in 1 .. n
      BY <2>1, <2>3
    <3>2. k - 1 \notin Short
      <4>1. ~(k <= k - 1)
        BY <3>1
      <4> QED
        BY <2>1, <4>1
    <3>3. PICK g : g = Rec(g, k - 1)
      BY <3>1, <3>2
    <3> PICK c : c = n + 1 - k
      OBVIOUS
    <3> DEFINE h == [i \in c .. n + 1 |-> IF i = c THEN ScanStep(d, c, g) ELSE g[i]]
    <3>4. c \in 1 .. n /\ n + 1 - (k - 1) = c + 1
      BY <3>1
    <3>9. g = [i \in c + 1 .. n + 1 |-> ScanStep(d, i, g)]
      BY <3>3, <3>4
    <3>10. c + 1 .. n + 1 \subseteq c .. n + 1 /\ c \notin c + 1 .. n + 1
      BY <3>4
    <3>5. ASSUME NEW i \in c + 1 .. n + 1
          PROVE  g[i] = ScanStep(d, i, g) /\ h[i] = g[i]
      BY <3>9, <3>10, Zenon
    <3>6. h[c] = ScanStep(d, c, g)
      BY <3>4
    <3> HIDE DEF h
    <3>7. ASSUME NEW i \in c .. n + 1
          PROVE  h[i] = ScanStep(d, i, h)
      <4>1. i \in 1 .. n + 1 /\ \A j \in i + 1 .. n + 1 : g[j] = h[j]
        BY <3>4, <3>5
      <4>2. ScanStep(d, i, g) = ScanStep(d, i, h)
        BY <4>1, StepLooksForward
      <4>3. h[i] = ScanStep(d, i, g)
        BY <3>4, <3>5, <3>6
      <4> QED
        BY <4>2, <4>3
    <3>8. h = Rec(h, k)
      BY <3>7, Zenon DEF h
    <3> QED
      BY <2>1, <3>8
  <2> QED
    BY <2>2, <2>3
<1>3. \E f : f = [i \in 1 .. n + 1 |-> ScanStep(d, i, f)]
  <2>1. Short = {}
    BY <1>2, Zenon
  <2>2. n \in 0 .. n /\ n + 1 - n = 1
    OBVIOUS
  <2>3. n \notin Short
    BY <2>1
  <2>4. \E f : f = Rec(f, n)
    BY <2>2, <2>3, Zenon
  <2> QED
    BY <2>2, <2>4
<1>4. it = [i \in 1 .. Len(d) + 1 |-> ScanStep(d, i, it)]
  BY <1>3, Zenon
<1> HIDE DEF it
<1>5. Scans(d, it)
  BY <1>4 DEF Scans
<1> QED
  BY <1>1, <1>5

\* What a turn comes to: the end, what the later bytes come to, or that with one
\* byte or one event in front.
Events ==
    {<<"BELL">>, <<"TTYPE">>, <<"GMCPTRIGGERED">>}
    \union (Actions \X Bytes)

LEMMA CommandIsEvent ==
  ASSUME NEW a \in Actions, NEW o \in Bytes
  PROVE  <<a, o>> \in Events
BY DEF Events

LEMMA StepIs ==
  ASSUME NEW d \in Seq(Bytes), NEW n \in Nat, Len(d) = n, NEW i \in 1 .. n + 1, NEW f
  PROVE  \/ \E how \in {"ok", "compress", "crash", "spin"} : ScanStep(d, i, f) = Ends(how)
         \/ \E k \in i + 1 .. n + 1 :
               \/ ScanStep(d, i, f) = f[k]
               \/ \E b \in Bytes : ScanStep(d, i, f) = Put(b, f[k])
               \/ \E e \in Events : /\ ScanStep(d, i, f) = Event(e, f[k])
                                    /\ e = <<"BELL">> => d[i] = "BELL"
<1>1. CASE i > n
  BY <1>1 DEF ScanStep
<1>2. CASE i <= n /\ d[i] # "IAC"
  <2>1. i + 1 \in i + 1 .. n + 1 /\ d[i] \in Bytes /\ <<"BELL">> \in Events
    BY <1>2 DEF Events
  <2>2. \/ ScanStep(d, i, f) = f[i + 1]
        \/ ScanStep(d, i, f) = Put(d[i], f[i + 1])
        \/ ScanStep(d, i, f) = Event(<<"BELL">>, f[i + 1]) /\ d[i] = "BELL"
    BY <1>2 DEF ScanStep
  <2> QED
    BY <2>1, <2>2
<1>3. CASE i <= n /\ d[i] = "IAC"
  <2>1. ScanStep(d, i, f) = Command(d, i, f)
    BY <1>3 DEF ScanStep, Stripped
  <2>2. CASE i = n
    BY <2>1, <2>2 DEF Command
  <2>3. CASE i < n /\ d[i + 1] \in Actions
    <3>1. i + 2 > n => Command(d, i, f) = Ends("crash")
      BY <2>3 DEF Command, Actions, Consumed
    <3>2. i + 2 <= n => /\ Command(d, i, f) = Event(<<d[i + 1], d[i + 2]>>, f[i + 3])
                        /\ i + 3 \in i + 1 .. n + 1
                        /\ <<d[i + 1], d[i + 2]>> \in Events
      <4> SUFFICES ASSUME i + 2 <= n
                   PROVE  /\ Command(d, i, f) = Event(<<d[i + 1], d[i + 2]>>, f[i + 3])
                          /\ i + 3 \in i + 1 .. n + 1
                          /\ <<d[i + 1], d[i + 2]>> \in Events
        OBVIOUS
      <4>1. Command(d, i, f) = Event(<<d[i + 1], d[i + 2]>>, f[i + 3])
        BY <2>3 DEF Command, AfterOption, Actions, Consumed
      <4>2. d[i + 2] \in Bytes
        OBVIOUS
      <4>3. <<d[i + 1], d[i + 2]>> \in Events
        BY <2>3, <4>2, CommandIsEvent
      <4> QED
        BY <4>1, <4>3
    <3>3. <<d[i + 1], d[i + 2]>> # <<"BELL">>
      OBVIOUS
    <3>4. CASE i + 2 > n
      BY <2>1, <3>1, <3>4
    <3>5. CASE i + 2 <= n
      <4> DEFINE e == <<d[i + 1], d[i + 2]>>
      <4> HIDE DEF e
      <4>1. e \in Events /\ e # <<"BELL">> /\ ScanStep(d, i, f) = Event(e, f[i + 3])
            /\ i + 3 \in i + 1 .. n + 1
        BY <2>1, <3>2, <3>3, <3>5 DEF e
      <4> QED
        BY <4>1
    <3> QED
      BY <3>4, <3>5
  <2>4. CASE i < n /\ d[i + 1] = "SB"
    <3> DEFINE j == SubEnd(d, i)
    <3>1. j \in Nat /\ (j = n \/ j \in i + 3 .. n)
      BY SubEndIs
    <3>2. Command(d, i, f) = Subnegotiation(d, i, f)
      BY <2>4 DEF Command, Actions, Consumed
    <3>3. \/ Subnegotiation(d, i, f) \in {Ends("crash"), Ends("spin")}
          \/ j < n /\ Subnegotiation(d, i, f) = DispatchSub(d, i, j, f[j + 2])
      BY <3>1 DEF Subnegotiation
    <3>4. j < n => j + 2 \in i + 1 .. n + 1
      BY <3>1
    <3>5. \/ DispatchSub(d, i, j, f[j + 2]) = Ends("compress")
          \/ DispatchSub(d, i, j, f[j + 2]) = Ends("crash")
          \/ DispatchSub(d, i, j, f[j + 2]) = f[j + 2]
          \/ DispatchSub(d, i, j, f[j + 2]) = Event(<<"TTYPE">>, f[j + 2])
          \/ DispatchSub(d, i, j, f[j + 2]) = Event(<<"GMCPTRIGGERED">>, f[j + 2])
      BY Zenon DEF DispatchSub
    <3>6. /\ <<"TTYPE">> \in Events /\ <<"GMCPTRIGGERED">> \in Events
          /\ <<"TTYPE">> # <<"BELL">> /\ <<"GMCPTRIGGERED">> # <<"BELL">>
      BY DEF Events
    <3> HIDE DEF j
    <3> QED
      BY <2>1, <3>2, <3>3, <3>4, <3>5, <3>6
  <2>5. CASE i < n /\ d[i + 1] \notin Actions /\ d[i + 1] # "SB"
    <3>1. i + 1 \in i + 1 .. n + 1 /\ i + 2 \in i + 1 .. n + 1
      BY <2>5
    <3>3. "IAC" \in Bytes
      BY <1>3
    <3>2. \/ Command(d, i, f) = Put("IAC", f[i + 1])
          \/ Command(d, i, f) = f[i + 2]
          \/ Command(d, i, f) = f[i + 1]
      BY <2>5 DEF Command, Consumed
    <3> QED
      BY <2>1, <3>1, <3>2, <3>3
  <2> QED
    BY <1>3, <2>2, <2>3, <2>4, <2>5
<1> QED
  BY <1>1, <1>2, <1>3

(***************************************************************************)
(* What Dispatch keeps, of the negotiator and the messages.  Sized and     *)
(* TypesTold are SizePerAgreement and TermTypesInOrder with what makes     *)
(* them inductive: the sizes still to come, and the place in the list.     *)
(***************************************************************************)
Messages ==
    {<<"core.hello">>, <<"core.supports.set">>, <<"GMCPTRIGGERED">>}
    \union ({"IAC"} \X Actions \X Bytes) \union ({"TTYPE"} \X {TermTypes[k] : k \in 1 .. 4})

Sized(o, l, z) ==
    /\ z \in Seq(Nat) /\ Len(z) + Len(l) = Agreed(o)
    /\ \A i \in 1 .. Len(l) : l[i] \in 0 .. Len(o) /\ Agreed(SubSeq(o, 1, l[i])) >= Len(z) + i - 1
    /\ \A i \in 1 .. Len(z) : z[i] \in 0 .. Len(o) /\ Agreed(SubSeq(o, 1, z[i])) >= i - 1

Asked(o) == {i \in DOMAIN o : o[i][1] = "TTYPE"}
Turn(k)  == IF k <= 4 THEN k ELSE 4
TypesTold(o, a) ==
    /\ \A i \in Asked(o) : o[i][2] = TermTypes[Turn(Rank(Asked(o), i))]
    /\ a + 1 = Turn(Cardinality(Asked(o)) + 1)

MachineOK(m) ==
    /\ m \in [n : Negotiator, now : Seq(Messages), later : Seq(Nat), bells : Nat]
    /\ m.n.mIsNAWS => m.n.mDoneNAWS
    /\ Sized(m.now, m.later, sizes)
    /\ TypesTold(m.now, m.n.mTermTypeAttempt)

\* A message more: if it agrees to send the size, one is posted in front of it.
LEMMA SizedMore ==
  ASSUME NEW o \in Seq(Messages), NEW l \in Seq(Nat), NEW z, Sized(o, l, z),
         NEW x \in Messages, NEW k,
         k = IF x = Offer("WILL", "NAWS") THEN Append(l, Len(o)) ELSE l
  PROVE  Sized(Append(o, x), k, z)
<1> DEFINE p == Append(o, x)
           w == Offer("WILL", "NAWS")
<1>1. /\ Agreed(o) \in Nat
      /\ Agreed(p) = Agreed(o) + IF x = w THEN 1 ELSE 0
  BY CountMore DEF Agreed
<1>2. /\ z \in Seq(Nat) /\ Len(z) \in Nat /\ Len(l) \in Nat /\ Len(o) \in Nat
      /\ Len(z) + Len(l) = Agreed(o) /\ Len(p) = Len(o) + 1
  BY DEF Sized
<1>3. ASSUME NEW i \in 0 .. Len(o)
      PROVE  i \in 0 .. Len(p) /\ Agreed(SubSeq(p, 1, i)) = Agreed(SubSeq(o, 1, i))
  <2>1. SubSeq(p, 1, i) = SubSeq(o, 1, i)
    BY PrefixOf
  <2>2. i \in 0 .. Len(p)
    BY <1>2
  <2> QED
    BY <2>1, <2>2, Zenon
<1> HIDE DEF p
<1>4. ASSUME NEW i \in 1 .. Len(z)
      PROVE  z[i] \in 0 .. Len(p) /\ Agreed(SubSeq(p, 1, z[i])) >= i - 1
  <2>1. z[i] \in 0 .. Len(o) /\ Agreed(SubSeq(o, 1, z[i])) >= i - 1
    BY DEF Sized
  <2> QED
    BY <1>3, <2>1
<1>5. ASSUME NEW i \in 1 .. Len(l)
      PROVE  l[i] \in 0 .. Len(p) /\ Agreed(SubSeq(p, 1, l[i])) >= Len(z) + i - 1
  <2>1. l[i] \in 0 .. Len(o) /\ Agreed(SubSeq(o, 1, l[i])) >= Len(z) + i - 1
    BY DEF Sized
  <2> QED
    BY <1>3, <2>1
<1>6. CASE x # w
  <2>1. k = l /\ Len(z) + Len(l) = Agreed(p)
    BY <1>1, <1>2, <1>6
  <2> QED
    BY <1>2, <1>4, <1>5, <2>1 DEF Sized, p
<1>7. CASE x = w
  <2>1. k = Append(l, Len(o)) /\ Agreed(p) = Agreed(o) + 1
    BY <1>1, <1>7
  <2>2. k \in Seq(Nat) /\ Len(k) = Len(l) + 1 /\ k[Len(l) + 1] = Len(o)
        /\ \A i \in 1 .. Len(l) : k[i] = l[i]
    BY <1>2, <2>1
  <2>3. ASSUME NEW i \in 1 .. Len(k)
        PROVE  k[i] \in 0 .. Len(p) /\ Agreed(SubSeq(p, 1, k[i])) >= Len(z) + i - 1
    <3>1. CASE i \in 1 .. Len(l)
      BY <1>5, <2>2, <3>1
    <3>2. CASE i = Len(l) + 1
      <4>1. SubSeq(o, 1, Len(o)) = o /\ Len(o) \in 0 .. Len(o)
        BY <1>2
      <4>2. k[i] \in 0 .. Len(p) /\ Agreed(SubSeq(p, 1, k[i])) = Agreed(o)
        BY <1>3, <2>2, <3>2, <4>1
      <4> QED
        BY <1>1, <1>2, <3>2, <4>2
    <3> QED
      BY <1>2, <2>2, <3>1, <3>2
  <2>4. Len(z) + Len(k) = Agreed(p)
    BY <1>1, <1>2, <2>1, <2>2
  <2> QED
    BY <1>2, <1>4, <2>3, <2>4 DEF Sized, p
<1> QED
  BY <1>6, <1>7

\* A longer beginning agrees as often.
LEMMA AgreedGrows ==
  ASSUME NEW o \in Seq(Messages), NEW i \in 0 .. Len(o), NEW k \in i .. Len(o)
  PROVE  /\ Agreed(SubSeq(o, 1, i)) \in Nat /\ Agreed(SubSeq(o, 1, k)) \in Nat
         /\ Agreed(SubSeq(o, 1, i)) <= Agreed(SubSeq(o, 1, k))
<1> DEFINE a == SubSeq(o, 1, i)
           b == SubSeq(o, i + 1, k)
           w == Offer("WILL", "NAWS")
<1>1. a \in Seq(Messages) /\ b \in Seq(Messages) /\ SubSeq(o, 1, k) = a \o b
      /\ <<"core.hello">> \in Messages
  BY DEF Messages
<1>4. Agreed(SubSeq(o, 1, i)) = CountIn(w, a) /\ Agreed(SubSeq(o, 1, k)) = CountIn(w, a \o b)
  BY <1>1 DEF Agreed
<1> HIDE DEF a, b, w
<1>2. CountIn(w, a \o b) = CountIn(w, a) + CountIn(w, b)
  BY <1>1, CountConcat
<1>3. CountIn(w, a) \in Nat /\ CountIn(w, b) \in Nat
  BY <1>1, CountMore
<1> QED
  BY <1>2, <1>3, <1>4

\* A size comes due behind k of the messages.
LEMMA SizedDue ==
  ASSUME NEW o \in Seq(Messages), NEW l \in Seq(Nat), NEW z, Sized(o, l, z), l # <<>>,
         NEW k \in Head(l) .. Len(o)
  PROVE  Sized(o, Tail(l), Append(z, k))
<1> DEFINE y == Append(z, k)
           t == Tail(l)
<1>1. /\ z \in Seq(Nat) /\ Len(z) + Len(l) = Agreed(o) /\ Len(l) \in Nat \ {0} /\ 1 \in 1 .. Len(l)
      /\ Len(o) \in Nat /\ Len(z) \in Nat
  BY DEF Sized
<1>2. Head(l) \in 0 .. Len(o) /\ Agreed(SubSeq(o, 1, Head(l))) >= Len(z)
  <2>1. l[1] \in 0 .. Len(o) /\ Agreed(SubSeq(o, 1, l[1])) >= Len(z) + 1 - 1
    BY <1>1 DEF Sized
  <2> QED
    BY <1>1, <2>1
<1>3. k \in 0 .. Len(o) /\ Agreed(SubSeq(o, 1, k)) >= Len(z)
  <2>1. Agreed(SubSeq(o, 1, k)) \in Nat /\ Agreed(SubSeq(o, 1, Head(l))) \in Nat
        /\ Agreed(SubSeq(o, 1, Head(l))) <= Agreed(SubSeq(o, 1, k))
    BY <1>2, AgreedGrows
  <2> QED
    BY <1>1, <1>2, <2>1
<1>4. /\ y \in Seq(Nat) /\ Len(y) = Len(z) + 1 /\ y[Len(z) + 1] = k
      /\ \A i \in 1 .. Len(z) : y[i] = z[i]
  BY <1>1, <1>3
<1>5. /\ Len(t) = Len(l) - 1 /\ \A i \in 1 .. Len(l) - 1 : t[i] = l[i + 1]
  BY <1>1
<1> HIDE DEF y, t
<1>6. ASSUME NEW i \in 1 .. Len(y)
      PROVE  y[i] \in 0 .. Len(o) /\ Agreed(SubSeq(o, 1, y[i])) >= i - 1
  <2>1. CASE i \in 1 .. Len(z)
    BY <1>4, <2>1 DEF Sized
  <2>2. CASE i = Len(z) + 1
    BY <1>1, <1>3, <1>4, <2>2
  <2> QED
    BY <1>1, <1>4, <2>1, <2>2
<1>7. ASSUME NEW i \in 1 .. Len(t)
      PROVE  t[i] \in 0 .. Len(o) /\ Agreed(SubSeq(o, 1, t[i])) >= Len(y) + i - 1
  <2>1. i + 1 \in 1 .. Len(l) /\ t[i] = l[i + 1]
    BY <1>1, <1>5
  <2>2. l[i + 1] \in 0 .. Len(o) /\ Agreed(SubSeq(o, 1, l[i + 1])) >= Len(z) + (i + 1) - 1
    BY <2>1 DEF Sized
  <2>3. Len(z) + (i + 1) - 1 = Len(y) + i - 1
    BY <1>1, <1>4
  <2> QED
    BY <2>1, <2>2, <2>3
<1>8. Len(y) + Len(t) = Agreed(o)
  BY <1>1, <1>4, <1>5
<1> QED
  BY <1>4, <1>6, <1>7, <1>8 DEF Sized, y, t

LEMMA TypesMore ==
  ASSUME NEW o \in Seq(Messages), NEW a \in 0 .. 3, NEW b \in 0 .. 3, NEW x \in Messages,
         TypesTold(o, a),
         IF x[1] = "TTYPE" THEN x[2] = TermTypes[a + 1] /\ b = (IF a < 3 THEN a + 1 ELSE a)
                           ELSE b = a
  PROVE  TypesTold(Append(o, x), b)
<1> DEFINE p == Append(o, x)
           T == Asked(o)
           n == Len(o)
<1>1. n \in Nat /\ T \in SUBSET (1 .. n)
  BY DEF Asked
<1>2. \A i \in 1 .. n : p[i] = o[i]
  OBVIOUS
<1>3. Asked(p) = IF x[1] = "TTYPE" THEN T \union {n + 1} ELSE T
  <2>1. \A i : i \in Asked(p) <=> i \in T \/ (i = n + 1 /\ x[1] = "TTYPE")
    BY DEF Asked
  <2> HIDE DEF p, T, n
  <2>2. CASE x[1] = "TTYPE"
    BY <2>1, <2>2
  <2>3. CASE x[1] # "TTYPE"
    BY <2>1, <2>3
  <2> QED
    BY <2>2, <2>3
<1>4. p[n + 1] = x
  OBVIOUS
<1>5. (\A i \in T : o[i][2] = TermTypes[Turn(Rank(T, i))]) /\ a + 1 = Turn(Cardinality(T) + 1)
  BY DEF TypesTold
<1> HIDE DEF p, T, n
<1>6. /\ Cardinality(T) \in Nat /\ Cardinality(T \union {n + 1}) = Cardinality(T) + 1
      /\ \A i \in 1 .. n : Rank(T \union {n + 1}, i) = Rank(T, i)
      /\ Rank(T \union {n + 1}, n + 1) = Cardinality(T) + 1
  BY <1>1, PlacesGrow
<1>7. CASE x[1] = "TTYPE"
  <2> DEFINE V == T \union {n + 1}
  <2>1. Asked(p) = V
    BY <1>3, <1>7
  <2>2. ASSUME NEW i \in V
        PROVE  p[i][2] = TermTypes[Turn(Rank(V, i))]
    <3>1. CASE i \in T
      BY <1>1, <1>2, <1>5, <1>6, <3>1
    <3>2. CASE i = n + 1
      <4>1. Rank(V, i) = Cardinality(T) + 1
        BY <1>6, <3>2
      <4> QED
        BY <1>4, <1>5, <1>7, <3>2, <4>1
    <3> QED
      BY <3>1, <3>2
  <2>3. b + 1 = Turn(Cardinality(V) + 1)
    <3>1. b = IF a < 3 THEN a + 1 ELSE a
      BY <1>7
    <3> QED
      BY <1>5, <1>6, <3>1 DEF Turn
  <2> HIDE DEF V
  <2> QED
    BY <2>1, <2>2, <2>3 DEF TypesTold, p
<1>8. CASE x[1] # "TTYPE"
  <2>1. Asked(p) = T /\ b = a
    BY <1>3, <1>8
  <2>2. \A i \in T : p[i] = o[i]
    BY <1>1, <1>2
  <2> QED
    BY <1>5, <2>1, <2>2 DEF TypesTold, p
<1> QED
  BY <1>7, <1>8

\* What is answered to a command, and when with the offer of the window size.
LEMMA ResponseIs ==
  ASSUME NEW a \in Actions, NEW o \in Bytes
  PROVE  /\ Response(a, o) \in Actions
         /\ Response(a, o) = "WILL" /\ o = "NAWS" <=> a = "DO" /\ o = "NAWS"
         /\ Offer(Response(a, o), o) \in Messages
         /\ Answers(Offer(a, o), Offer(Response(a, o), o))
<1>1. a \in {"WILL", "WONT", "DO", "DONT"}
  BY DEF Actions
<1>2. /\ a = "WILL" => Response(a, o) \in {"DO", "DONT"}
      /\ a = "DO" => Response(a, o) = IF o \in {"NAWS", "TTYPE"} THEN "WILL" ELSE "WONT"
      /\ a = "WONT" => Response(a, o) = "DONT"
      /\ a = "DONT" => Response(a, o) = "WONT"
  BY DEF Response
<1>3. Response(a, o) \in Actions
  BY <1>1, <1>2 DEF Actions
<1>4. Response(a, o) = "WILL" /\ o = "NAWS" <=> a = "DO" /\ o = "NAWS"
  BY <1>1, <1>2
<1>5. <<"IAC", Response(a, o), o>> \in {"IAC"} \X Actions \X Bytes
  BY <1>3
<1>6. Answers(<<"IAC", a, o>>, <<"IAC", Response(a, o), o>>)
  <2> DEFINE r == Response(a, o)
  <2>1. /\ <<"IAC", a, o>>[2] = a /\ <<"IAC", a, o>>[3] = o
        /\ <<"IAC", r, o>>[2] = r /\ <<"IAC", r, o>>[3] = o
    OBVIOUS
  <2>2. r \in {"DO", "DONT", "WILL", "WONT"}
    BY <1>3 DEF Actions
  <2>3. a = "DO" => r \in {"WILL", "WONT"}
    BY <1>2
  <2> HIDE DEF r
  <2> QED
    BY <1>1, <1>2, <2>1, <2>3 DEF Answers, r
<1> QED
  BY <1>3, <1>4, <1>5, <1>6 DEF Offer, Messages

\* One more message that is neither a size, nor an agreement to send it, nor a
\* terminal type.
LEMMA PostKeeps ==
  ASSUME NEW m, MachineOK(m), NEW x \in Messages,
         x # Offer("WILL", "NAWS"), x[1] # "TTYPE"
  PROVE  MachineOK([m EXCEPT !.now = Append(@, x)])
<1> DEFINE p == [m EXCEPT !.now = Append(@, x)]
<1>1. /\ m \in [n : Negotiator, now : Seq(Messages), later : Seq(Nat), bells : Nat]
      /\ m.n.mIsNAWS => m.n.mDoneNAWS
      /\ Sized(m.now, m.later, sizes) /\ TypesTold(m.now, m.n.mTermTypeAttempt)
  BY DEF MachineOK
<1>2. p.n = m.n /\ p.later = m.later /\ p.now = Append(m.now, x) /\ p.bells = m.bells
  BY <1>1
<1>3. p \in [n : Negotiator, now : Seq(Messages), later : Seq(Nat), bells : Nat]
  <2>1. Append(m.now, x) \in Seq(Messages)
    BY <1>1
  <2> QED
    BY <1>1, <2>1
<1>4. Sized(Append(m.now, x), m.later, sizes)
  <2>1. m.now \in Seq(Messages) /\ m.later \in Seq(Nat)
    BY <1>1
  <2> QED
    BY <1>1, <2>1, SizedMore
<1>5. TypesTold(Append(m.now, x), m.n.mTermTypeAttempt)
  <2>1. m.now \in Seq(Messages) /\ m.n.mTermTypeAttempt \in 0 .. 3
    BY <1>1 DEF Negotiator, TTYPE_MAX_TRIES
  <2> QED
    BY <1>1, <2>1, TypesMore
<1> HIDE DEF p
<1>6. MachineOK(p)
  BY <1>1, <1>2, <1>3, <1>4, <1>5 DEF MachineOK
<1> QED
  BY <1>6 DEF p

\* dispatchIAC answers, sends the size when it agrees to, and greets.
LEMMA IACKeeps ==
  ASSUME NEW m, MachineOK(m), NEW a \in Actions, NEW o \in Bytes
  PROVE  /\ MachineOK(DispatchIAC(m, a, o)) /\ DispatchIAC(m, a, o).bells = m.bells
         /\ \/ DispatchIAC(m, a, o).now = Append(m.now, Offer(Response(a, o), o))
            \/ DispatchIAC(m, a, o).now =
                 Append(Append(Append(m.now, Offer(Response(a, o), o)), <<"core.hello">>),
                        <<"core.supports.set">>)
<1> DEFINE x == Offer(Response(a, o), o)
           p == DispatchIAC(m, a, o)
           greets == a = "WILL" /\ o = "GMCP" /\ mUseGMCP
<1>1. /\ m \in [n : Negotiator, now : Seq(Messages), later : Seq(Nat), bells : Nat]
      /\ m.n.mIsNAWS => m.n.mDoneNAWS
      /\ Sized(m.now, m.later, sizes) /\ TypesTold(m.now, m.n.mTermTypeAttempt)
  BY DEF MachineOK
<1>2. /\ m.now \in Seq(Messages) /\ m.later \in Seq(Nat) /\ m.n \in Negotiator
      /\ m.n.mTermTypeAttempt \in 0 .. 3
  BY <1>1 DEF Negotiator, TTYPE_MAX_TRIES
<1>3. x \in Messages /\ x[1] # "TTYPE"
      /\ (x = Offer("WILL", "NAWS") <=> a = "DO" /\ o = "NAWS")
  <2>1. x = Offer("WILL", "NAWS") <=> Response(a, o) = "WILL" /\ o = "NAWS"
    BY DEF Offer
  <2> QED
    BY <2>1, ResponseIs DEF Offer
<1>4. CASE a = "DO" /\ o = "NAWS"
  <2> DEFINE n == [m.n EXCEPT !.mIsNAWS = TRUE, !.mDoneNAWS = FALSE]
             q == [m EXCEPT !.n = NawsSent(n), !.later = Append(@, Len(m.now)),
                            !.now = (@ \o <<x>>) \o <<>>]
  <2>1. AfterCommand(m.n, a, o) = n
    BY <1>4 DEF AfterCommand
  <2>2. NawsDue(n)
    BY <1>2 DEF NawsDue, Negotiator
  <2>3. p = q
    BY <1>4, <2>1, <2>2, Zenon DEF DispatchIAC
  <2>4. /\ NawsSent(n) \in Negotiator /\ NawsSent(n).mDoneNAWS
        /\ NawsSent(n).mTermTypeAttempt = m.n.mTermTypeAttempt
    BY <1>2 DEF NawsSent, Negotiator
  <2>5. (m.now \o <<x>>) \o <<>> = Append(m.now, x)
    BY <1>2, <1>3
  <2>6. /\ q.n = NawsSent(n) /\ q.later = Append(m.later, Len(m.now))
        /\ q.now = Append(m.now, x) /\ q.bells = m.bells
    BY <1>1, <2>5
  <2>7. q \in [n : Negotiator, now : Seq(Messages), later : Seq(Nat), bells : Nat]
    <3>1. Append(m.now, x) \in Seq(Messages) /\ Append(m.later, Len(m.now)) \in Seq(Nat)
      BY <1>2, <1>3
    <3> DEFINE S  == [n : Negotiator, now : Seq(Messages), later : Seq(Nat), bells : Nat]
               q1 == [m EXCEPT !.n = NawsSent(n)]
               q2 == [q1 EXCEPT !.later = Append(m.later, Len(m.now))]
               q3 == [q2 EXCEPT !.now = Append(m.now, x)]
    <3>2. q = q3
      <4> HIDE DEF n, x
      <4> QED
        BY <1>1, <2>5
    <3> HIDE DEF x, n, q
    <3>3. q1 \in S
      BY <1>1, <2>4
    <3>4. q2 \in S
      BY <3>1, <3>3
    <3>5. q3 \in S
      BY <3>1, <3>4
    <3> QED
      BY <3>2, <3>5
  <2>8. Sized(Append(m.now, x), Append(m.later, Len(m.now)), sizes)
    <3>1. x = Offer("WILL", "NAWS") /\ x \in Messages
      BY <1>3, <1>4
    <3> DEFINE k == Append(m.later, Len(m.now))
    <3>2. k = IF x = Offer("WILL", "NAWS") THEN Append(m.later, Len(m.now)) ELSE m.later
      BY <3>1
    <3> HIDE DEF x, k
    <3>3. Sized(Append(m.now, x), k, sizes)
      BY <1>1, <1>2, <3>1, <3>2, SizedMore
    <3> QED
      BY <3>3 DEF k
  <2>9. TypesTold(Append(m.now, x), m.n.mTermTypeAttempt)
    BY <1>1, <1>2, <1>3, TypesMore
  <2> HIDE DEF q, n
  <2>10. MachineOK(q)
    BY <2>4, <2>6, <2>7, <2>8, <2>9 DEF MachineOK
  <2> QED
    BY <2>3, <2>6, <2>10, Zenon
<1>5. CASE ~(a = "DO" /\ o = "NAWS")
  <2> DEFINE q == [m EXCEPT !.now = Append(@, x)]
  <2>1. AfterCommand(m.n, a, o) = m.n /\ ~NawsDue(m.n)
    BY <1>1, <1>5 DEF AfterCommand, NawsDue
  <2>2. MachineOK(q)
    BY <1>3, <1>5, PostKeeps
  <2>3. q.now = Append(m.now, x) /\ q.bells = m.bells /\ q.n = m.n /\ q.later = m.later
    BY <1>1
  <2>4. CASE ~greets
    <3>1. p = [m EXCEPT !.n = m.n, !.later = @, !.now = (@ \o <<x>>) \o <<>>]
      BY <2>1, <2>4, Zenon DEF DispatchIAC
    <3>2. (m.now \o <<x>>) \o <<>> = Append(m.now, x)
      BY <1>2, <1>3
    <3>3. p = q
      BY <1>1, <3>1, <3>2
    <3> QED
      BY <2>2, <2>3, <3>3, Zenon
  <2>5. CASE greets
    <3> DEFINE r == [q EXCEPT !.now = Append(@, <<"core.hello">>)]
               t == [r EXCEPT !.now = Append(@, <<"core.supports.set">>)]
               h == <<<<"core.hello">>, <<"core.supports.set">>>>
    <3>1. p = [m EXCEPT !.n = m.n, !.later = @, !.now = (@ \o <<x>>) \o h]
      BY <2>1, <2>5, Zenon DEF DispatchIAC
    <3>2. (m.now \o <<x>>) \o h
            = Append(Append(Append(m.now, x), <<"core.hello">>), <<"core.supports.set">>)
      BY <1>2, <1>3
    <3>3. \A y \in {<<"core.hello">>, <<"core.supports.set">>} :
            y \in Messages /\ y # Offer("WILL", "NAWS") /\ y[1] # "TTYPE"
      BY DEF Messages, Offer
    <3> HIDE DEF q
    <3>4. MachineOK(r)
      BY <2>2, <3>3, PostKeeps
    <3>5. MachineOK(t)
      <4> HIDE DEF r
      <4> QED
        BY <3>3, <3>4, PostKeeps
    <3>6. p = t /\ t.bells = m.bells
      BY <1>1, <3>1, <3>2 DEF q
    <3>7. p.now = Append(Append(Append(m.now, x), <<"core.hello">>), <<"core.supports.set">>)
      BY <1>1, <3>1, <3>2
    <3> HIDE DEF t, p
    <3>8. MachineOK(p) /\ p.bells = m.bells
      BY <3>5, <3>6
    <3> QED
      BY <3>7, <3>8, Zenon DEF p
  <2> QED
    BY <2>4, <2>5
<1> QED
  BY <1>4, <1>5

LEMMA DispatchKeeps ==
  ASSUME NEW m, MachineOK(m), NEW e \in Events
  PROVE  /\ MachineOK(Dispatch(m, e))
         /\ Dispatch(m, e).bells = m.bells + IF e = <<"BELL">> THEN 1 ELSE 0
<1>1. /\ m \in [n : Negotiator, now : Seq(Messages), later : Seq(Nat), bells : Nat]
      /\ m.n.mIsNAWS => m.n.mDoneNAWS
      /\ Sized(m.now, m.later, sizes) /\ TypesTold(m.now, m.n.mTermTypeAttempt)
  BY DEF MachineOK
<1>2. CASE e = <<"BELL">>
  <2> DEFINE p == [m EXCEPT !.bells = Rung(@)]
  <2>3. e # <<"TTYPE">> /\ e[1] \notin Actions
    BY <1>2 DEF Actions
  <2>1. Dispatch(m, e) = p
    BY <1>2, <2>3, Zenon DEF Dispatch
  <2>2. MachineOK(p) /\ p.bells = m.bells + 1
    BY <1>1 DEF MachineOK, Rung
  <2> HIDE DEF p
  <2> QED
    BY <1>2, <2>1, <2>2
<1>3. CASE e = <<"TTYPE">>
  <2> DEFINE x == <<"TTYPE", TermType(m.n)>>
             c == AfterTermType(m.n)
             p == [m EXCEPT !.now = Append(@, x), !.n = c]
  <2>1. e # <<"BELL">> /\ e[1] \notin Actions
    BY <1>3 DEF Actions
  <2>2. Dispatch(m, e) = p
    BY <1>3, <2>1, Zenon DEF Dispatch
  <2>3. m.n \in Negotiator /\ m.n.mTermTypeAttempt \in 0 .. 3
    BY <1>1 DEF Negotiator, TTYPE_MAX_TRIES
  <2>4. /\ c \in Negotiator /\ c.mIsNAWS = m.n.mIsNAWS /\ c.mDoneNAWS = m.n.mDoneNAWS
        /\ c.mTermTypeAttempt \in 0 .. 3
        /\ c.mTermTypeAttempt = IF m.n.mTermTypeAttempt < 3 THEN m.n.mTermTypeAttempt + 1
                                                            ELSE m.n.mTermTypeAttempt
    BY <2>3 DEF AfterTermType, Negotiator, TTYPE_MAX_TRIES
  <2>5. TermType(m.n) = TermTypes[m.n.mTermTypeAttempt + 1] /\ TermType(m.n) \in {TermTypes[k] : k \in 1 .. 4}
    <3>1. m.n.mTermTypeAttempt + 1 \in 1 .. 4
      BY <2>3
    <3> QED
      BY <3>1 DEF TermType
  <2>6. x \in Messages /\ x[1] = "TTYPE" /\ x[2] = TermTypes[m.n.mTermTypeAttempt + 1]
        /\ x # Offer("WILL", "NAWS")
    BY <2>5 DEF Messages, Offer
  <2> HIDE DEF x, c
  <2>7. Sized(Append(m.now, x), m.later, sizes)
    <3>1. m.now \in Seq(Messages) /\ m.later \in Seq(Nat)
      BY <1>1
    <3> QED
      BY <1>1, <2>6, <3>1, SizedMore
  <2>8. TypesTold(Append(m.now, x), c.mTermTypeAttempt)
    <3>1. m.now \in Seq(Messages)
      BY <1>1
    <3> QED
      BY <1>1, <2>3, <2>4, <2>6, <3>1, TypesMore
  <2>9. /\ p.n = c /\ p.now = Append(m.now, x) /\ p.later = m.later /\ p.bells = m.bells
        /\ p \in [n : Negotiator, now : Seq(Messages), later : Seq(Nat), bells : Nat]
    <3> DEFINE S  == [n : Negotiator, now : Seq(Messages), later : Seq(Nat), bells : Nat]
               q  == [m EXCEPT !.now = Append(m.now, x)]
               q2 == [q EXCEPT !.n = c]
    <3>1. Append(m.now, x) \in Seq(Messages)
      BY <1>1, <2>6
    <3>2. q \in S
      BY <1>1, <3>1
    <3>3. q2 \in S
      BY <2>4, <3>2
    <3>4. p = q2
      BY <1>1
    <3> QED
      BY <1>1, <3>3, <3>4
  <2> HIDE DEF p
  <2>10. MachineOK(p)
    BY <1>1, <2>4, <2>7, <2>8, <2>9 DEF MachineOK
  <2> QED
    BY <1>1, <2>1, <2>2, <2>9, <2>10
<1>4. CASE e \in Actions \X Bytes
  <2>1. e[1] \in Actions /\ e[2] \in Bytes /\ e # <<"BELL">> /\ e # <<"TTYPE">>
    BY <1>4
  <2>2. Dispatch(m, e) = DispatchIAC(m, e[1], e[2])
    BY <2>1, Zenon DEF Dispatch
  <2>3. MachineOK(DispatchIAC(m, e[1], e[2])) /\ DispatchIAC(m, e[1], e[2]).bells = m.bells
    BY <2>1, IACKeeps
  <2> QED
    BY <1>1, <2>1, <2>2, <2>3
<1>5. CASE e = <<"GMCPTRIGGERED">>
  <2> DEFINE p == [m EXCEPT !.now = Append(@, e)]
  <2>1. e[1] \notin Actions /\ e # <<"BELL">> /\ e # <<"TTYPE">>
    BY <1>5 DEF Actions
  <2>2. Dispatch(m, e) = p
    BY <2>1, Zenon DEF Dispatch
  <2>3. e \in Messages /\ e # Offer("WILL", "NAWS") /\ e[1] # "TTYPE"
    BY <1>5 DEF Messages, Offer
  <2>4. MachineOK(p) /\ p.bells = m.bells
    BY <1>1, <2>3, PostKeeps
  <2> HIDE DEF p
  <2> QED
    BY <1>1, <2>1, <2>2, <2>4
<1> QED
  BY <1>2, <1>3, <1>4, <1>5 DEF Events

(***************************************************************************)
(* What rawProcess returns and posts, whatever the chunk is.               *)
(***************************************************************************)
Parts == [text : Seq(Bytes), events : Seq(Events), end : {"ok", "compress", "crash", "spin"}]
Rings(d, i) == Cardinality({k \in i .. Len(d) : d[k] = "BELL"})

LEMMA ScanTyped ==
  ASSUME NEW d \in Seq(Bytes), NEW n \in Nat, Len(d) = n, NEW f, Scans(d, f)
  PROVE  \A i \in 1 .. n + 1 : f[i] \in Parts
<1> DEFINE Bad == {k \in 0 .. n : f[n + 1 - k] \notin Parts}
<1>1. ASSUME Bad # {}
      PROVE  FALSE
  <2>1. PICK k \in Bad : \A y \in Bad : k <= y
    <3>1. Bad \in SUBSET Nat
      OBVIOUS
    <3> QED
      BY <1>1, <3>1, Least
  <2>2. PICK i : i = n + 1 - k
    OBVIOUS
  <2>3. i \in 1 .. n + 1 /\ f[i] \notin Parts /\ f[i] = ScanStep(d, i, f)
    BY <2>1, <2>2 DEF Scans
  <2>4. ASSUME NEW j \in i + 1 .. n + 1
        PROVE  f[j] \in Parts
    <3>1. n + 1 - j \in 0 .. n /\ ~(k <= n + 1 - j) /\ n + 1 - (n + 1 - j) = j
      BY <2>2, <2>3, <2>1
    <3>2. n + 1 - j \notin Bad
      BY <2>1, <3>1
    <3> QED
      BY <3>1, <3>2
  <2>5. \A how \in {"ok", "compress", "crash", "spin"} : Ends(how) \in Parts
    BY DEF Ends, Parts
  <2>6. \A b \in Bytes, r \in Parts : Put(b, r) \in Parts
    <3> TAKE b \in Bytes, r \in Parts
    <3>1. <<b>> \o r.text \in Seq(Bytes)
      BY DEF Parts
    <3> QED
      BY <3>1 DEF Put, Parts
  <2>7. \A e \in Events, r \in Parts : Event(e, r) \in Parts
    <3> TAKE e \in Events, r \in Parts
    <3>1. <<e>> \o r.events \in Seq(Events)
      BY DEF Parts
    <3> QED
      BY <3>1 DEF Event, Parts
  <2> QED
    BY <2>3, <2>4, <2>5, <2>6, <2>7, StepIs
<1>2. ASSUME NEW i \in 1 .. n + 1
      PROVE  f[i] \in Parts
  <2>1. n + 1 - i \in 0 .. n /\ n + 1 - (n + 1 - i) = i
    OBVIOUS
  <2>2. n + 1 - i \notin Bad
    BY <1>1
  <2> QED
    BY <2>1, <2>2
<1> QED
  BY <1>2

LEMMA RingsFall ==
  ASSUME NEW d, NEW n \in Nat, Len(d) = n, NEW i \in 1 .. n + 1
  PROVE  /\ Rings(d, i) \in Nat
         /\ \A k \in i + 1 .. n + 1 :
              /\ Rings(d, k) \in Nat /\ Rings(d, k) <= Rings(d, i)
              /\ d[i] = "BELL" => Rings(d, k) + 1 <= Rings(d, i)
<1> DEFINE S(k) == {j \in k .. n : d[j] = "BELL"}
<1>1. ASSUME NEW k \in 1 .. n + 1
      PROVE  IsFiniteSet(S(k)) /\ Cardinality(S(k)) \in Nat
  <2>1. S(k) \in SUBSET (1 .. n) /\ IsFiniteSet(1 .. n)
    BY FS_Interval
  <2> QED
    BY <2>1, FS_Subset, FS_CardinalityType
<1>2. ASSUME NEW k \in i + 1 .. n + 1
      PROVE  /\ Cardinality(S(k)) <= Cardinality(S(i))
             /\ d[i] = "BELL" => Cardinality(S(k)) + 1 <= Cardinality(S(i))
  <2>1. k \in 1 .. n + 1 /\ S(k) \in SUBSET S(i)
    OBVIOUS
  <2>2. IsFiniteSet(S(k)) /\ IsFiniteSet(S(i)) /\ Cardinality(S(k)) <= Cardinality(S(i))
    BY <1>1, <2>1, FS_Subset
  <2>3. ASSUME d[i] = "BELL"
        PROVE  Cardinality(S(k)) + 1 <= Cardinality(S(i))
    <3>1. i \notin S(k) /\ S(k) \union {i} \in SUBSET S(i)
      <4>1. i \in i .. n
        OBVIOUS
      <4> QED
        BY <2>1, <2>3, <4>1
    <3>2. Cardinality(S(k) \union {i}) = Cardinality(S(k)) + 1
      BY <2>2, <3>1, FS_AddElement
    <3>3. Cardinality(S(k) \union {i}) <= Cardinality(S(i))
      BY <2>2, <3>1, FS_Subset
    <3> QED
      BY <3>2, <3>3
  <2> QED
    BY <2>2, <2>3
<1>3. \A k : Rings(d, k) = Cardinality(S(k))
  BY DEF Rings
<1> HIDE DEF S
<1> QED
  BY <1>1, <1>2, <1>3

LEMMA ScanKeeps ==
  ASSUME NEW d \in Seq(Bytes), NEW n \in Nat, Len(d) = n, NEW f, Scans(d, f)
  PROVE  \A i \in 1 .. n + 1 : \A m : MachineOK(m) =>
            /\ MachineOK(Folded(m, f[i].events))
            /\ Folded(m, f[i].events).bells <= m.bells + Rings(d, i)
<1> DEFINE P(i) == \A m : MachineOK(m) =>
                     /\ MachineOK(Folded(m, f[i].events))
                     /\ Folded(m, f[i].events).bells <= m.bells + Rings(d, i)
           Bad == {k \in 0 .. n : ~P(n + 1 - k)}
<1>a. \A m : MachineOK(m) => m.bells \in Nat
  BY DEF MachineOK
<1>1. ASSUME Bad # {}
      PROVE  FALSE
  <2>1. PICK k \in Bad : \A y \in Bad : k <= y
    <3>1. Bad \in SUBSET Nat
      OBVIOUS
    <3> QED
      BY <1>1, <3>1, Least
  <2>2. PICK i : i = n + 1 - k
    OBVIOUS
  <2>3. i \in 1 .. n + 1 /\ ~P(i) /\ f[i] = ScanStep(d, i, f)
    BY <2>1, <2>2 DEF Scans
  <2>4. ASSUME NEW j \in i + 1 .. n + 1
        PROVE  P(j) /\ f[j] \in Parts
    <3>1. n + 1 - j \in 0 .. n /\ ~(k <= n + 1 - j) /\ n + 1 - (n + 1 - j) = j
      BY <2>2, <2>3, <2>1
    <3>2. n + 1 - j \notin Bad
      BY <2>1, <3>1
    <3>3. j \in 1 .. n + 1
      BY <2>3
    <3> QED
      BY <3>1, <3>2, <3>3, ScanTyped
  <2>5. PICK m : MachineOK(m) /\ ~(/\ MachineOK(Folded(m, f[i].events))
                                   /\ Folded(m, f[i].events).bells <= m.bells + Rings(d, i))
    BY <2>3
  <2>6. Rings(d, i) \in Nat /\ m.bells \in Nat
    BY <1>a, <2>3, <2>5, RingsFall
  <2> HIDE DEF P
  <2>7. CASE \E how : f[i] = Ends(how)
    <3>1. f[i].events = <<>>
      BY <2>7 DEF Ends
    <3> QED
      BY <2>5, <2>6, <3>1, FoldNone
  <2>9. CASE \E j \in i + 1 .. n + 1 : f[i] = f[j] \/ \E b \in Bytes : f[i] = Put(b, f[j])
    <3>1. PICK j \in i + 1 .. n + 1 : f[i] = f[j] \/ \E b \in Bytes : f[i] = Put(b, f[j])
      BY <2>9
    <3>2. f[i].events = f[j].events
      BY <2>4, <3>1 DEF Put, Parts
    <3>3. MachineOK(Folded(m, f[j].events))
          /\ Folded(m, f[j].events).bells <= m.bells + Rings(d, j)
      BY <2>4, <2>5 DEF P
    <3>4. Rings(d, j) \in Nat /\ Rings(d, j) <= Rings(d, i)
      BY <2>3, RingsFall
    <3>5. Folded(m, f[j].events).bells \in Nat
      BY <1>a, <3>3
    <3> QED
      BY <2>5, <2>6, <3>2, <3>3, <3>4, <3>5
  <2>10. CASE \E j \in i + 1 .. n + 1, e \in Events :
                f[i] = Event(e, f[j]) /\ (e = <<"BELL">> => d[i] = "BELL")
    <3>1. PICK j \in i + 1 .. n + 1, e \in Events :
                f[i] = Event(e, f[j]) /\ (e = <<"BELL">> => d[i] = "BELL")
      BY <2>10
    <3>2. f[i].events = <<e>> \o f[j].events /\ f[j].events \in Seq(Events)
      BY <2>4, <3>1 DEF Event, Parts
    <3> DEFINE p == Dispatch(m, e)
    <3>3. MachineOK(p) /\ p.bells = m.bells + IF e = <<"BELL">> THEN 1 ELSE 0
      BY <2>5, DispatchKeeps
    <3>4. Folded(m, f[i].events) = Folded(p, f[j].events)
      BY <3>2, FoldFirst
    <3> HIDE DEF p
    <3>5. MachineOK(Folded(p, f[j].events))
          /\ Folded(p, f[j].events).bells <= p.bells + Rings(d, j)
      BY <2>4, <3>3 DEF P
    <3>6. /\ Rings(d, j) \in Nat /\ Rings(d, j) <= Rings(d, i)
          /\ d[i] = "BELL" => Rings(d, j) + 1 <= Rings(d, i)
      BY <2>3, RingsFall
    <3>7. Folded(p, f[j].events).bells \in Nat /\ p.bells \in Nat
      BY <1>a, <3>3, <3>5
    <3>8. p.bells + Rings(d, j) <= m.bells + Rings(d, i)
      <4>1. CASE e = <<"BELL">>
        BY <2>6, <3>1, <3>3, <3>6, <4>1
      <4>2. CASE e # <<"BELL">>
        BY <2>6, <3>3, <3>6, <4>2
      <4> QED
        BY <4>1, <4>2
    <3> QED
      BY <2>5, <2>6, <3>4, <3>5, <3>6, <3>7, <3>8
  <2> QED
    BY <2>3, <2>7, <2>9, <2>10, StepIs
<1>2. ASSUME NEW i \in 1 .. n + 1
      PROVE  P(i)
  <2>1. n + 1 - i \in 0 .. n /\ n + 1 - (n + 1 - i) = i
    OBVIOUS
  <2>2. n + 1 - i \notin Bad
    BY <1>1
  <2> HIDE DEF P
  <2> QED
    BY <2>1, <2>2
<1> QED
  BY <1>2

(***************************************************************************)
(* The stream, unit by unit and byte by byte.                              *)
(***************************************************************************)
LEMMA NoPlace == \A i : i \notin 1 .. 0
OBVIOUS

LEMMA FlattenIs ==
  ASSUME NEW seqs, NEW n \in Nat, n # 0, Len(seqs) = n
  PROVE  \E f : /\ f[1] = seqs[1]
                /\ \A i \in 2 .. n : f[i] = f[i - 1] \o seqs[i]
                /\ FlattenSeq(seqs) = f[n]
<1> DEFINE Step(f, i) == IF i = 1 THEN seqs[i] ELSE f[i - 1] \o seqs[i]
           Rec(f, k)  == [i \in 1 .. k |-> Step(f, i)]
           Short      == {k \in 0 .. n : ~\E g : g = Rec(g, k)}
           it         == CHOOSE f : f = [i \in 1 .. Len(seqs) |-> Step(f, i)]
<1>1. FlattenSeq(seqs) = it[n]
  <2>1. Len(seqs) # 0
    OBVIOUS
  <2>2. FlattenSeq(seqs) = it[Len(seqs)]
    BY <2>1, Zenon DEF FlattenSeq
  <2> QED
    BY <2>2, Zenon
<1>2. ASSUME Short # {}
      PROVE  FALSE
  <2>1. PICK k \in Short : \A y \in Short : k <= y
    <3>1. Short \in SUBSET (0 .. n)
      BY Zenon
    <3> HIDE DEF Short
    <3>2. Short \in SUBSET Nat
      BY <3>1
    <3> QED
      BY <1>2, <3>2, Least
  <2>2. CASE k = 0
    <3> DEFINE g == [i \in 1 .. 0 |-> <<>>]
    <3>2. g = Rec(g, 0)
      BY NoPlace, Zenon
    <3> QED
      BY <2>1, <2>2, <3>2
  <2>3. CASE k # 0
    <3>1. k - 1 \in 0 .. n /\ k \in 1 .. n /\ ~(k <= k - 1)
      BY <2>1, <2>3
    <3>2. k - 1 \notin Short
      BY <2>1, <3>1
    <3>3. PICK g : g = Rec(g, k - 1)
      BY <3>1, <3>2
    <3> DEFINE h == [i \in 1 .. k |-> IF i = k THEN Step(g, k) ELSE g[i]]
    <3>4. ASSUME NEW i \in 1 .. k - 1
          PROVE  g[i] = Step(g, i) /\ h[i] = g[i]
      <4>1. i \in 1 .. k /\ i # k
        BY <3>1
      <4> QED
        BY <3>3, <4>1, Zenon
    <3>5. h[k] = Step(g, k)
      BY <3>1
    <3>6. ASSUME NEW i \in 1 .. k
          PROVE  h[i] = Step(h, i)
      <4>1. CASE i = 1
        <5>1. i = k \/ i \in 1 .. k - 1
          BY <3>1
        <5>2. h[i] = seqs[i]
          BY <3>4, <3>5, <4>1, <5>1, Zenon
        <5> QED
          BY <4>1, <5>2
      <4>2. CASE i # 1
        <5>1. i - 1 \in 1 .. k - 1 /\ (i = k \/ i \in 1 .. k - 1)
          BY <3>1, <4>2
        <5> QED
          BY <3>4, <3>5, <4>2, <5>1
      <4> QED
        BY <4>1, <4>2
    <3>7. h = Rec(h, k)
      BY <3>6, Zenon
    <3> QED
      BY <2>1, <3>7
  <2> QED
    BY <2>2, <2>3
<1>3. \E f : f = [i \in 1 .. Len(seqs) |-> Step(f, i)]
  <2>1. n \notin Short
    BY <1>2
  <2>2. n \in 0 .. n
    OBVIOUS
  <2> QED
    BY <2>1, <2>2, Zenon
<1>4. it = [i \in 1 .. Len(seqs) |-> Step(it, i)]
  BY <1>3, Zenon
<1> HIDE DEF it
<1>5. \A i \in 1 .. n : it[i] = Step(it, i)
  BY <1>4
<1>6. 1 \in 1 .. n /\ \A i \in 2 .. n : i \in 1 .. n /\ i # 1
  OBVIOUS
<1> QED
  BY <1>1, <1>5, <1>6

LEMMA FlattenMore ==
  ASSUME NEW M, NEW s \in Seq(Seq(M)), NEW x \in Seq(M)
  PROVE  /\ FlattenSeq(s) \in Seq(M)
         /\ FlattenSeq(Append(s, x)) = FlattenSeq(s) \o x
<1> DEFINE n == Len(s)
           t == Append(s, x)
<1>1. /\ n \in Nat /\ Len(t) = n + 1 /\ t[n + 1] = x
      /\ \A i \in 1 .. n : t[i] = s[i] /\ s[i] \in Seq(M)
  OBVIOUS
<1>2. PICK g : /\ g[1] = t[1]
               /\ \A i \in 2 .. n + 1 : g[i] = g[i - 1] \o t[i]
               /\ FlattenSeq(t) = g[n + 1]
  <2> PICK tt : tt = t
    OBVIOUS
  <2>1. n + 1 \in Nat /\ n + 1 # 0 /\ Len(tt) = n + 1
    BY <1>1
  <2> HIDE DEF n, t
  <2> QED
    BY <2>1, FlattenIs
<1>3. CASE n = 0
  <2>1. s = <<>> /\ t[1] = x
    BY <1>1, <1>3
  <2>2. FlattenSeq(s) = <<>>
    BY <2>1 DEF FlattenSeq
  <2>3. g[n + 1] = g[1] /\ <<>> \o x = x
    BY <1>3
  <2>4. FlattenSeq(t) = x
    BY <1>2, <2>1, <2>3
  <2> HIDE DEF t
  <2> QED
    BY <2>2, <2>3, <2>4 DEF t
<1>4. CASE n # 0
  <2>1. PICK f : /\ f[1] = s[1]
                 /\ \A i \in 2 .. n : f[i] = f[i - 1] \o s[i]
                 /\ FlattenSeq(s) = f[n]
    <3>1. n \in Nat /\ Len(s) = n
      BY <1>1
    <3> PICK ss : ss = s
      OBVIOUS
    <3> HIDE DEF n
    <3> QED
      BY <1>4, <3>1, FlattenIs
  <2> DEFINE Bad == {i \in 1 .. n : ~(f[i] \in Seq(M) /\ g[i] = f[i])}
  <2> HIDE DEF n, t
  <2>2. ASSUME Bad # {}
        PROVE  FALSE
    <3>1. PICK k \in Bad : \A y \in Bad : k <= y
      <4>1. Bad \in SUBSET Nat
        BY <1>1
      <4> QED
        BY <2>2, <4>1, Least
    <3>2. CASE k = 1
      BY <1>1, <1>2, <2>1, <3>1, <3>2
    <3>3. CASE k # 1
      <4>1. k - 1 \in 1 .. n /\ k \in 2 .. n /\ ~(k <= k - 1) /\ k \in 2 .. n + 1
        BY <1>1, <3>1, <3>3
      <4>2. f[k - 1] \in Seq(M) /\ g[k - 1] = f[k - 1]
        BY <3>1, <4>1
      <4>3. f[k] = f[k - 1] \o s[k] /\ g[k] = g[k - 1] \o s[k] /\ s[k] \in Seq(M)
        BY <1>1, <1>2, <2>1, <3>1, <4>1
      <4>4. f[k] \in Seq(M) /\ g[k] = f[k]
        BY <4>2, <4>3
      <4> QED
        BY <3>1, <4>4
    <3> QED
      BY <3>2, <3>3
  <2>3. f[n] \in Seq(M) /\ g[n] = f[n]
    <3>1. n \in 1 .. n
      BY <1>1, <1>4
    <3> QED
      BY <2>2, <3>1
  <2>4. n + 1 \in 2 .. n + 1 /\ n + 1 - 1 = n
    BY <1>1, <1>4
  <2>5. g[n + 1] = g[n] \o x
    <3> PICK k : k = n + 1
      OBVIOUS
    <3>1. k \in 2 .. n + 1 /\ k - 1 = n
      <4>1. n \in Nat
        BY <1>1
      <4> QED
        BY <1>4, <4>1
    <3>2. g[k] = g[k - 1] \o t[k]
      BY <1>2, <3>1
    <3> QED
      BY <1>1, <3>1, <3>2
  <2>6. FlattenSeq(s) \in Seq(M) /\ FlattenSeq(t) = FlattenSeq(s) \o x
    BY <1>2, <2>1, <2>3, <2>5
  <2> QED
    BY <2>6 DEF t
<1> QED
  BY <1>3, <1>4

LEMMA PrefixMore ==
  ASSUME NEW M, NEW s \in Seq(M), NEW u \in 0 .. Len(s)
  PROVE  /\ SubSeq(s, 1, u) \in Seq(M) /\ Len(SubSeq(s, 1, u)) = u
         /\ u < Len(s) => SubSeq(s, 1, u + 1) = Append(SubSeq(s, 1, u), s[u + 1])
         /\ SubSeq(s, 1, 0) = <<>>
OBVIOUS

Joined(r, s, t) ==
    /\ Len(r) = Len(s) + Len(t)
    /\ \A i \in 1 .. Len(s) : r[i] = s[i]
    /\ \A i \in 1 .. Len(t) : r[Len(s) + i] = t[i]

LEMMA ConcatIs ==
  ASSUME NEW M, NEW s \in Seq(M), NEW t \in Seq(M)
  PROVE  s \o t \in Seq(M) /\ Joined(s \o t, s, t)
BY DEF Joined

LEMMA TupleIn ==
  ASSUME NEW M, NEW a \in M, NEW b \in M, NEW c \in M
  PROVE  <<>> \in Seq(M) /\ <<a>> \in Seq(M) /\ <<a, b>> \in Seq(M) /\ <<a, b, c>> \in Seq(M)
OBVIOUS

\* A subnegotiation, byte by byte.
LEMMA SubIs ==
  ASSUME NEW o \in Bytes, NEW p \in Seq(Bytes), NEW n \in Nat, Len(p) = n
  PROVE  /\ Sub(o, p) \in Seq(Bytes) /\ Len(Sub(o, p)) = n + 5
         /\ Sub(o, p)[1] = "IAC" /\ Sub(o, p)[2] = "SB" /\ Sub(o, p)[3] = o
         /\ \A i \in 1 .. n : Sub(o, p)[i + 3] = p[i]
         /\ Sub(o, p)[n + 4] = "IAC" /\ Sub(o, p)[n + 5] = "SE"
<1> DEFINE head == <<"IAC", "SB", o>>
           tail == <<"IAC", "SE">>
           most == head \o p
           all  == most \o tail
<1>1. "IAC" \in Bytes /\ "SB" \in Bytes /\ "SE" \in Bytes
  BY DEF Bytes
<1>2. head \in Seq(Bytes) /\ tail \in Seq(Bytes)
  BY <1>1, TupleIn
<1>3. /\ Len(head) = 3 /\ head[1] = "IAC" /\ head[2] = "SB" /\ head[3] = o
      /\ Len(tail) = 2 /\ tail[1] = "IAC" /\ tail[2] = "SE"
  OBVIOUS
<1>4. Sub(o, p) = all
  BY Zenon DEF Sub
<1> HIDE DEF head, tail, all
<1>5. most \in Seq(Bytes) /\ Joined(most, head, p)
  BY <1>2, ConcatIs
<1> HIDE DEF most
<1>6. all \in Seq(Bytes) /\ Joined(all, most, tail)
  BY <1>2, <1>5, ConcatIs DEF all
<1>a. /\ Len(most) = 3 + n /\ Len(all) = n + 5
      /\ \A i \in 1 .. 3 : most[i] = head[i]
      /\ \A i \in 1 .. n : most[3 + i] = p[i]
      /\ \A i \in 1 .. 3 + n : all[i] = most[i]
      /\ \A i \in 1 .. 2 : all[3 + n + i] = tail[i]
  BY <1>3, <1>5, <1>6 DEF Joined
<1>7. all[1] = "IAC" /\ all[2] = "SB" /\ all[3] = o
  <2>1. 1 \in 1 .. 3 + n /\ 2 \in 1 .. 3 + n /\ 3 \in 1 .. 3 + n
    OBVIOUS
  <2> QED
    BY <1>3, <1>a, <2>1
<1>8. all[n + 4] = "IAC" /\ all[n + 5] = "SE"
  <2>1. 3 + n + 1 = n + 4 /\ 3 + n + 2 = n + 5
    OBVIOUS
  <2> QED
    BY <1>3, <1>a, <2>1
<1>9. ASSUME NEW i \in 1 .. n
      PROVE  all[i + 3] = p[i]
  <2>1. i + 3 \in 1 .. 3 + n /\ i + 3 = 3 + i
    OBVIOUS
  <2> QED
    BY <1>a, <2>1
<1> QED
  BY <1>4, <1>6, <1>a, <1>7, <1>8, <1>9

LEMMA BytesAre ==
  /\ \A b \in Actions \union Options : b \in Bytes /\ b # "BELL"
  /\ "IAC" \in Bytes /\ "SEND" \in Bytes /\ "module" \in Bytes /\ "SPACE" \in Bytes
  /\ "data" \in Bytes
<1>1. \A b \in Actions \union Options : b # "BELL"
  BY DEF Actions, Options
<1>2. \A b \in Actions \union Options : b \in Bytes
  BY Zenon DEF Bytes
<1>3. /\ "IAC" \in Bytes /\ "SEND" \in Bytes /\ "module" \in Bytes /\ "SPACE" \in Bytes
      /\ "data" \in Bytes
  BY DEF Bytes
<1> QED
  BY <1>1, <1>2, <1>3

\* The units, in their kinds.
LEMMA UnitIs ==
  ASSUME NEW u \in Units
  PROVE  \/ u \in Chars
         \/ \E a \in Actions, o \in Options : u = <<"IAC", a, o>>
         \/ u \in {Sub("TTYPE", <<"SEND">>), Sub("GMCP", <<"module", "SPACE", "data">>), Marker}
         \/ u \in Odd
         \/ u \in {<<"IAC", "GOAHEAD">>, <<"IAC", "NOP">>, <<"IAC", "IAC">>}
<1>1. \/ u \in {<<"c">>, <<"CARRIAGE">>, <<"BELL">>}
      \/ u \in {Offer("WILL", o) : o \in {"MCCP", "GMCP", "ECHO"}}
      \/ u \in {Offer("DO", o) : o \in {"NAWS", "TTYPE"}}
      \/ u \in {Offer("WONT", "ECHO"), Offer("DONT", "NAWS")}
      \/ u \in {Sub("TTYPE", <<"SEND">>), Sub("GMCP", <<"module", "SPACE", "data">>), Marker}
      \/ u \in {Sub("GMCP", <<"module">>), Sub("ECHO", <<"IAC", "IAC">>)}
      \/ u \in {<<"IAC", "GOAHEAD">>, <<"IAC", "NOP">>, <<"IAC", "IAC">>}
  BY Zenon DEF Units
<1>2. ASSUME NEW a \in Actions, NEW o \in Options, u = Offer(a, o)
      PROVE  \E b \in Actions, q \in Options : u = <<"IAC", b, q>>
  BY <1>2 DEF Offer
<1>3. /\ {"WILL", "DO", "WONT", "DONT"} \subseteq Actions
      /\ {"MCCP", "GMCP", "ECHO", "NAWS", "TTYPE"} \subseteq Options
  BY DEF Actions, Options
<1>4. CASE u \in {Offer("WILL", o) : o \in {"MCCP", "GMCP", "ECHO"}}
  <2>1. PICK o \in {"MCCP", "GMCP", "ECHO"} : u = Offer("WILL", o)
    BY <1>4
  <2> QED
    BY <1>2, <1>3, <2>1
<1>5. CASE u \in {Offer("DO", o) : o \in {"NAWS", "TTYPE"}}
  <2>1. PICK o \in {"NAWS", "TTYPE"} : u = Offer("DO", o)
    BY <1>5
  <2> QED
    BY <1>2, <1>3, <2>1
<1>6. CASE u \in {Offer("WONT", "ECHO"), Offer("DONT", "NAWS")}
  BY <1>2, <1>3, <1>6
<1> QED
  BY <1>1, <1>4, <1>5, <1>6 DEF Chars, Odd

\* At most eight bytes, and no bell unless it is the only one.
Fine(v) == /\ v \in Seq(Bytes) /\ Len(v) \in 1 .. 8
           /\ \A i \in 1 .. Len(v) : v[i] = "BELL" => Len(v) = 1

LEMMA SubFine ==
  ASSUME NEW o \in Options, NEW p \in Seq(Bytes), NEW n \in 0 .. 3, Len(p) = n,
         \A i \in 1 .. n : p[i] # "BELL"
  PROVE  Fine(Sub(o, p))
<1> DEFINE v == Sub(o, p)
<1>1. o \in Bytes /\ o # "BELL"
  BY BytesAre
<1>2. /\ v \in Seq(Bytes) /\ Len(v) = n + 5
      /\ v[1] = "IAC" /\ v[2] = "SB" /\ v[3] = o
      /\ \A i \in 1 .. n : v[i + 3] = p[i]
      /\ v[n + 4] = "IAC" /\ v[n + 5] = "SE"
  BY <1>1, SubIs
<1> HIDE DEF v
<1>3. ASSUME NEW i \in 1 .. n + 5
      PROVE  v[i] # "BELL"
  <2>1. i = 1 \/ i = 2 \/ i = 3 \/ i = n + 4 \/ i = n + 5 \/ (i - 3 \in 1 .. n /\ i - 3 + 3 = i)
    OBVIOUS
  <2>2. i - 3 \in 1 .. n => v[i - 3 + 3] = p[i - 3] /\ p[i - 3] # "BELL"
    BY <1>2
  <2> QED
    BY <1>1, <1>2, <2>1, <2>2
<1>4. Fine(v)
  BY <1>2, <1>3 DEF Fine
<1> QED
  BY <1>4 DEF v

\* A unit has at most eight bytes, and rings the bell only if it is BELL.
LEMMA UnitTyped ==
  ASSUME NEW u \in Units
  PROVE  Fine(u)
<1>1. CASE u \in Chars
  <2>1. PICK b \in {"c", "CARRIAGE", "BELL"} : u = <<b>>
    BY <1>1 DEF Chars
  <2>2. b \in Bytes
    BY DEF Bytes
  <2>3. u \in Seq(Bytes) /\ Len(u) = 1
    BY <2>1, <2>2, TupleIn
  <2> QED
    BY <2>3 DEF Fine
<1>2. CASE \E a \in Actions, o \in Options : u = <<"IAC", a, o>>
  <2>1. PICK a \in Actions, o \in Options : u = <<"IAC", a, o>>
    BY <1>2
  <2>2. a \in Bytes /\ o \in Bytes /\ "IAC" \in Bytes /\ a # "BELL" /\ o # "BELL"
    BY BytesAre
  <2>3. /\ u \in Seq(Bytes) /\ Len(u) = 3 /\ u[1] = "IAC" /\ u[2] = a /\ u[3] = o
    BY <2>1, <2>2, TupleIn
  <2>4. \A i \in 1 .. 3 : i = 1 \/ i = 2 \/ i = 3
    OBVIOUS
  <2> QED
    BY <2>2, <2>3, <2>4 DEF Fine
<1>4. /\ "TTYPE" \in Options /\ "GMCP" \in Options /\ "MCCP" \in Options /\ "ECHO" \in Options
  BY DEF Options
<1>5. CASE u \in {Sub("TTYPE", <<"SEND">>), Sub("GMCP", <<"module", "SPACE", "data">>), Marker,
                  Sub("GMCP", <<"module">>), Sub("ECHO", <<"IAC", "IAC">>)}
  <2>1. ASSUME NEW b \in {"SEND", "module"}, NEW o \in Options
        PROVE  Fine(Sub(o, <<b>>))
    <3>1. b \in Bytes /\ b # "BELL"
      BY BytesAre
    <3> DEFINE p == <<b>>
    <3>2. p \in Seq(Bytes) /\ Len(p) = 1 /\ \A i \in 1 .. 1 : p[i] # "BELL"
      BY <3>1, TupleIn
    <3> HIDE DEF p
    <3>3. Fine(Sub(o, p))
      BY <3>2, SubFine
    <3> QED
      BY <3>3 DEF p
  <2>2. Fine(Sub("ECHO", <<"IAC", "IAC">>))
    <3> DEFINE p == <<"IAC", "IAC">>
    <3>1. p \in Seq(Bytes) /\ Len(p) = 2 /\ p[1] # "BELL" /\ p[2] # "BELL"
      BY BytesAre, TupleIn
    <3> HIDE DEF p
    <3>2. \A i \in 1 .. 2 : p[i] # "BELL"
      BY <3>1
    <3>3. Fine(Sub("ECHO", p))
      BY <1>4, <3>1, <3>2, SubFine
    <3> QED
      BY <3>3 DEF p
  <2>3. Fine(Sub("GMCP", <<"module", "SPACE", "data">>))
    <3> DEFINE p == <<"module", "SPACE", "data">>
    <3>1. p \in Seq(Bytes) /\ Len(p) = 3 /\ p[1] # "BELL" /\ p[2] # "BELL" /\ p[3] # "BELL"
      BY BytesAre, TupleIn
    <3> HIDE DEF p
    <3>2. \A i \in 1 .. 3 : p[i] # "BELL"
      BY <3>1
    <3>3. Fine(Sub("GMCP", p))
      BY <1>4, <3>1, <3>2, SubFine
    <3> QED
      BY <3>3 DEF p
  <2>4. Fine(Marker)
    <3> DEFINE p == <<>>
    <3>1. p \in Seq(Bytes) /\ Len(p) = 0
      BY BytesAre, TupleIn
    <3> HIDE DEF p
    <3> PICK n : n = 0
      OBVIOUS
    <3>2. n \in 0 .. 3 /\ Len(p) = n /\ \A i \in 1 .. n : p[i] # "BELL"
      BY <3>1
    <3>3. Fine(Sub("MCCP", p))
      BY <1>4, <3>1, <3>2, SubFine
    <3> QED
      BY <3>3 DEF p, Marker
  <2> QED
    BY <1>4, <1>5, <2>1, <2>2, <2>3, <2>4
<1>6. CASE u \in {<<"IAC", "GOAHEAD">>, <<"IAC", "NOP">>, <<"IAC", "IAC">>}
  <2>1. PICK b \in {"GOAHEAD", "NOP", "IAC"} : u = <<"IAC", b>>
    BY <1>6
  <2>2. b \in Bytes /\ "IAC" \in Bytes
    BY DEF Bytes
  <2>3. u \in Seq(Bytes) /\ Len(u) = 2 /\ u[1] = "IAC" /\ u[2] = b
    BY <2>1, <2>2, TupleIn
  <2>4. \A i \in 1 .. 2 : i = 1 \/ i = 2
    OBVIOUS
  <2> QED
    BY <2>1, <2>3, <2>4 DEF Fine
<1> QED
  BY <1>1, <1>2, <1>5, <1>6, UnitIs DEF Odd

(***************************************************************************)
(* The bytes of the stream.                                                *)
(***************************************************************************)
\* The bytes of the first u units.
Wire(u) == FlattenSeq(SubSeq(stream, 1, u))
Place(p) == /\ p.unit \in 0 .. Len(stream) /\ p.byte \in 0 .. 8
            /\ p.byte = 0 \/ (p.unit < Len(stream) /\ p.byte < Len(stream[p.unit + 1]))
Prefixed(a, b) == Len(a) <= Len(b) /\ \A i \in 1 .. Len(a) : a[i] = b[i]

LEMMA StreamIs ==
  ASSUME stream \in Streams
  PROVE  /\ stream \in Seq(Units) /\ Len(stream) \in Nat
         /\ \A i \in 1 .. Len(stream) : stream[i] \in Units
         /\ \/ Len(stream) <= MaxUnits
            \/ \A i \in 1 .. Len(stream) : stream[i] = Sub("TTYPE", <<"SEND">>)
<1>1. CASE \E n \in 1 .. MaxUnits : stream \in [1 .. n -> Units]
  <2>1. PICK n \in 1 .. MaxUnits : stream \in [1 .. n -> Units]
    BY <1>1
  <2>2. n \in Nat /\ n <= MaxUnits
    BY TelnetAssumption
  <2> QED
    BY <2>1, <2>2
<1>2. CASE \E n \in 1 .. MaxAsked : stream = [i \in 1 .. n |-> Sub("TTYPE", <<"SEND">>)]
  <2>1. PICK n \in 1 .. MaxAsked : stream = [i \in 1 .. n |-> Sub("TTYPE", <<"SEND">>)]
    BY <1>2
  <2>2. n \in Nat /\ Sub("TTYPE", <<"SEND">>) \in Units
    BY TelnetAssumption DEF Units
  <2> DEFINE x == Sub("TTYPE", <<"SEND">>)
  <2> HIDE DEF x
  <2>3. stream = [i \in 1 .. n |-> x] /\ x \in Units
    BY <2>1, <2>2 DEF x
  <2>4. /\ stream \in Seq(Units) /\ Len(stream) = n
        /\ \A i \in 1 .. n : stream[i] = x
    BY <2>2, <2>3
  <2> QED
    BY <2>2, <2>3, <2>4 DEF x
<1> QED
  <2>1. \/ stream \in UNION {[1 .. n -> Units] : n \in 1 .. MaxUnits}
        \/ stream \in {[i \in 1 .. n |-> Sub("TTYPE", <<"SEND">>)] : n \in 1 .. MaxAsked}
    BY Zenon DEF Streams
  <2>2. CASE stream \in UNION {[1 .. n -> Units] : n \in 1 .. MaxUnits}
    <3>1. \E n \in 1 .. MaxUnits : stream \in [1 .. n -> Units]
      BY <2>2, Zenon
    <3> QED
      BY <1>1, <3>1
  <2>3. CASE stream \in {[i \in 1 .. n |-> Sub("TTYPE", <<"SEND">>)] : n \in 1 .. MaxAsked}
    <3>1. \E n \in 1 .. MaxAsked : stream = [i \in 1 .. n |-> Sub("TTYPE", <<"SEND">>)]
      BY <2>3, Zenon
    <3> QED
      BY <1>2, <3>1
  <2> QED
    BY <2>1, <2>2, <2>3

LEMMA WireMore ==
  ASSUME stream \in Streams, NEW u \in 0 .. Len(stream)
  PROVE  /\ Wire(u) \in Seq(Bytes) /\ Wire(0) = <<>>
         /\ u < Len(stream) => /\ Wire(u + 1) = Wire(u) \o stream[u + 1]
                               /\ stream[u + 1] \in Units /\ Fine(stream[u + 1])
<1>1. /\ stream \in Seq(Units) /\ Len(stream) \in Nat
      /\ \A i \in 1 .. Len(stream) : stream[i] \in Units
  BY StreamIs
<1>2. \A i \in 1 .. Len(stream) : Fine(stream[i]) /\ stream[i] \in Seq(Bytes)
  BY <1>1, UnitTyped DEF Fine
<1>3. stream \in Seq(Seq(Bytes))
  BY <1>1, <1>2
<1>4. /\ SubSeq(stream, 1, u) \in Seq(Seq(Bytes))
      /\ u < Len(stream) => SubSeq(stream, 1, u + 1) = Append(SubSeq(stream, 1, u), stream[u + 1])
      /\ SubSeq(stream, 1, 0) = <<>>
  BY <1>3, PrefixMore
<1>5. Wire(u) \in Seq(Bytes)
  <2> DEFINE t == SubSeq(stream, 1, u)
  <2>1. t \in Seq(Seq(Bytes))
    BY <1>4
  <2> HIDE DEF t
  <2>2. <<>> \in Seq(Bytes)
    BY BytesAre, TupleIn
  <2>3. FlattenSeq(t) \in Seq(Bytes)
    BY <2>1, <2>2, FlattenMore
  <2> QED
    BY <2>3 DEF t, Wire
<1>6. Wire(0) = <<>>
  <2>1. SubSeq(stream, 1, 0) = <<>>
    BY <1>4
  <2>2. FlattenSeq(<<>>) = <<>>
    BY DEF FlattenSeq
  <2> QED
    BY <2>1, <2>2, Zenon DEF Wire
<1>7. ASSUME u < Len(stream)
      PROVE  /\ Wire(u + 1) = Wire(u) \o stream[u + 1]
             /\ stream[u + 1] \in Units /\ Fine(stream[u + 1])
  <2>1. u + 1 \in 1 .. Len(stream)
    BY <1>1, <1>7
  <2> DEFINE t == SubSeq(stream, 1, u)
             x == stream[u + 1]
  <2>2. t \in Seq(Seq(Bytes)) /\ x \in Seq(Bytes) /\ SubSeq(stream, 1, u + 1) = Append(t, x)
    BY <1>2, <1>4, <1>7, <2>1
  <2> HIDE DEF t, x
  <2>3. FlattenSeq(Append(t, x)) = FlattenSeq(t) \o x
    BY <2>2, FlattenMore
  <2>4. Wire(u + 1) = Wire(u) \o x
    BY <2>2, <2>3, Zenon DEF Wire, t
  <2> QED
    BY <1>1, <1>2, <2>1, <2>4 DEF x
<1> QED
  BY <1>5, <1>6, <1>7

LEMMA WireGrows ==
  ASSUME stream \in Streams, NEW u \in 0 .. Len(stream), NEW v \in u .. Len(stream)
  PROVE  Prefixed(Wire(u), Wire(v))
<1> DEFINE Bad == {k \in u .. Len(stream) : ~Prefixed(Wire(u), Wire(k))}
<1>0. Len(stream) \in Nat
  BY StreamIs
<1>1. ASSUME Bad # {}
      PROVE  FALSE
  <2>1. PICK k \in Bad : \A y \in Bad : k <= y
    <3>1. Bad \in SUBSET Nat
      BY <1>0
    <3> QED
      BY <1>1, <3>1, Least
  <2>2. CASE k = u
    <3>1. Wire(u) \in Seq(Bytes)
      BY WireMore
    <3>2. Prefixed(Wire(u), Wire(u))
      BY <3>1 DEF Prefixed
    <3> QED
      BY <2>1, <2>2, <3>2
  <2>3. CASE k # u
    <3> PICK j : j = k - 1
      OBVIOUS
    <3>1. j \in u .. Len(stream) /\ j \in 0 .. Len(stream) /\ j < Len(stream) /\ ~(k <= j) /\ j + 1 = k
      BY <1>0, <2>1, <2>3
    <3>2. Prefixed(Wire(u), Wire(j))
      BY <2>1, <3>1
    <3>3. /\ Wire(j) \in Seq(Bytes) /\ Wire(j + 1) = Wire(j) \o stream[j + 1]
          /\ stream[j + 1] \in Seq(Bytes)
      BY <3>1, WireMore DEF Fine
    <3>4. Wire(u) \in Seq(Bytes)
      BY WireMore
    <3> DEFINE a == Wire(u)
               b == Wire(j)
               x == stream[j + 1]
               c == b \o x
    <3> HIDE DEF a, b, x
    <3>5. /\ Joined(c, b, x) /\ Len(b) \in Nat /\ Len(x) \in Nat
      BY <3>3, ConcatIs DEF b, x
    <3>6. Len(a) \in Nat /\ Prefixed(a, b)
      BY <3>2, <3>4 DEF a, b
    <3> HIDE DEF c
    <3>7. Prefixed(a, c)
      BY <3>5, <3>6 DEF Prefixed, Joined
    <3>8. Prefixed(Wire(u), Wire(k))
      BY <3>1, <3>3, <3>7 DEF a, b, c, x
    <3> QED
      BY <2>1, <3>8
  <2> QED
    BY <2>2, <2>3
<1> QED
  BY <1>1

\* Only the unit BELL rings the bell.
LEMMA BellsOfUnit ==
  ASSUME NEW u \in Units
  PROVE  CountIn("BELL", u) = IF u = <<"BELL">> THEN 1 ELSE 0
<1> DEFINE S == {i \in DOMAIN u : u[i] = "BELL"}
<1>1. u \in Seq(Bytes) /\ Len(u) \in 1 .. 8 /\ DOMAIN u = 1 .. Len(u)
      /\ \A i \in 1 .. Len(u) : u[i] = "BELL" => Len(u) = 1
  BY UnitTyped DEF Fine
<1>2. CASE u = <<"BELL">>
  <2>1. S = {1}
    BY <1>2
  <2>2. Cardinality({1}) = 1
    BY FS_Singleton
  <2> QED
    BY <1>2, <2>1, <2>2 DEF CountIn
<1>3. CASE u # <<"BELL">>
  <2>1. ASSUME NEW i \in 1 .. Len(u), u[i] = "BELL"
        PROVE  FALSE
    <3>1. Len(u) = 1 /\ i = 1
      BY <1>1, <2>1
    <3> QED
      BY <1>1, <1>3, <2>1, <3>1
  <2>2. S = {}
    BY <1>1, <2>1
  <2> QED
    BY <1>3, <2>2, FS_EmptySet DEF CountIn
<1> QED
  BY <1>2, <1>3

LEMMA WireBells ==
  ASSUME stream \in Streams, NEW u \in 0 .. Len(stream)
  PROVE  /\ CountIn("BELL", Wire(u)) = CountIn(<<"BELL">>, SubSeq(stream, 1, u))
         /\ CountIn("BELL", Wire(u)) \in 0 .. MaxUnits
<1> DEFINE rings(k) == CountIn(<<"BELL">>, SubSeq(stream, 1, k))
           Bad == {k \in 0 .. Len(stream) : CountIn("BELL", Wire(k)) # rings(k)}
<1>0. /\ stream \in Seq(Units) /\ Len(stream) \in Nat
      /\ \A i \in 1 .. Len(stream) : stream[i] \in Units
  BY StreamIs
<1>1. ASSUME Bad # {}
      PROVE  FALSE
  <2>1. PICK k \in Bad : \A y \in Bad : k <= y
    <3>1. Bad \in SUBSET Nat
      BY <1>0
    <3> QED
      BY <1>1, <3>1, Least
  <2>2. CASE k = 0
    <3>1. Wire(0) = <<>> /\ SubSeq(stream, 1, 0) = <<>>
      BY <1>0, WireMore, PrefixMore
    <3>2. CountIn("BELL", <<>>) = 0 /\ CountIn(<<"BELL">>, <<>>) = 0
      BY CountNone
    <3>3. CountIn("BELL", Wire(0)) = rings(0)
      BY <3>1, <3>2
    <3> QED
      BY <2>1, <2>2, <3>3
  <2>3. CASE k # 0
    <3> PICK j : j = k - 1
      OBVIOUS
    <3>1. j \in 0 .. Len(stream) /\ j < Len(stream) /\ ~(k <= j) /\ j + 1 = k
      BY <1>0, <2>1, <2>3
    <3>2. CountIn("BELL", Wire(j)) = rings(j)
      BY <2>1, <3>1
    <3> DEFINE w == Wire(j)
               x == stream[j + 1]
               t == SubSeq(stream, 1, j)
    <3>3. w \in Seq(Bytes) /\ x \in Seq(Bytes) /\ x \in Units /\ Wire(k) = w \o x
      BY <3>1, WireMore DEF Fine
    <3>4. t \in Seq(Units) /\ SubSeq(stream, 1, k) = Append(t, x)
      BY <1>0, <3>1, PrefixMore
    <3> HIDE DEF w, x, t
    <3>5. CountIn("BELL", w \o x) = CountIn("BELL", w) + CountIn("BELL", x)
      BY <3>3, CountConcat
    <3>6. CountIn("BELL", x) = IF x = <<"BELL">> THEN 1 ELSE 0
      BY <3>3, BellsOfUnit
    <3>7. CountIn(<<"BELL">>, Append(t, x)) = CountIn(<<"BELL">>, t) + IF x = <<"BELL">> THEN 1 ELSE 0
      BY <3>3, <3>4, CountMore
    <3>8. CountIn("BELL", Wire(k)) = rings(k)
      BY <3>2, <3>3, <3>4, <3>5, <3>6, <3>7 DEF w, t
    <3> QED
      BY <2>1, <3>8
  <2> QED
    BY <2>2, <2>3
<1>2. CountIn("BELL", Wire(u)) = rings(u)
  BY <1>1
<1>3. rings(u) \in 0 .. MaxUnits
  <2> DEFINE t == SubSeq(stream, 1, u)
  <2>1. t \in Seq(Units) /\ Len(t) = u
    BY <1>0, PrefixMore
  <2>2. CASE Len(stream) <= MaxUnits
    <3>1. <<"c">> \in Units
      BY DEF Units
    <3> HIDE DEF t
    <3>2. CountIn(<<"BELL">>, t) \in Nat /\ CountIn(<<"BELL">>, t) <= u
      BY <2>1, <3>1, CountMore
    <3>3. CountIn(<<"BELL">>, t) \in 0 .. MaxUnits
      BY <1>0, <2>2, <3>2, TelnetAssumption
    <3> QED
      BY <3>3 DEF t
  <2>3. CASE \A i \in 1 .. Len(stream) : stream[i] = Sub("TTYPE", <<"SEND">>)
    <3>1. ASSUME NEW i \in DOMAIN t
          PROVE  t[i] # <<"BELL">>
      <4>1. i \in 1 .. Len(stream) /\ t[i] = stream[i]
        BY <1>0, <2>1
      <4> DEFINE p == <<"SEND">>
                 x == Sub("TTYPE", p)
      <4>2. t[i] = x
        BY <2>3, <4>1
      <4>3. "TTYPE" \in Bytes /\ p \in Seq(Bytes)
        <5>1. "TTYPE" \in Bytes
          BY DEF Bytes, Options
        <5> QED
          BY <5>1, BytesAre, TupleIn
      <4> HIDE DEF p
      <4> PICK n \in Nat : Len(p) = n
        BY <4>3
      <4>4. x[1] = "IAC"
        BY <4>3, SubIs
      <4> HIDE DEF x
      <4> QED
        BY <4>2, <4>4
    <3>2. {i \in DOMAIN t : t[i] = <<"BELL">>} = {}
      BY <3>1
    <3>3. rings(u) = 0
      BY <3>2, FS_EmptySet DEF CountIn
    <3> QED
      BY <3>3, TelnetAssumption
  <2> QED
    BY <2>2, <2>3, StreamIs
<1> QED
  BY <1>2, <1>3

\* What is behind a prefix.
LEMMA RestIs ==
  ASSUME NEW M, NEW a \in Seq(M), NEW b \in Seq(M), Prefixed(a, b)
  PROVE  LET d == SubSeq(b, Len(a) + 1, Len(b))
         IN /\ d \in Seq(M) /\ Len(d) = Len(b) - Len(a) /\ b = a \o d
            /\ \A i \in 1 .. Len(b) - Len(a) : d[i] = b[Len(a) + i]
<1> DEFINE d == SubSeq(b, Len(a) + 1, Len(b))
           n == Len(a)
           k == Len(b)
<1>1. n \in Nat /\ k \in Nat /\ n <= k /\ \A i \in 1 .. n : a[i] = b[i]
  BY DEF Prefixed
<1>2. /\ d \in Seq(M) /\ Len(d) = k - n
      /\ \A i \in 1 .. k - n : d[i] = b[n + i]
  BY <1>1
<1>3. b = a \o d
  <2>1. a \o d \in Seq(M) /\ Len(a \o d) = k
    BY <1>1, <1>2
  <2>2. ASSUME NEW i \in 1 .. k
        PROVE  (a \o d)[i] = b[i]
    <3> HIDE DEF d
    <3>1. CASE i \in 1 .. n
      <4>1. (a \o d)[i] = a[i]
        BY <1>2, <3>1
      <4> QED
        BY <1>1, <3>1, <4>1
    <3>2. CASE i \notin 1 .. n
      <4>1. i - n \in 1 .. k - n /\ n + (i - n) = i
        BY <1>1, <3>2
      <4>2. (a \o d)[i] = d[i - n]
        BY <1>1, <1>2, <3>2
      <4> QED
        BY <1>2, <4>1, <4>2
    <3> QED
      BY <3>1, <3>2
  <2> DEFINE c == a \o d
  <2> HIDE DEF d, c
  <2>3. c \in Seq(M) /\ Len(c) = Len(b) /\ \A i \in 1 .. Len(b) : c[i] = b[i]
    BY <2>1, <2>2 DEF c
  <2>4. c = b
    BY <2>3
  <2> QED
    BY <2>4 DEF c
<1> QED
  BY <1>2, <1>3

\* What has been handed over up to a place is a prefix of the whole stream; the
\* part of a unit in it has no bell.
LEMMA BeforeIs ==
  ASSUME stream \in Streams, NEW p, Place(p)
  PROVE  /\ Before(p) \in Seq(Bytes)
         /\ Len(Before(p)) = Len(Wire(p.unit)) + p.byte
         /\ Prefixed(Before(p), Wire(Len(stream)))
         /\ CountIn("BELL", Before(p)) = CountIn("BELL", Wire(p.unit))
<1>0. Len(stream) \in Nat /\ p.unit \in 0 .. Len(stream)
  BY StreamIs DEF Place
<1> DEFINE w == Wire(p.unit)
           all == Wire(Len(stream))
           x == stream[p.unit + 1]
<1>1. w \in Seq(Bytes) /\ all \in Seq(Bytes) /\ Prefixed(w, all)
  BY <1>0, WireMore, WireGrows
<1>2. CASE p.byte = 0
  <2>1. Before(p) = w \o <<>>
    BY <1>2, Zenon DEF Before, Wire
  <2>2. w \o <<>> = w /\ Len(w) \in Nat
    BY <1>1
  <2> HIDE DEF w
  <2>3. Len(w) = Len(w) + p.byte
    BY <1>2, <2>2
  <2> QED
    BY <1>1, <2>1, <2>2, <2>3, Zenon DEF w
<1>3. CASE p.byte # 0
  <2>1. p.unit < Len(stream) /\ p.byte < Len(x) /\ p.byte \in Nat /\ p.byte # 0
    BY <1>3 DEF Place
  <2>2. Wire(p.unit + 1) = w \o x /\ x \in Seq(Bytes) /\ x \in Units
        /\ \A i \in 1 .. Len(x) : x[i] = "BELL" => Len(x) = 1
    BY <1>0, <2>1, WireMore DEF Fine
  <2> DEFINE t == SubSeq(x, 1, p.byte)
  <2>3. Before(p) = w \o t
    BY <1>3, Zenon DEF Before, Wire
  <2>4. Prefixed(w \o x, all)
    <3> PICK v : v = p.unit + 1
      OBVIOUS
    <3>1. v \in 0 .. Len(stream) /\ Len(stream) \in v .. Len(stream)
      BY <1>0, <2>1
    <3>2. Prefixed(Wire(v), all)
      BY <3>1, WireGrows
    <3> QED
      BY <2>2, <3>2, Zenon
  <2> HIDE DEF w, x, all
  <2>5. t \in Seq(Bytes) /\ Len(t) = p.byte /\ \A i \in 1 .. p.byte : t[i] = x[i]
    BY <2>1, <2>2
  <2>6. w \o t \in Seq(Bytes) /\ Len(w \o t) = Len(w) + p.byte
    BY <1>1, <2>5 DEF t
  <2> HIDE DEF t
  <2>7. Prefixed(w \o t, w \o x)
    <3> DEFINE a == w \o t
               b == w \o x
    <3>1. Joined(a, w, t)
      BY <1>1, <2>5, ConcatIs
    <3>2. Joined(b, w, x)
      BY <1>1, <2>2, ConcatIs
    <3>3. Len(w) \in Nat /\ Len(x) \in Nat
      BY <1>1, <2>2
    <3> HIDE DEF a, b
    <3>4. Len(a) <= Len(b)
      BY <2>1, <2>5, <3>1, <3>2, <3>3 DEF Joined
    <3>5. ASSUME NEW i \in 1 .. Len(a)
          PROVE  a[i] = b[i]
      <4>1. CASE i \in 1 .. Len(w)
        BY <3>1, <3>2, <4>1 DEF Joined
      <4>2. CASE i \notin 1 .. Len(w)
        <5>1. i - Len(w) \in 1 .. p.byte /\ i - Len(w) \in 1 .. Len(x) /\ Len(w) + (i - Len(w)) = i
          BY <2>1, <2>5, <3>1, <3>3, <4>2 DEF Joined
        <5> QED
          BY <2>5, <3>1, <3>2, <5>1 DEF Joined
      <4> QED
        BY <4>1, <4>2
    <3> QED
      BY <3>4, <3>5 DEF Prefixed, a, b
  <2>8. Prefixed(w \o t, all)
    <3> DEFINE a == w \o t
               b == w \o x
    <3>1. Len(a) \in Nat /\ Len(b) \in Nat /\ Len(all) \in Nat
      BY <1>1, <2>2, <2>6
    <3>2. Prefixed(a, b) /\ Prefixed(b, all)
      BY <2>4, <2>7
    <3> HIDE DEF a, b
    <3>3. Prefixed(a, all)
      BY <3>1, <3>2 DEF Prefixed
    <3> QED
      BY <3>3 DEF a
  <2>9. CountIn("BELL", t) = 0
    <3>1. ASSUME NEW i \in DOMAIN t, t[i] = "BELL"
          PROVE  FALSE
      <4>1. i \in 1 .. p.byte /\ i \in 1 .. Len(x)
        BY <2>1, <2>2, <2>5
      <4>2. Len(x) = 1 /\ Len(x) \in Nat
        BY <2>2, <2>5, <3>1, <4>1
      <4> QED
        BY <2>1, <4>2
    <3>2. {i \in DOMAIN t : t[i] = "BELL"} = {}
      BY <3>1
    <3> QED
      BY <3>2, FS_EmptySet DEF CountIn
  <2>10. CountIn("BELL", w \o t) = CountIn("BELL", w)
    <3>1. CountIn("BELL", w \o t) = CountIn("BELL", w) + CountIn("BELL", t)
      BY <1>1, <2>5, CountConcat
    <3>2. CountIn("BELL", w) \in Nat
      <4>1. "IAC" \in Bytes
        BY BytesAre
      <4> QED
        BY <1>1, <4>1, CountMore
    <3> QED
      BY <2>9, <3>1, <3>2
  <2> QED
    BY <2>3, <2>6, <2>8, <2>10, Zenon DEF w, all
<1> QED
  BY <1>2, <1>3

\* A chunk that is not empty is what it adds.
LEMMA BetweenIs ==
  ASSUME stream \in Streams, NEW p, NEW q, Place(p), Place(q), Between(p, q) # <<>>
  PROVE  /\ Between(p, q) \in Seq(Bytes)
         /\ Len(Between(p, q)) = Len(Before(q)) - Len(Before(p))
         /\ Before(q) = Before(p) \o Between(p, q)
         /\ \A i \in 1 .. Len(Between(p, q)) :
              Between(p, q)[i] = Wire(Len(stream))[Len(Before(p)) + i]
         /\ CountIn("BELL", Before(q)) = CountIn("BELL", Before(p)) + Rings(Between(p, q), 1)
<1> DEFINE a == Before(p)
           b == Before(q)
           all == Wire(Len(stream))
           d == SubSeq(b, Len(a) + 1, Len(b))
<1>1. a \in Seq(Bytes) /\ b \in Seq(Bytes) /\ Prefixed(a, all) /\ Prefixed(b, all)
  BY BeforeIs
<1>2. Between(p, q) = d
  BY DEF Between
<1> HIDE DEF a, b, all
<1>3. Len(a) \in Nat /\ Len(b) \in Nat /\ Len(a) < Len(b)
  <2>1. ASSUME Len(b) <= Len(a)
        PROVE  FALSE
    <3>1. d = <<>>
      BY <1>1, <2>1
    <3> QED
      BY <1>2, <3>1
  <2> QED
    BY <1>1, <2>1
<1>4. Prefixed(a, b)
  BY <1>1, <1>3 DEF Prefixed
<1>5. /\ d \in Seq(Bytes) /\ Len(d) = Len(b) - Len(a) /\ b = a \o d
      /\ \A i \in 1 .. Len(b) - Len(a) : d[i] = b[Len(a) + i]
  BY <1>1, <1>4, RestIs
<1> HIDE DEF d
<1>6. ASSUME NEW i \in 1 .. Len(d)
      PROVE  d[i] = all[Len(a) + i]
  <2>1. i \in 1 .. Len(b) - Len(a) /\ Len(a) + i \in 1 .. Len(b)
    BY <1>3, <1>5
  <2> QED
    BY <1>1, <1>5, <2>1 DEF Prefixed
<1>7. CountIn("BELL", b) = CountIn("BELL", a) + CountIn("BELL", d)
  BY <1>1, <1>5, CountConcat
<1>8. CountIn("BELL", d) = Rings(d, 1)
  <2>1. DOMAIN d = 1 .. Len(d)
    BY <1>5
  <2> QED
    BY <2>1 DEF CountIn, Rings
<1> QED
  BY <1>2, <1>5, <1>6, <1>7, <1>8 DEF a, b, all

LEMMA RawIs ==
  ASSUME NEW d \in Seq(Bytes), d # <<>>
  PROVE  /\ RawProcess(d) \in Parts
         /\ \A m : MachineOK(m) =>
              /\ MachineOK(Folded(m, RawProcess(d).events))
              /\ Folded(m, RawProcess(d).events).bells <= m.bells + Rings(d, 1)
<1> DEFINE n == Len(d)
<1>1. n \in Nat /\ 1 \in 1 .. n + 1
  OBVIOUS
<1> HIDE DEF n
<1>2. Len(d) = n
  BY DEF n
<1>3. PICK f : Scans(d, f) /\ RawProcess(d) = IF d = <<"IAC">> THEN Ends("ok") ELSE f[1]
  BY <1>1, <1>2, ScanIs
<1>4. CASE d = <<"IAC">>
  <2> DEFINE r == Ends("ok")
  <2>1. RawProcess(d) = r
    BY <1>3, <1>4, Zenon
  <2>2. r \in Parts /\ r.events = <<>>
    BY DEF Ends, Parts
  <2>3. Rings(d, 1) \in Nat
    BY <1>1, <1>2, RingsFall
  <2> HIDE DEF r
  <2>4. ASSUME NEW m, MachineOK(m)
        PROVE  /\ MachineOK(Folded(m, r.events))
               /\ Folded(m, r.events).bells <= m.bells + Rings(d, 1)
    <3>1. Folded(m, r.events) = m
      BY <2>2, FoldNone
    <3>2. m.bells \in Nat
      BY <2>4 DEF MachineOK
    <3> QED
      BY <2>3, <2>4, <3>1, <3>2
  <2> QED
    BY <2>1, <2>2, <2>4, Zenon
<1>5. CASE d # <<"IAC">>
  <2>1. RawProcess(d) = f[1]
    BY <1>3, <1>5, Zenon
  <2>2. f[1] \in Parts
    BY <1>1, <1>2, <1>3, ScanTyped
  <2>3. \A m : MachineOK(m) => /\ MachineOK(Folded(m, f[1].events))
                               /\ Folded(m, f[1].events).bells <= m.bells + Rings(d, 1)
    BY <1>1, <1>2, <1>3, ScanKeeps
  <2> QED
    BY <2>1, <2>2, <2>3, Zenon
<1> QED
  BY <1>4, <1>5

(***************************************************************************)
(* The invariant: the types, where the chunk ends, what Dispatch keeps,    *)
(* and that no more bells are posted than were written.                    *)
(***************************************************************************)
Machine == [n |-> negotiator, now |-> out, later |-> later, bells |-> bells]
TelnetInv ==
    /\ TypeOK
    /\ Place(at)
    /\ MachineOK(Machine)
    /\ bells <= CountIn("BELL", Wire(at.unit))

\* What Deliver does with one chunk.
Chunk(u, b) ==
    LET q == [unit |-> u, byte |-> b]
        r == RawProcess(Between(at, q))
        m == Folded(Machine, r.events)
    IN /\ Running /\ Between(at, q) # <<>>
       /\ at' = q
       /\ end' = r.end
       /\ text' = IF r.end \in {"ok", "compress"} THEN text \o r.text ELSE text
       /\ negotiator' = m.n /\ out' = m.now /\ later' = m.later /\ bells' = m.bells
       /\ calm' = (calm /\ Decodable(at, q))
       /\ UNCHANGED <<stream, sizes>>
LastByte(u) == IF Cuts /\ u < Len(stream) THEN Len(stream[u + 1]) - 1 ELSE 0

LEMMA DeliverIs ==
  Deliver <=> \E u \in at.unit .. Len(stream) : \E b \in 0 .. LastByte(u) : Chunk(u, b)
BY Zenon DEF Deliver, Chunk, Machine, Folded, LastByte

\* Where a chunk may end.
LEMMA ChunkEnds ==
  ASSUME stream \in Streams, Place(at), NEW u \in at.unit .. Len(stream),
         NEW b \in 0 .. LastByte(u)
  PROVE  Place([unit |-> u, byte |-> b])
<1>1. Len(stream) \in Nat /\ at.unit \in Nat
  BY StreamIs DEF Place
<1>2. u \in 0 .. Len(stream)
  BY <1>1
<1>3. CASE Cuts /\ u < Len(stream)
  <2>1. stream[u + 1] \in Seq(Bytes) /\ Len(stream[u + 1]) \in 1 .. 8
    BY <1>2, <1>3, WireMore DEF Fine
  <2> DEFINE k == Len(stream[u + 1])
  <2>2. k \in 1 .. 8 /\ LastByte(u) = k - 1
    BY <1>3, <2>1, Zenon DEF LastByte
  <2> HIDE DEF k
  <2>3. b \in 0 .. 8 /\ b < k
    BY <2>2
  <2> QED
    BY <1>2, <1>3, <2>3 DEF Place, k
<1>4. CASE ~(Cuts /\ u < Len(stream))
  BY <1>2, <1>4 DEF Place, LastByte
<1> QED
  BY <1>3, <1>4

LEMMA InitTelnet == Init => TelnetInv
<1> SUFFICES ASSUME Init PROVE TelnetInv
  OBVIOUS
<1>1. /\ stream \in Streams /\ at = [unit |-> 0, byte |-> 0] /\ text = <<>> /\ bells = 0
      /\ negotiator = NewNegotiator /\ out = <<>> /\ later = <<>> /\ sizes = <<>> /\ end = "ok"
      /\ calm = TRUE
  BY DEF Init
<1>2. Len(stream) \in Nat /\ CountIn("BELL", Wire(0)) \in 0 .. MaxUnits
  BY <1>1, StreamIs, WireBells
<1>3. negotiator \in Negotiator
  BY <1>1 DEF NewNegotiator, Negotiator, TTYPE_MAX_TRIES
<1>4. TypeOK
  BY <1>1, <1>2, <1>3, TelnetAssumption DEF TypeOK
<1>5. Place(at)
  BY <1>1, <1>2 DEF Place
<1>6. Sized(<<>>, <<>>, sizes)
  <2>1. Agreed(<<>>) = 0
    BY CountNone DEF Agreed
  <2> QED
    BY <1>1, <2>1 DEF Sized
<1>7. TypesTold(<<>>, 0)
  <2>1. Asked(<<>>) = {}
    BY DEF Asked
  <2>2. Cardinality(Asked(<<>>)) = 0
    BY <2>1, FS_EmptySet
  <2> QED
    BY <2>1, <2>2 DEF TypesTold, Turn
<1>8. MachineOK(Machine)
  <2> DEFINE m == Machine
  <2>1. m.n = NewNegotiator /\ m.now = <<>> /\ m.later = <<>> /\ m.bells = 0
    BY <1>1 DEF Machine
  <2>2. m \in [n : Negotiator, now : Seq(Messages), later : Seq(Nat), bells : Nat]
    BY <1>1, <1>3 DEF Machine
  <2>3. NewNegotiator.mIsNAWS = FALSE /\ NewNegotiator.mTermTypeAttempt = 0
    BY DEF NewNegotiator
  <2> HIDE DEF m
  <2>4. MachineOK(m)
    BY <1>6, <1>7, <2>1, <2>2, <2>3 DEF MachineOK
  <2> QED
    BY <2>4 DEF m
<1>9. bells <= CountIn("BELL", Wire(at.unit))
  BY <1>1, <1>2
<1> QED
  BY <1>4, <1>5, <1>8, <1>9 DEF TelnetInv

LEMMA StepTelnet == TelnetInv /\ [Next]_vars => TelnetInv'
<1> SUFFICES ASSUME TelnetInv, [Next]_vars PROVE TelnetInv'
  OBVIOUS
<1>1. CASE Deliver
  <2>a. PICK u \in at.unit .. Len(stream) : \E b \in 0 .. LastByte(u) : Chunk(u, b)
    BY <1>1, DeliverIs
  <2>1. PICK b \in 0 .. LastByte(u) : Chunk(u, b)
    BY <2>a
  <2> DEFINE q == [unit |-> u, byte |-> b]
             d == Between(at, q)
             r == RawProcess(d)
             m == Folded(Machine, r.events)
  <2>2. /\ d # <<>> /\ at' = q /\ end' = r.end
        /\ text' = IF r.end \in {"ok", "compress"} THEN text \o r.text ELSE text
        /\ negotiator' = m.n /\ out' = m.now /\ later' = m.later /\ bells' = m.bells
        /\ calm' = (calm /\ Decodable(at, q)) /\ stream' = stream /\ sizes' = sizes
    BY <2>1, Zenon DEF Chunk
  <2>3. stream \in Streams /\ Place(at) /\ MachineOK(Machine)
        /\ bells <= CountIn("BELL", Wire(at.unit)) /\ text \in Seq(Bytes) /\ bells \in Nat
        /\ calm \in BOOLEAN
    BY TelnetAssumption DEF TelnetInv, TypeOK
  <2>4. Place(q)
    BY <2>1, <2>3, ChunkEnds
  <2>5. d \in Seq(Bytes) /\ CountIn("BELL", Before(q)) = CountIn("BELL", Before(at)) + Rings(d, 1)
    BY <2>2, <2>3, <2>4, BetweenIs
  <2> HIDE DEF d
  <2>6. r \in Parts /\ MachineOK(m) /\ m.bells <= Machine.bells + Rings(d, 1)
    BY <2>2, <2>3, <2>5, RawIs
  <2>7. /\ CountIn("BELL", Before(q)) = CountIn("BELL", Wire(u))
        /\ CountIn("BELL", Before(at)) = CountIn("BELL", Wire(at.unit))
    <3>1. q.unit = u
      OBVIOUS
    <3> QED
      BY <2>3, <2>4, <3>1, BeforeIs
  <2>8. u \in 0 .. Len(stream) /\ at.unit \in 0 .. Len(stream) /\ Len(stream) \in Nat
    BY <2>3, <2>4, StreamIs DEF Place
  <2>9. CountIn("BELL", Wire(u)) \in 0 .. MaxUnits /\ CountIn("BELL", Wire(at.unit)) \in 0 .. MaxUnits
    BY <2>3, <2>8, WireBells
  <2>10. Rings(d, 1) \in Nat
    <3>1. Len(d) \in Nat /\ 1 \in 1 .. Len(d) + 1
      BY <2>5
    <3> PICK n : n = Len(d)
      OBVIOUS
    <3> QED
      BY <3>1, RingsFall
  <2> HIDE DEF r, m
  <2>11. m \in [n : Negotiator, now : Seq(Messages), later : Seq(Nat), bells : Nat]
    BY <2>6 DEF MachineOK
  <2>12. m = [n |-> m.n, now |-> m.now, later |-> m.later, bells |-> m.bells]
    BY <2>11
  <2>13. Machine' = m
    BY <2>2, <2>12 DEF Machine
  <2>14. m.bells \in Nat /\ m.bells <= CountIn("BELL", Wire(u))
    <3>1. Machine.bells = bells
      BY DEF Machine
    <3> QED
      BY <2>3, <2>5, <2>6, <2>7, <2>9, <2>10, <2>11, <3>1
  <2>15. TypeOK'
    <3>1. text' \in Seq(Bytes) /\ end' \in {"ok", "compress", "crash", "spin"}
      BY <2>2, <2>3, <2>6 DEF Parts
    <3>2. at'.unit \in 0 .. Len(stream') /\ at'.byte \in 0 .. 8
      BY <2>2, <2>4 DEF Place
    <3>3. bells' \in 0 .. MaxUnits
      BY <2>2, <2>9, <2>14, TelnetAssumption
    <3>4. negotiator' \in Negotiator /\ calm' \in BOOLEAN
      BY <2>2, <2>3, <2>11
    <3> QED
      BY <2>2, <2>3, <3>1, <3>2, <3>3, <3>4 DEF TypeOK
  <2>16. Place(at)'
    BY <2>2, <2>4 DEF Place
  <2>17. MachineOK(Machine)'
    <3>1. MachineOK(Machine') <=> MachineOK(Machine)'
      BY <2>2 DEF MachineOK, Sized, TypesTold, Asked, Agreed, CountIn, Rank
    <3> QED
      BY <2>6, <2>13, <3>1
  <2>18. (bells <= CountIn("BELL", Wire(at.unit)))'
    <3>1. at'.unit = u
      BY <2>2
    <3> QED
      BY <2>2, <2>14, <3>1 DEF Wire, CountIn
  <2> QED
    BY <2>15, <2>16, <2>17, <2>18 DEF TelnetInv
<1>2. CASE Due
  <2>1. /\ later # <<>> /\ later' = Tail(later) /\ out' = out
        /\ stream' = stream /\ at' = at /\ text' = text /\ bells' = bells
        /\ negotiator' = negotiator /\ end' = end /\ calm' = calm
    BY <1>2 DEF Due
  <2>2. PICK k \in Head(later) .. Len(out) : sizes' = Append(sizes, k)
    BY <1>2 DEF Due
  <2>3. TypeOK' /\ Place(at)' /\ (bells <= CountIn("BELL", Wire(at.unit)))'
    BY <2>1 DEF TelnetInv, TypeOK, Place, Wire, CountIn
  <2>4. /\ negotiator \in Negotiator /\ out \in Seq(Messages) /\ later \in Seq(Nat) /\ bells \in Nat
        /\ negotiator.mIsNAWS => negotiator.mDoneNAWS
        /\ Sized(out, later, sizes) /\ TypesTold(out, negotiator.mTermTypeAttempt)
    BY DEF TelnetInv, MachineOK, Machine
  <2>5. Sized(out, Tail(later), Append(sizes, k)) /\ Tail(later) \in Seq(Nat)
    BY <2>1, <2>4, SizedDue
  <2>6. MachineOK(Machine)'
    <3>1. Sized(out, later, sizes)' /\ TypesTold(out, negotiator.mTermTypeAttempt)'
      BY <2>1, <2>2, <2>4, <2>5 DEF Sized, TypesTold, Asked, Agreed, CountIn, Rank
    <3> QED
      BY <2>1, <2>4, <2>5, <3>1 DEF MachineOK, Machine
  <2> QED
    BY <2>3, <2>6 DEF TelnetInv
<1>3. CASE UNCHANGED vars
  <2>1. TypeOK' /\ Place(at)' /\ (bells <= CountIn("BELL", Wire(at.unit)))'
    BY <1>3 DEF vars, TelnetInv, TypeOK, Place, Wire, CountIn
  <2>2. Machine' = Machine
    BY <1>3 DEF vars, Machine
  <2>3. MachineOK(Machine') <=> MachineOK(Machine)'
    BY <1>3 DEF vars, MachineOK, Sized, TypesTold, Asked, Agreed, CountIn, Rank
  <2>4. MachineOK(Machine)
    BY DEF TelnetInv
  <2>5. MachineOK(Machine)'
    BY <2>2, <2>3, <2>4
  <2> QED
    BY <2>1, <2>5 DEF TelnetInv
<1> QED
  BY <1>1, <1>2, <1>3 DEF Next

LEMMA TelnetInvariant == Spec => []TelnetInv
BY InitTelnet, StepTelnet, PTL DEF Spec

\* TypeOK: whatever the chunks are, no more bells are posted than the stream has.
THEOREM TypeCorrect == Spec => []TypeOK
<1>1. TelnetInv => TypeOK
  BY DEF TelnetInv
<1> QED
  BY <1>1, TelnetInvariant, PTL

\* SizePerAgreement: the window size goes out once for every time the client agreed
\* to send it, and overtakes no agreement but its own, however late or early its
\* delayed message is handled.
THEOREM SizesAgreed == Spec => []SizePerAgreement
<1>1. TelnetInv => SizePerAgreement
  <2> SUFFICES ASSUME TelnetInv PROVE SizePerAgreement
    OBVIOUS
  <2>1. Sized(out, later, sizes)
    BY DEF TelnetInv, MachineOK, Machine
  <2>2. sizes \in Seq(Nat) /\ DOMAIN sizes = 1 .. Len(sizes)
    BY <2>1 DEF Sized
  <2> QED
    BY <2>1, <2>2, Zenon DEF Sized, SizePerAgreement
<1> QED
  BY <1>1, TelnetInvariant, PTL

\* TermTypesInOrder: the terminal types go out in the order of the list, the last one
\* for ever, whatever else is answered in between.
THEOREM TermTypesTold == Spec => []TermTypesInOrder
<1>1. TelnetInv => TermTypesInOrder
  <2> SUFFICES ASSUME TelnetInv PROVE TermTypesInOrder
    OBVIOUS
  <2>1. TypesTold(out, negotiator.mTermTypeAttempt)
    BY DEF TelnetInv, MachineOK, Machine
  <2> QED
    BY <2>1, Zenon DEF TypesTold, Asked, Turn, TermTypesInOrder
<1> QED
  BY <1>1, TelnetInvariant, PTL

(***************************************************************************)
(* What the loop does with a whole unit.                                   *)
(***************************************************************************)
\* The unit x is at k in d.
UnitAt(d, k, x) ==
    /\ k \in 1 .. Len(d) /\ k + Len(x) <= Len(d) + 1
    /\ \A i \in 1 .. Len(x) : d[k + i - 1] = x[i]

\* Neither answered nor a bell.
Plain(x) == ~IsOffer(x) /\ x # <<"BELL">>

\* The first IAC behind the option is where the subnegotiation ends.
LEMMA SubEndAt ==
  ASSUME NEW d, NEW n \in Nat, Len(d) = n, NEW i \in Nat, NEW j \in i + 3 .. n,
         d[j] = "IAC", \A k \in i + 3 .. j - 1 : d[k] # "IAC"
  PROVE  SubEnd(d, i) = j
<1> DEFINE P(m) == d[m] = "IAC" /\ \A k \in i + 3 .. m - 1 : d[k] # "IAC"
<1>1. P(j) /\ \E m \in i + 3 .. n : d[m] = "IAC"
  OBVIOUS
<1>2. ASSUME NEW m \in i + 3 .. n, P(m)
      PROVE  m = j
  <2>1. ~(m < j) /\ ~(j < m)
    BY <1>2
  <2> QED
    BY <2>1
<1>3. (CHOOSE m \in i + 3 .. n : P(m)) = j
  BY <1>1, <1>2
<1> QED
  BY <1>1, <1>3 DEF SubEnd

\* A subnegotiation without an IAC inside is dispatched, and the loop goes on behind it.
LEMMA SubScan ==
  ASSUME NEW d, NEW f, Scans(d, f), NEW o \in Bytes, NEW p \in Seq(Bytes),
         NEW n \in Nat, Len(p) = n, \A i \in 1 .. n : p[i] # "IAC",
         Len(d) \in Nat, NEW k \in Nat, UnitAt(d, k, Sub(o, p))
  PROVE  /\ f[k] = DispatchSub(d, k, k + n + 3, f[k + n + 5])
         /\ d[k + 2] = o /\ \A i \in 1 .. n : d[k + i + 2] = p[i]
<1> DEFINE x == Sub(o, p)
           j == k + n + 3
<1>1. /\ Len(x) = n + 5
      /\ x[1] = "IAC" /\ x[2] = "SB" /\ x[3] = o
      /\ \A i \in 1 .. n : x[i + 3] = p[i]
      /\ x[n + 4] = "IAC" /\ x[n + 5] = "SE"
  BY SubIs
<1>2. /\ k \in 1 .. Len(d) /\ k + n + 5 <= Len(d) + 1
      /\ \A i \in 1 .. n + 5 : d[k + i - 1] = x[i]
  BY <1>1 DEF UnitAt
<1> HIDE DEF x
<1>3. d[k] = "IAC" /\ d[k + 1] = "SB" /\ d[k + 2] = o /\ d[j] = "IAC" /\ d[j + 1] = "SE"
  <2>1. d[k + 1 - 1] = x[1] /\ d[k + 2 - 1] = x[2] /\ d[k + 3 - 1] = x[3]
    BY <1>2
  <2>2. d[k + (n + 4) - 1] = x[n + 4] /\ d[k + (n + 5) - 1] = x[n + 5]
    BY <1>2
  <2>3. k + 1 - 1 = k /\ k + 2 - 1 = k + 1 /\ k + 3 - 1 = k + 2
        /\ k + (n + 4) - 1 = j /\ k + (n + 5) - 1 = j + 1
    OBVIOUS
  <2> QED
    BY <1>1, <2>1, <2>2, <2>3
<1>4. ASSUME NEW i \in 1 .. n
      PROVE  d[k + i + 2] = p[i]
  <2>1. d[k + (i + 3) - 1] = x[i + 3]
    BY <1>2
  <2>2. k + (i + 3) - 1 = k + i + 2
    OBVIOUS
  <2> QED
    BY <1>1, <2>1, <2>2
<1>5. ASSUME NEW m \in k + 3 .. j - 1
      PROVE  d[m] # "IAC"
  <2>1. PICK i \in 1 .. n : m = k + i + 2
    <3>1. m - k - 2 \in 1 .. n /\ m = k + (m - k - 2) + 2
      OBVIOUS
    <3> QED
      BY <3>1
  <2> QED
    BY <1>4, <2>1
<1>6. SubEnd(d, k) = j
  <2>1. j \in k + 3 .. Len(d)
    BY <1>2
  <2> QED
    BY <1>3, <1>5, <2>1, SubEndAt
<1>7. f[k] = Command(d, k, f)
  <2>1. k \in 1 .. Len(d) + 1 /\ k <= Len(d)
    BY <1>2
  <2>2. f[k] = ScanStep(d, k, f)
    BY <2>1 DEF Scans
  <2>3. ScanStep(d, k, f) = Command(d, k, f)
    BY <1>3, <2>1 DEF ScanStep, Stripped
  <2> QED
    BY <2>2, <2>3
<1>8. Command(d, k, f) = Subnegotiation(d, k, f)
  <2>1. k < Len(d)
    BY <1>2
  <2> QED
    BY <1>3, <2>1 DEF Command, Actions, Consumed
<1>9. Subnegotiation(d, k, f) = DispatchSub(d, k, j, f[j + 2])
  BY <1>2, <1>3, <1>6 DEF Subnegotiation
<1>10. j + 2 = k + n + 5
  OBVIOUS
<1> QED
  BY <1>3, <1>4, <1>7, <1>8, <1>9, <1>10

\* A subnegotiation is neither text nor answered.
LEMMA LongIsPlain ==
  ASSUME NEW x, NEW n \in Nat, Len(x) = n, n > 3
  PROVE  Plain(x) /\ TextOf(x) = <<>>
<1>1. x # <<"c">> /\ x # <<"BELL">>
  <2>1. Len(<<"c">>) = 1 /\ Len(<<"BELL">>) = 1
    OBVIOUS
  <2> QED
    BY <2>1
<1>2. x # <<"IAC", "NOP">> /\ x # <<"IAC", "IAC">>
  <2>1. ASSUME NEW y, x = <<"IAC", y>>
        PROVE  FALSE
    <3>1. Len(x) = 2
      BY <2>1
    <3> QED
      BY <3>1
  <2> QED
    BY <2>1
<1>3. ~IsOffer(x)
  <2>1. n # 3
    OBVIOUS
  <2> QED
    BY <2>1, Zenon DEF IsOffer
<1> QED
  BY <1>1, <1>2, <1>3 DEF Plain, TextOf

\* What the loop makes of the unit x at k, when it goes on at j.
Reads(x, here, there) ==
    \/ Plain(x) /\ TextOf(x) = <<>> /\ here = there
    \/ Plain(x) /\ \E b \in Bytes : TextOf(x) = <<b>> /\ here = Put(b, there)
    \/ /\ Plain(x) /\ TextOf(x) = <<>>
       /\ \E e \in {<<"TTYPE">>, <<"GMCPTRIGGERED">>} : here = Event(e, there)
    \/ /\ x = <<"BELL">> /\ TextOf(x) = <<>>
       /\ here = Event(<<"BELL">>, there)
    \/ \E a \in Actions, o \in Options :
         /\ x = <<"IAC", a, o>> /\ TextOf(x) = <<>>
         /\ here = Event(<<a, o>>, there)
    \/ /\ x = Marker /\ Plain(x) /\ TextOf(x) = <<>>
       /\ here = Ends("compress")

LEMMA CharScan ==
  ASSUME NEW d, NEW f, Scans(d, f), Len(d) \in Nat, NEW x \in Chars,
         NEW k \in Nat, UnitAt(d, k, x)
  PROVE  Reads(x, f[k], f[k + 1])
<1>1. x = <<x[1]>> /\ x[1] \in {"c", "CARRIAGE", "BELL"} /\ Len(x) = 1
  BY DEF Chars
<1>2. k \in 1 .. Len(d) + 1 /\ k <= Len(d) /\ d[k] = x[1]
  <2>1. d[k + 1 - 1] = x[1] /\ k + 1 - 1 = k
    BY <1>1 DEF UnitAt
  <2> QED
    BY <2>1 DEF UnitAt
<1>3. f[k] = ScanStep(d, k, f)
  BY <1>2 DEF Scans
<1>4. CASE x[1] = "c"
  <2>1. f[k] = Put("c", f[k + 1])
    BY <1>2, <1>3, <1>4 DEF ScanStep, Stripped
  <2>2. TextOf(x) = <<"c">> /\ x # <<"BELL">>
    BY <1>1, <1>4 DEF TextOf
  <2>3. "c" \in Bytes
    BY DEF Bytes
  <2>4. ~IsOffer(x)
    BY <1>1 DEF IsOffer
  <2> QED
    BY <2>1, <2>2, <2>3, <2>4 DEF Reads, Plain
<1>5. CASE x[1] = "CARRIAGE"
  <2>1. f[k] = f[k + 1]
    BY <1>2, <1>3, <1>5 DEF ScanStep, Stripped
  <2>2. TextOf(x) = <<>> /\ x # <<"BELL">>
    BY <1>1, <1>5 DEF TextOf
  <2>4. ~IsOffer(x)
    BY <1>1 DEF IsOffer
  <2> QED
    BY <2>1, <2>2, <2>4 DEF Reads, Plain
<1>6. CASE x[1] = "BELL"
  <2>1. f[k] = Event(<<"BELL">>, f[k + 1])
    BY <1>2, <1>3, <1>6 DEF ScanStep, Stripped
  <2>2. TextOf(x) = <<>> /\ x = <<"BELL">>
    BY <1>1, <1>6 DEF TextOf
  <2> QED
    BY <2>1, <2>2 DEF Reads
<1> QED
  BY <1>1, <1>4, <1>5, <1>6

\* A command of three bytes.
LEMMA OfferScan ==
  ASSUME NEW d, NEW f, Scans(d, f), Len(d) \in Nat, NEW a \in Actions, NEW o \in Options,
         NEW k \in Nat, UnitAt(d, k, <<"IAC", a, o>>)
  PROVE  Reads(<<"IAC", a, o>>, f[k], f[k + 3])
<1> DEFINE x == <<"IAC", a, o>>
<1>1. Len(x) = 3 /\ x[1] = "IAC" /\ x[2] = a /\ x[3] = o
  OBVIOUS
<1>2. k \in 1 .. Len(d) + 1 /\ k + 2 <= Len(d) /\ d[k] = "IAC" /\ d[k + 1] = a /\ d[k + 2] = o
  <2>1. d[k + 1 - 1] = x[1] /\ d[k + 2 - 1] = x[2] /\ d[k + 3 - 1] = x[3]
    BY <1>1 DEF UnitAt
  <2>2. k + 1 - 1 = k /\ k + 2 - 1 = k + 1 /\ k + 3 - 1 = k + 2
    OBVIOUS
  <2>3. k \in 1 .. Len(d) + 1 /\ k + 2 <= Len(d)
    BY <1>1 DEF UnitAt
  <2> QED
    BY <1>1, <2>1, <2>2, <2>3
<1>3. f[k] = ScanStep(d, k, f)
  BY <1>2 DEF Scans
<1>4. ScanStep(d, k, f) = Command(d, k, f)
  BY <1>2 DEF ScanStep, Stripped
<1>5. Command(d, k, f) = Event(<<a, o>>, f[k + 3])
  <2>1. k < Len(d) /\ k # Len(d) /\ ~(k + 2 > Len(d)) /\ d[k + 1] \in Actions
    BY <1>2
  <2> QED
    BY <1>2, <2>1 DEF Command, AfterOption, Actions, Consumed
<1>6. TextOf(x) = <<>>
  BY DEF TextOf
<1> QED
  BY <1>3, <1>4, <1>5, <1>6 DEF Reads

\* A command of two bytes; 255 as data is one when a character follows.
LEMMA PairScan ==
  ASSUME NEW d, NEW f, Scans(d, f), Len(d) \in Nat,
         NEW y \in {"GOAHEAD", "NOP", "IAC"}, NEW k \in Nat, UnitAt(d, k, <<"IAC", y>>),
         y = "IAC" => k + 2 <= Len(d) /\ d[k + 2] \in {"c", "CARRIAGE", "BELL"}
  PROVE  Reads(<<"IAC", y>>, f[k], f[k + 2])
<1> DEFINE x == <<"IAC", y>>
<1>1. Len(x) = 2 /\ x[1] = "IAC" /\ x[2] = y
  OBVIOUS
<1>2. k \in 1 .. Len(d) + 1 /\ k + 1 \in 1 .. Len(d) + 1 /\ k + 1 <= Len(d)
      /\ d[k] = "IAC" /\ d[k + 1] = y
  <2>1. d[k + 1 - 1] = x[1] /\ d[k + 2 - 1] = x[2]
    BY <1>1 DEF UnitAt
  <2>2. k + 1 - 1 = k /\ k + 2 - 1 = k + 1
    OBVIOUS
  <2>3. k \in 1 .. Len(d) + 1 /\ k + 1 \in 1 .. Len(d) + 1 /\ k + 1 <= Len(d)
    BY <1>1 DEF UnitAt
  <2> QED
    BY <1>1, <2>1, <2>2, <2>3
<1>3. f[k] = ScanStep(d, k, f) /\ f[k + 1] = ScanStep(d, k + 1, f)
  BY <1>2 DEF Scans
<1>4. ScanStep(d, k, f) = Command(d, k, f)
  BY <1>2 DEF ScanStep, Stripped
<1>5. Plain(x)
  BY DEF Plain, IsOffer
<1>6. CASE y = "GOAHEAD"
  <2>1. Command(d, k, f) = f[k + 2]
    BY <1>2, <1>6 DEF Command, Actions, Consumed
  <2>2. TextOf(x) = <<>>
    BY <1>6 DEF TextOf
  <2> QED
    BY <1>3, <1>4, <1>5, <2>1, <2>2 DEF Reads
<1>7. CASE y = "NOP"
  <2>1. Command(d, k, f) = f[k + 1]
    BY <1>2, <1>7 DEF Command, Actions, Consumed
  <2>2. ScanStep(d, k + 1, f) = Put("NOP", f[k + 1 + 1])
    BY <1>2, <1>7 DEF ScanStep, Stripped
  <2>3. TextOf(x) = <<"NOP">> /\ "NOP" \in Bytes
    BY <1>7 DEF TextOf, Bytes
  <2>4. k + 1 + 1 = k + 2
    OBVIOUS
  <2> QED
    BY <1>3, <1>4, <1>5, <2>1, <2>2, <2>3, <2>4 DEF Reads
<1>8. CASE y = "IAC"
  <2>1. Command(d, k, f) = Put("IAC", f[k + 1])
    BY <1>2, <1>8 DEF Command, Actions, Consumed
  <2>2. ScanStep(d, k + 1, f) = Command(d, k + 1, f)
    BY <1>2, <1>8 DEF ScanStep, Stripped
  <2>3. k + 1 < Len(d) /\ d[(k + 1) + 1] \in {"c", "CARRIAGE", "BELL"}
    BY <1>8
  <2>4. Command(d, k + 1, f) = f[(k + 1) + 1]
    BY <2>3 DEF Command, Actions, Consumed
  <2>5. TextOf(x) = <<"IAC">> /\ "IAC" \in Bytes
    BY <1>8 DEF TextOf, Bytes
  <2>6. (k + 1) + 1 = k + 2
    OBVIOUS
  <2> QED
    BY <1>3, <1>4, <1>5, <2>1, <2>2, <2>4, <2>5, <2>6 DEF Reads
<1> QED
  BY <1>6, <1>7, <1>8

\* The two payloads that are written.
LEMMA Payloads ==
  /\ <<"SEND">> \in Seq(Bytes) /\ Len(<<"SEND">>) = 1
  /\ \A i \in 1 .. 1 : <<"SEND">>[i] # "IAC"
  /\ <<"module", "SPACE", "data">> \in Seq(Bytes) /\ Len(<<"module", "SPACE", "data">>) = 3
  /\ \A i \in 1 .. 3 : <<"module", "SPACE", "data">>[i] # "IAC"
  /\ <<"module", "SPACE", "data">>[2] = "SPACE"
  /\ <<>> \in Seq(Bytes)
<1>1. /\ "SEND" \in Bytes /\ "module" \in Bytes /\ "SPACE" \in Bytes /\ "data" \in Bytes
  BY BytesAre
<1>2. /\ <<"SEND">> \in Seq(Bytes) /\ <<>> \in Seq(Bytes)
      /\ <<"module", "SPACE", "data">> \in Seq(Bytes)
  BY <1>1, TupleIn
<1>3. Len(<<"SEND">>) = 1 /\ \A i \in 1 .. 1 : <<"SEND">>[i] # "IAC"
  OBVIOUS
<1>4. /\ Len(<<"module", "SPACE", "data">>) = 3
      /\ \A i \in 1 .. 3 : <<"module", "SPACE", "data">>[i] # "IAC"
      /\ <<"module", "SPACE", "data">>[2] = "SPACE"
  OBVIOUS
<1> QED
  BY <1>2, <1>3, <1>4

LEMMA TwoOfThree == 1 \in Nat /\ 3 \in Nat /\ 2 \in 1 .. 3
OBVIOUS

LEMMA Nothing == 0 \in Nat /\ Len(<<>>) = 0 /\ \A i \in 1 .. 0 : <<>>[i] # "IAC"
BY NoPlace

LEMMA Within ==
  ASSUME NEW k \in Nat, NEW n \in Nat, NEW m \in 1 .. n
  PROVE  k + m + 2 \in k + 3 .. k + n + 3 - 1
OBVIOUS

LEMMA AnySubScan ==
  ASSUME NEW d, NEW f, Scans(d, f), NEW o \in Bytes, NEW p \in Seq(Bytes),
         NEW n \in Nat, Len(p) = n, \A i \in 1 .. n : p[i] # "IAC",
         Len(d) \in Nat, NEW k \in Nat, NEW x, x = Sub(o, p), UnitAt(d, k, x)
  PROVE  /\ Plain(x) /\ TextOf(x) = <<>>
         /\ f[k] = DispatchSub(d, k, k + n + 3, f[k + Len(x)])
         /\ d[k + 2] = o /\ \A i \in 1 .. n : d[k + i + 2] = p[i]
<1>1. /\ f[k] = DispatchSub(d, k, k + n + 3, f[k + n + 5])
      /\ d[k + 2] = o /\ \A i \in 1 .. n : d[k + i + 2] = p[i]
  BY SubScan
<1>2. Len(x) = n + 5
  BY SubIs
<1>3. n + 5 \in Nat /\ n + 5 > 3 /\ k + n + 5 = k + (n + 5)
  OBVIOUS
<1>4. Plain(x) /\ TextOf(x) = <<>>
  BY <1>2, <1>3, LongIsPlain
<1> QED
  BY <1>1, <1>2, <1>3, <1>4

LEMMA TermTypeScan ==
  ASSUME NEW d, NEW f, Scans(d, f), NEW o \in Bytes, NEW p \in Seq(Bytes),
         NEW n \in Nat, Len(p) = n, \A i \in 1 .. n : p[i] # "IAC",
         Len(d) \in Nat, NEW k \in Nat, NEW x, x = Sub(o, p), UnitAt(d, k, x),
         o = "TTYPE"
  PROVE  Reads(x, f[k], f[k + Len(x)])
<1>2. /\ Plain(x) /\ TextOf(x) = <<>> /\ d[k + 2] = o
      /\ f[k] = DispatchSub(d, k, k + n + 3, f[k + Len(x)])
  BY AnySubScan
<1>3. f[k] = Event(<<"TTYPE">>, f[k + Len(x)])
  BY <1>2 DEF DispatchSub
<1> QED
  BY <1>2, <1>3 DEF Reads

\* A GMCP message with a space in it.
LEMMA MessageScan ==
  ASSUME NEW d, NEW f, Scans(d, f), NEW o \in Bytes, NEW p \in Seq(Bytes),
         NEW n \in Nat, Len(p) = n, \A i \in 1 .. n : p[i] # "IAC",
         Len(d) \in Nat, NEW k \in Nat, NEW x, x = Sub(o, p), UnitAt(d, k, x), o = "GMCP"
  PROVE  (\E m \in 1 .. n : p[m] = "SPACE") => Reads(x, f[k], f[k + Len(x)])
<1>1. /\ Plain(x) /\ TextOf(x) = <<>> /\ d[k + 2] = o
      /\ f[k] = DispatchSub(d, k, k + n + 3, f[k + Len(x)])
      /\ \A i \in 1 .. n : d[k + i + 2] = p[i]
  BY AnySubScan
<1> HAVE \E m \in 1 .. n : p[m] = "SPACE"
<1>2. \E j \in k + 3 .. k + n + 3 - 1 : d[j] = "SPACE"
  BY <1>1, Within
<1>3. f[k] = Event(<<"GMCPTRIGGERED">>, f[k + Len(x)])
  BY <1>1, <1>2 DEF DispatchSub
<1> QED
  BY <1>1, <1>3 DEF Reads

LEMMA MarkerScan ==
  ASSUME NEW d, NEW f, Scans(d, f), NEW o \in Bytes, NEW p \in Seq(Bytes),
         NEW n \in Nat, Len(p) = n, \A i \in 1 .. n : p[i] # "IAC",
         Len(d) \in Nat, NEW k \in Nat, NEW x, x = Sub(o, p), UnitAt(d, k, x),
         o = "MCCP",
         x = Marker
  PROVE  Reads(x, f[k], f[k + Len(x)])
<1>2. /\ Plain(x) /\ TextOf(x) = <<>> /\ d[k + 2] = o
      /\ f[k] = DispatchSub(d, k, k + n + 3, f[k + Len(x)])
  BY AnySubScan
<1>3. f[k] = Ends("compress")
  BY <1>2 DEF DispatchSub
<1> QED
  BY <1>2, <1>3 DEF Reads

\* The three subnegotiations the code answers or obeys.
LEMMA KnownSubScan ==
  ASSUME NEW d, NEW f, Scans(d, f), Len(d) \in Nat, NEW k \in Nat, NEW x, UnitAt(d, k, x),
         x \in {Sub("TTYPE", <<"SEND">>), Sub("GMCP", <<"module", "SPACE", "data">>), Marker}
  PROVE  Reads(x, f[k], f[k + Len(x)])
<1>4. "TTYPE" \in Bytes /\ "GMCP" \in Bytes /\ "MCCP" \in Bytes
  BY BytesAre, Zenon DEF Options
<1>1. CASE x = Sub("TTYPE", <<"SEND">>)
  BY <1>1, <1>4, Payloads, TwoOfThree, TermTypeScan
<1>2. CASE x = Sub("GMCP", <<"module", "SPACE", "data">>)
  <2> DEFINE p == <<"module", "SPACE", "data">>
  <2>1. /\ p \in Seq(Bytes) /\ Len(p) = 3 /\ \A i \in 1 .. 3 : p[i] # "IAC"
        /\ p[2] = "SPACE"
    BY Payloads
  <2>2. x = Sub("GMCP", p)
    BY <1>2
  <2> HIDE DEF p
  <2>3. 3 \in Nat /\ 2 \in 1 .. 3
    BY TwoOfThree
  <2>4. PICK o \in Bytes : o = "GMCP"
    BY <1>4
  <2>5. x = Sub(o, p)
    BY <2>2, <2>4
  <2> QED
    BY <2>1, <2>3, <2>4, <2>5, MessageScan
<1>3. CASE x = Marker
  <2>1. x = Sub("MCCP", <<>>)
    BY <1>3, Zenon DEF Marker
  <2>2. 0 \in Nat /\ Len(<<>>) = 0 /\ \A i \in 1 .. 0 : <<>>[i] # "IAC"
    BY Nothing
  <2> QED
    BY <1>3, <1>4, <2>1, <2>2, Payloads, MarkerScan
<1> QED
  BY <1>1, <1>2, <1>3

\* The loop over one unit.
LEMMA UnitScan ==
  ASSUME NEW d, NEW f, Scans(d, f), Len(d) \in Nat, NEW x \in Units, x \notin Odd,
         NEW k \in Nat, UnitAt(d, k, x),
         x = <<"IAC", "IAC">> => k + 2 <= Len(d) /\ d[k + 2] \in {"c", "CARRIAGE", "BELL"}
  PROVE  Reads(x, f[k], f[k + Len(x)])
<1>1. CASE x \in Chars
  <2>1. Len(x) = 1
    BY <1>1 DEF Chars
  <2> QED
    BY <1>1, <2>1, CharScan
<1>2. CASE \E a \in Actions, o \in Options : x = <<"IAC", a, o>>
  <2>1. PICK a \in Actions, o \in Options : x = <<"IAC", a, o>>
    BY <1>2
  <2>2. Len(x) = 3
    BY <2>1
  <2> QED
    BY <2>1, <2>2, OfferScan
<1>3. CASE x \in {Sub("TTYPE", <<"SEND">>), Sub("GMCP", <<"module", "SPACE", "data">>), Marker}
  BY <1>3, KnownSubScan
<1>4. CASE x \in {<<"IAC", "GOAHEAD">>, <<"IAC", "NOP">>, <<"IAC", "IAC">>}
  <2>1. PICK y \in {"GOAHEAD", "NOP", "IAC"} : x = <<"IAC", y>>
    BY <1>4
  <2>2. Len(x) = 2
    BY <2>1
  <2> QED
    BY <2>1, <2>2, PairScan
<1> QED
  BY <1>1, <1>2, <1>3, <1>4, UnitIs

(***************************************************************************)
(* Offers and answers, matched by rank.                                    *)
(***************************************************************************)
Matched(s, o) ==
    /\ Cardinality(Offers(s)) = Cardinality(Offers(o))
    /\ \A i \in Offers(s), j \in Offers(o) :
         Rank(Offers(s), i) = Rank(Offers(o), j) => Answers(s[i], o[j])

LEMMA OffersMore ==
  ASSUME NEW M, NEW s \in Seq(M), NEW x \in M
  PROVE  /\ Len(s) \in Nat /\ Offers(s) \in SUBSET (1 .. Len(s))
         /\ \A i \in 1 .. Len(s) : Append(s, x)[i] = s[i]
         /\ Append(s, x)[Len(s) + 1] = x
         /\ IsOffer(x) => Offers(Append(s, x)) = Offers(s) \union {Len(s) + 1}
         /\ ~IsOffer(x) => Offers(Append(s, x)) = Offers(s)
<1> DEFINE t == Append(s, x)
<1>1. /\ Len(s) \in Nat /\ DOMAIN s = 1 .. Len(s) /\ DOMAIN t = 1 .. Len(s) + 1
      /\ \A i \in 1 .. Len(s) : t[i] = s[i]
      /\ t[Len(s) + 1] = x
  OBVIOUS
<1> HIDE DEF t
<1>2. Offers(s) \in SUBSET (1 .. Len(s))
  BY <1>1 DEF Offers
<1>3. ASSUME NEW i
      PROVE  i \in Offers(t) <=> i \in Offers(s) \/ (i = Len(s) + 1 /\ IsOffer(x))
  <2>1. i \in 1 .. Len(s) + 1 <=> i \in 1 .. Len(s) \/ i = Len(s) + 1
    BY <1>1
  <2>2. Len(s) + 1 \notin 1 .. Len(s)
    BY <1>1
  <2> QED
    BY <1>1, <2>1, <2>2 DEF Offers
<1>4. IsOffer(x) => Offers(t) = Offers(s) \union {Len(s) + 1}
  BY <1>3
<1>5. ~IsOffer(x) => Offers(t) = Offers(s)
  BY <1>3
<1> QED
  BY <1>1, <1>2, <1>4, <1>5 DEF t

\* A unit that asks for nothing, a message that answers nothing.
LEMMA MatchedUnit ==
  ASSUME NEW M, NEW s \in Seq(M), NEW x \in M, NEW o, Matched(s, o), ~IsOffer(x)
  PROVE  Matched(Append(s, x), o)
<1>1. Offers(Append(s, x)) = Offers(s) /\ \A i \in Offers(s) : Append(s, x)[i] = s[i]
  BY OffersMore
<1> QED
  BY <1>1 DEF Matched

LEMMA MatchedMessage ==
  ASSUME NEW M, NEW o \in Seq(M), NEW y \in M, NEW s, Matched(s, o), ~IsOffer(y)
  PROVE  Matched(s, Append(o, y))
<1>1. Offers(Append(o, y)) = Offers(o) /\ \A i \in Offers(o) : Append(o, y)[i] = o[i]
  BY OffersMore
<1> QED
  BY <1>1 DEF Matched

\* An offer and its answer: the ranks of the two are the same, and no other's.
LEMMA MatchedBoth ==
  ASSUME NEW M, NEW s \in Seq(M), NEW x \in M, NEW L, NEW o \in Seq(L), NEW y \in L,
         Matched(s, o), IsOffer(x), IsOffer(y), Answers(x, y)
  PROVE  Matched(Append(s, x), Append(o, y))
<1> DEFINE S == Offers(s)
           O == Offers(o)
           k == Len(s) + 1
           l == Len(o) + 1
<1>1. /\ Len(s) \in Nat /\ S \in SUBSET (1 .. Len(s))
      /\ \A i \in S : Append(s, x)[i] = s[i]
      /\ Append(s, x)[k] = x /\ Offers(Append(s, x)) = S \union {k}
  BY OffersMore
<1>2. /\ Len(o) \in Nat /\ O \in SUBSET (1 .. Len(o))
      /\ \A i \in O : Append(o, y)[i] = o[i]
      /\ Append(o, y)[l] = y /\ Offers(Append(o, y)) = O \union {l}
  BY OffersMore
<1>3. Cardinality(S) = Cardinality(O)
      /\ \A i \in S, j \in O : Rank(S, i) = Rank(O, j) => Answers(s[i], o[j])
  BY DEF Matched
<1> HIDE DEF S, O
<1>4. /\ Cardinality(S) \in Nat /\ Cardinality(S \union {k}) = Cardinality(S) + 1
      /\ \A i \in S : /\ Rank(S \union {k}, i) = Rank(S, i)
                      /\ Rank(S, i) \in Nat /\ Rank(S, i) <= Cardinality(S)
      /\ Rank(S \union {k}, k) = Cardinality(S) + 1
  BY <1>1, PlacesGrow
<1>5. /\ Cardinality(O) \in Nat /\ Cardinality(O \union {l}) = Cardinality(O) + 1
      /\ \A i \in O : /\ Rank(O \union {l}, i) = Rank(O, i)
                      /\ Rank(O, i) \in Nat /\ Rank(O, i) <= Cardinality(O)
      /\ Rank(O \union {l}, l) = Cardinality(O) + 1
  BY <1>2, PlacesGrow
<1> HIDE DEF k, l
<1>6. ASSUME NEW i \in S \union {k}, NEW j \in O \union {l},
             Rank(S \union {k}, i) = Rank(O \union {l}, j)
      PROVE  Answers(Append(s, x)[i], Append(o, y)[j])
  <2>1. CASE i \in S /\ j \in O
    BY <1>1, <1>2, <1>3, <1>4, <1>5, <1>6, <2>1
  <2>2. CASE i \in S /\ j = l
    <3>1. /\ Rank(S \union {k}, i) = Rank(S, i) /\ Rank(S, i) \in Nat
          /\ Rank(S, i) <= Cardinality(S)
      BY <1>4, <2>2
    <3>2. Rank(O \union {l}, j) = Cardinality(S) + 1 /\ Cardinality(S) \in Nat
      BY <1>3, <1>4, <1>5, <2>2
    <3>3. PICK c \in Nat : c = Cardinality(S)
      BY <3>2
    <3>4. Rank(S, i) = c + 1 /\ Rank(S, i) <= c
      BY <1>6, <3>1, <3>2, <3>3, Zenon
    <3> QED
      BY <3>4
  <2>3. CASE i = k /\ j \in O
    <3>1. /\ Rank(O \union {l}, j) = Rank(O, j) /\ Rank(O, j) \in Nat
          /\ Rank(O, j) <= Cardinality(S)
      BY <1>3, <1>5, <2>3
    <3>2. Rank(S \union {k}, i) = Cardinality(S) + 1 /\ Cardinality(S) \in Nat
      BY <1>4, <2>3
    <3>3. PICK c \in Nat : c = Cardinality(S)
      BY <3>2
    <3>4. Rank(O, j) = c + 1 /\ Rank(O, j) <= c
      BY <1>6, <3>1, <3>2, <3>3, Zenon
    <3> QED
      BY <3>4
  <2>4. CASE i = k /\ j = l
    BY <1>1, <1>2, <2>4
  <2> QED
    BY <2>1, <2>2, <2>3, <2>4
<1>7. Cardinality(S \union {k}) = Cardinality(O \union {l})
  BY <1>3, <1>4, <1>5
<1> QED
  BY <1>1, <1>2, <1>6, <1>7 DEF Matched

\* The machine m has rung the bells and answered the offers of the units s.
Good(m, s) == m.bells = CountIn(<<"BELL">>, s) /\ Matched(s, m.now)

LEMMA MachineIs ==
  ASSUME NEW m, MachineOK(m)
  PROVE  m \in [n : Negotiator, now : Seq(Messages), later : Seq(Nat), bells : Nat]
BY DEF MachineOK

LEMMA GoodPlain ==
  ASSUME NEW s \in Seq(Units), NEW x \in Units, NEW m, Good(m, s), Plain(x)
  PROVE  Good(m, Append(s, x))
<1>1. CountIn(<<"BELL">>, Append(s, x)) = CountIn(<<"BELL">>, s)
  <2>1. /\ CountIn(<<"BELL">>, s) \in Nat
        /\ CountIn(<<"BELL">>, Append(s, x)) = CountIn(<<"BELL">>, s)
                                               + IF x = <<"BELL">> THEN 1 ELSE 0
    BY CountMore
  <2>2. x # <<"BELL">>
    BY DEF Plain
  <2> QED
    BY <2>1, <2>2
<1>2. Matched(Append(s, x), m.now)
  <2>1. Matched(s, m.now) /\ ~IsOffer(x)
    BY DEF Good, Plain
  <2> QED
    BY <2>1, MatchedUnit
<1> QED
  BY <1>1, <1>2 DEF Good

\* The messages that answer nothing.
LEMMA Unanswering ==
  /\ \A t : ~IsOffer(<<"TTYPE", t>>)
  /\ ~IsOffer(<<"GMCPTRIGGERED">>)
  /\ ~IsOffer(<<"core.hello">>) /\ ~IsOffer(<<"core.supports.set">>)
<1>1. \A t : Len(<<"TTYPE", t>>) = 2
  OBVIOUS
<1>2. \A b : Len(<<b>>) = 1
  OBVIOUS
<1>3. 1 # 3 /\ 2 # 3
  OBVIOUS
<1> QED
  BY <1>1, <1>2, <1>3, Zenon DEF IsOffer

LEMMA GoodPost ==
  ASSUME NEW s \in Seq(Units), NEW m, MachineOK(m), Good(m, s),
         NEW e \in {<<"TTYPE">>, <<"GMCPTRIGGERED">>}
  PROVE  Good(Dispatch(m, e), s)
<1>1. m \in [n : Negotiator, now : Seq(Messages), later : Seq(Nat), bells : Nat]
  BY MachineIs
<1>2. Matched(s, m.now) /\ m.bells = CountIn(<<"BELL">>, s)
  BY DEF Good
<1>3. CASE e = <<"TTYPE">>
  <2> DEFINE x == <<"TTYPE", TermType(m.n)>>
             p == [m EXCEPT !.now = Append(@, x), !.n = AfterTermType(m.n)]
  <2>1. e # <<"BELL">> /\ e[1] \notin Actions
    BY <1>3 DEF Actions
  <2>2. Dispatch(m, e) = p
    BY <1>3, <2>1, Zenon DEF Dispatch
  <2>3. x \in Messages
    <3>1. m.n.mTermTypeAttempt \in 0 .. 3
      BY <1>1 DEF Negotiator, TTYPE_MAX_TRIES
    <3>2. m.n.mTermTypeAttempt + 1 \in 1 .. 4
      BY <3>1
    <3>3. TermType(m.n) \in {TermTypes[k] : k \in 1 .. 4}
      BY <3>2 DEF TermType
    <3> QED
      BY <3>3 DEF Messages
  <2>4. ~IsOffer(x)
    BY Unanswering
  <2>5. p.now = Append(m.now, x) /\ p.bells = m.bells
    BY <1>1
  <2> HIDE DEF x, p
  <2>6. Matched(s, Append(m.now, x))
    BY <1>1, <1>2, <2>3, <2>4, MatchedMessage
  <2> QED
    BY <1>2, <2>2, <2>5, <2>6 DEF Good
<1>4. CASE e = <<"GMCPTRIGGERED">>
  <2> DEFINE p == [m EXCEPT !.now = Append(@, e)]
  <2>1. e[1] \notin Actions /\ e # <<"BELL">> /\ e # <<"TTYPE">>
    BY <1>4 DEF Actions
  <2>2. Dispatch(m, e) = p
    BY <2>1, Zenon DEF Dispatch
  <2>3. e \in Messages
    BY <1>4 DEF Messages
  <2>4. ~IsOffer(e)
    BY <1>4, Unanswering
  <2>5. p.now = Append(m.now, e) /\ p.bells = m.bells
    BY <1>1
  <2> HIDE DEF p
  <2>6. Matched(s, Append(m.now, e))
    BY <1>1, <1>2, <2>3, <2>4, MatchedMessage
  <2> QED
    BY <1>2, <2>2, <2>5, <2>6 DEF Good
<1> QED
  BY <1>3, <1>4

LEMMA GoodBell ==
  ASSUME NEW s \in Seq(Units), NEW m, MachineOK(m), Good(m, s), <<"BELL">> \in Units
  PROVE  Good(Dispatch(m, <<"BELL">>), Append(s, <<"BELL">>))
<1> DEFINE e == <<"BELL">>
<1>1. m \in [n : Negotiator, now : Seq(Messages), later : Seq(Nat), bells : Nat]
  BY MachineIs
<1>2. Matched(s, m.now) /\ m.bells = CountIn(e, s)
  BY DEF Good
<1>3. Dispatch(m, e) = [m EXCEPT !.bells = Rung(@)]
  <2>1. e # <<"TTYPE">> /\ e[1] \notin Actions
    BY DEF Actions
  <2> QED
    BY <2>1, Zenon DEF Dispatch
<1>4. Dispatch(m, e).bells = m.bells + 1 /\ Dispatch(m, e).now = m.now
  BY <1>1, <1>3 DEF Rung
<1>5. CountIn(e, Append(s, e)) = CountIn(e, s) + 1
  BY CountMore
<1>6. Matched(Append(s, e), m.now)
  <2>1. ~IsOffer(e)
    BY DEF IsOffer
  <2> QED
    BY <1>2, <2>1, MatchedUnit
<1> HIDE DEF e
<1>7. Good(Dispatch(m, e), Append(s, e))
  <2>1. Dispatch(m, e).bells = CountIn(e, Append(s, e))
    BY <1>2, <1>4, <1>5
  <2>2. Matched(Append(s, e), Dispatch(m, e).now)
    BY <1>4, <1>6
  <2> QED
    BY <2>1, <2>2, Zenon DEF Good, e
<1> QED
  BY <1>7 DEF e

\* An offer is answered once, and the greeting of GMCP answers nothing.
LEMMA GoodOffer ==
  ASSUME NEW s \in Seq(Units), NEW m, MachineOK(m), Good(m, s),
         NEW a \in Actions, NEW o \in Options, Offer(a, o) \in Units
  PROVE  Good(Dispatch(m, <<a, o>>), Append(s, Offer(a, o)))
<1> DEFINE x == Offer(a, o)
           y == Offer(Response(a, o), o)
           p == Dispatch(m, <<a, o>>)
           e == <<a, o>>
<1>1. m \in [n : Negotiator, now : Seq(Messages), later : Seq(Nat), bells : Nat]
  BY MachineIs
<1>2. Matched(s, m.now) /\ m.bells = CountIn(<<"BELL">>, s)
  BY DEF Good
<1>3. o \in Bytes
  BY BytesAre
<1>4. p = DispatchIAC(m, a, o)
  <2>1. e # <<"BELL">> /\ e # <<"TTYPE">> /\ e[1] = a /\ e[2] = o
    OBVIOUS
  <2> QED
    BY <2>1, Zenon DEF Dispatch
<1>5. /\ p.bells = m.bells
      /\ \/ p.now = Append(m.now, y)
         \/ p.now = Append(Append(Append(m.now, y), <<"core.hello">>), <<"core.supports.set">>)
  BY <1>3, <1>4, IACKeeps
<1>6. /\ Response(a, o) \in Actions /\ y \in Messages /\ Answers(x, y)
  BY <1>3, ResponseIs
<1>7. IsOffer(x) /\ IsOffer(y)
  BY <1>6 DEF IsOffer, Offer
<1>8. x # <<"BELL">>
  BY DEF Offer
<1> HIDE DEF x, y, p, e
<1>9. Matched(Append(s, x), Append(m.now, y))
  BY <1>1, <1>2, <1>6, <1>7, MatchedBoth DEF x
<1>10. Matched(Append(s, x), p.now)
  <2>1. CASE p.now = Append(m.now, y)
    BY <1>9, <2>1
  <2>2. CASE p.now = Append(Append(Append(m.now, y), <<"core.hello">>), <<"core.supports.set">>)
    <3>1. PICK h \in Messages : h = <<"core.hello">>
      BY Zenon DEF Messages
    <3>2. PICK g \in Messages : g = <<"core.supports.set">>
      BY Zenon DEF Messages
    <3>3. ~IsOffer(h) /\ ~IsOffer(g)
      BY <3>1, <3>2, Unanswering
    <3> DEFINE q == Append(m.now, y)
               r == Append(q, h)
    <3>4. q \in Seq(Messages)
      BY <1>1, <1>6
    <3> HIDE DEF q
    <3>5. Matched(Append(s, x), r) /\ r \in Seq(Messages)
      <4>1. Matched(Append(s, x), q)
        BY <1>9 DEF q
      <4>2. Matched(Append(s, x), Append(q, h))
        BY <3>3, <3>4, <4>1, MatchedMessage
      <4> QED
        BY <3>4, <4>2
    <3> HIDE DEF r
    <3>6. Matched(Append(s, x), Append(r, g))
      BY <3>3, <3>5, MatchedMessage
    <3> QED
      BY <2>2, <3>1, <3>2, <3>6 DEF q, r
  <2> QED
    BY <1>5, <2>1, <2>2
<1>11. CountIn(<<"BELL">>, Append(s, x)) = CountIn(<<"BELL">>, s)
  <2>1. /\ CountIn(<<"BELL">>, s) \in Nat
        /\ CountIn(<<"BELL">>, Append(s, x)) = CountIn(<<"BELL">>, s)
                                               + IF x = <<"BELL">> THEN 1 ELSE 0
    BY CountMore DEF x
  <2> QED
    BY <1>8, <2>1
<1>12. Good(p, Append(s, x))
  BY <1>2, <1>5, <1>10, <1>11 DEF Good
<1> QED
  BY <1>12 DEF p, x

(***************************************************************************)
(* The meaning of the units.                                               *)
(***************************************************************************)
LEMMA JoinedIsOne ==
  ASSUME NEW M, NEW r \in Seq(M), NEW q \in Seq(M), NEW s \in Seq(M), NEW t \in Seq(M),
         Joined(r, s, t), Joined(q, s, t)
  PROVE  r = q
<1>1. Len(r) = Len(s) + Len(t) /\ Len(q) = Len(s) + Len(t)
      /\ Len(s) \in Nat /\ Len(t) \in Nat
  BY DEF Joined
<1>2. ASSUME NEW i \in 1 .. Len(s) + Len(t)
      PROVE  r[i] = q[i]
  <2>1. CASE i <= Len(s)
    <3>1. i \in 1 .. Len(s)
      BY <1>1, <2>1
    <3> QED
      BY <3>1 DEF Joined
  <2>2. CASE i > Len(s)
    <3>1. i - Len(s) \in 1 .. Len(t) /\ Len(s) + (i - Len(s)) = i
      BY <1>1, <2>2
    <3> QED
      BY <3>1 DEF Joined
  <2> QED
    BY <1>1, <2>1, <2>2
<1> QED
  BY <1>1, <1>2

LEMMA ConcatThree ==
  ASSUME NEW M, NEW a \in Seq(M), NEW b \in Seq(M), NEW c \in Seq(M)
  PROVE  (a \o b) \o c = a \o (b \o c)
<1> DEFINE ab == a \o b
           bc == b \o c
           l  == ab \o c
           r  == a \o bc
<1>1. ab \in Seq(M) /\ Joined(ab, a, b) /\ bc \in Seq(M) /\ Joined(bc, b, c)
  BY ConcatIs
<1> HIDE DEF ab, bc
<1>2. l \in Seq(M) /\ Joined(l, ab, c) /\ r \in Seq(M) /\ Joined(r, a, bc)
  BY <1>1, ConcatIs
<1> HIDE DEF l, r
<1>3. /\ Len(a) \in Nat /\ Len(b) \in Nat /\ Len(c) \in Nat
      /\ Len(ab) = Len(a) + Len(b) /\ Len(bc) = Len(b) + Len(c)
      /\ Len(l) = Len(ab) + Len(c)
  BY <1>1, <1>2 DEF Joined
<1>4. Len(l) = Len(a) + Len(bc)
  BY <1>3
<1>5. ASSUME NEW i \in 1 .. Len(a)
      PROVE  l[i] = a[i]
  <2>1. i \in 1 .. Len(ab)
    BY <1>3
  <2> QED
    BY <1>1, <1>2, <2>1 DEF Joined
<1>6. ASSUME NEW i \in 1 .. Len(bc)
      PROVE  l[Len(a) + i] = bc[i]
  <2>1. CASE i <= Len(b)
    <3>1. i \in 1 .. Len(b) /\ Len(a) + i \in 1 .. Len(ab)
      BY <1>3, <2>1
    <3> QED
      BY <1>1, <1>2, <3>1 DEF Joined
  <2>2. CASE i > Len(b)
    <3> PICK j : j = i - Len(b)
      OBVIOUS
    <3>1. j \in 1 .. Len(c) /\ Len(ab) + j = Len(a) + i /\ Len(b) + j = i
      BY <1>3, <2>2
    <3>2. l[Len(ab) + j] = c[j] /\ bc[Len(b) + j] = c[j]
      BY <1>1, <1>2, <3>1 DEF Joined
    <3> QED
      BY <3>1, <3>2
  <2> QED
    BY <1>3, <2>1, <2>2
<1>7. Joined(l, a, bc)
  BY <1>4, <1>5, <1>6 DEF Joined
<1>8. l = r
  BY <1>1, <1>2, <1>7, JoinedIsOne
<1> QED
  BY <1>8 DEF l, r, ab, bc

LEMMA TextsConcat == \A a, b, c \in Seq(Bytes) : a \o (b \o c) = (a \o b) \o c
BY ConcatThree

LEMMA ConcatNone ==
  ASSUME NEW M, NEW a \in Seq(M)
  PROVE  a \o <<>> = a /\ <<>> \o a = a
OBVIOUS

LEMMA TextTyped ==
  ASSUME NEW x \in Units
  PROVE  TextOf(x) \in Seq(Bytes)
<1>1. "c" \in Bytes /\ "NOP" \in Bytes /\ "IAC" \in Bytes
  BY DEF Bytes
<1>2. <<"c">> \in Seq(Bytes) /\ <<"NOP">> \in Seq(Bytes) /\ <<"IAC">> \in Seq(Bytes)
      /\ <<>> \in Seq(Bytes)
  BY <1>1, TupleIn
<1>3. TextOf(x) \in {<<"c">>, <<"NOP">>, <<"IAC">>, <<>>}
  BY Zenon DEF TextOf
<1> QED
  BY <1>2, <1>3, Zenon

LEMMA MeaningMore ==
  ASSUME NEW s \in Seq(Units), NEW x \in Units
  PROVE  /\ Meaning(s) \in Seq(Bytes)
         /\ Meaning(Append(s, x)) = Meaning(s) \o TextOf(x)
<1> DEFINE g == [i \in DOMAIN s |-> TextOf(s[i])]
           h == [i \in DOMAIN Append(s, x) |-> TextOf(Append(s, x)[i])]
<1>1. /\ Len(s) \in Nat /\ DOMAIN s = 1 .. Len(s) /\ DOMAIN Append(s, x) = 1 .. Len(s) + 1
      /\ \A i \in 1 .. Len(s) : Append(s, x)[i] = s[i] /\ s[i] \in Units
      /\ Append(s, x)[Len(s) + 1] = x
  OBVIOUS
<1>2. TextOf(x) \in Seq(Bytes) /\ \A i \in 1 .. Len(s) : TextOf(s[i]) \in Seq(Bytes)
  BY <1>1, TextTyped
<1>3. g \in Seq(Seq(Bytes)) /\ Len(g) = Len(s)
  BY <1>1, <1>2
<1>4. h = Append(g, TextOf(x))
  <2> DEFINE k == Append(g, TextOf(x))
  <2>1. DOMAIN h = 1 .. Len(s) + 1 /\ DOMAIN k = 1 .. Len(s) + 1
    BY <1>1, <1>3
  <2>2. ASSUME NEW i \in 1 .. Len(s) + 1
        PROVE  h[i] = k[i]
    BY <1>1, <1>3
  <2>3. h = [i \in 1 .. Len(s) + 1 |-> h[i]] /\ k = [i \in 1 .. Len(s) + 1 |-> k[i]]
    BY <1>1, <1>3, <2>1
  <2> HIDE DEF h, k
  <2>4. h = k
    BY <2>2, <2>3
  <2> QED
    BY <2>4 DEF k
<1> HIDE DEF g, h
<1>5. FlattenSeq(g) \in Seq(Bytes) /\ FlattenSeq(Append(g, TextOf(x))) = FlattenSeq(g) \o TextOf(x)
  BY <1>2, <1>3, FlattenMore
<1>6. Meaning(s) = FlattenSeq(g) /\ Meaning(Append(s, x)) = FlattenSeq(h)
  BY Zenon DEF Meaning, g, h
<1> QED
  BY <1>4, <1>5, <1>6

(***************************************************************************)
(* A chunk of whole units.                                                 *)
(***************************************************************************)
\* h is what is left to return and to post when the units s of t are done.
Leads(s, h, t) ==
    /\ h.end \in {"ok", "compress"}
    /\ Meaning(s) \o h.text = Meaning(t)
    /\ \A m : MachineOK(m) /\ Good(m, s) => Good(Folded(m, h.events), t)

LEMMA LeadsHome ==
  ASSUME NEW t \in Seq(Units), NEW how \in {"ok", "compress"}
  PROVE  Leads(t, Ends(how), t)
<1>1. Ends(how).end = how /\ Ends(how).text = <<>> /\ Ends(how).events = <<>>
  BY DEF Ends
<1>2. Meaning(t) \o <<>> = Meaning(t)
  <2>1. PICK x \in Units : TRUE
    BY Zenon DEF Units
  <2>2. Meaning(t) \in Seq(Bytes)
    BY <2>1, MeaningMore
  <2> QED
    BY <2>2, ConcatNone
<1>3. \A m : Folded(m, <<>>) = m
  BY FoldNone
<1> QED
  BY <1>1, <1>2, <1>3 DEF Leads

\* One event, and then the rest of the chunk.
LEMMA LeadsPast ==
  ASSUME NEW s \in Seq(Units), NEW z \in Seq(Units), NEW t, NEW there \in Parts,
         NEW e \in Events, Leads(z, there, t), Meaning(z) = Meaning(s),
         \A m : MachineOK(m) /\ Good(m, s) => Good(Dispatch(m, e), z)
  PROVE  Leads(s, Event(e, there), t)
<1> DEFINE here == Event(e, there)
<1>1. /\ here.end = there.end /\ here.text = there.text
      /\ here.events = <<e>> \o there.events /\ there.events \in Seq(Events)
  BY DEF Event, Parts
<1> HIDE DEF here
<1>2. ASSUME NEW m, MachineOK(m), Good(m, s)
      PROVE  Good(Folded(m, here.events), t)
  <2>1. Folded(m, here.events) = Folded(Dispatch(m, e), there.events)
    BY <1>1, FoldFirst
  <2>2. MachineOK(Dispatch(m, e)) /\ Good(Dispatch(m, e), z)
    BY <1>2, DispatchKeeps
  <2> QED
    BY <2>1, <2>2 DEF Leads
<1>3. Leads(s, here, t)
  BY <1>1, <1>2 DEF Leads
<1> QED
  BY <1>3 DEF here

\* One unit, and then the rest of the chunk; behind the marker nothing is read.
LEMMA LeadsOn ==
  ASSUME NEW s \in Seq(Units), NEW x \in Units, NEW t, NEW here, NEW there \in Parts,
         Reads(x, here, there), Leads(Append(s, x), there, t),
         x = Marker => t = Append(s, x)
  PROVE  Leads(s, here, t)
<1> DEFINE z == Append(s, x)
<1>1. z \in Seq(Units)
  OBVIOUS
<1>2. /\ Meaning(s) \in Seq(Bytes) /\ TextOf(x) \in Seq(Bytes)
      /\ Meaning(z) = Meaning(s) \o TextOf(x)
  BY MeaningMore, TextTyped
<1>3. TextOf(x) = <<>> => Meaning(z) = Meaning(s)
  BY <1>2, ConcatNone
<1>4. Plain(x) => \A m : Good(m, s) => Good(m, z)
  BY GoodPlain
<1>5. \A m, e : MachineOK(m) /\ Good(m, z)
                /\ e \in {<<"TTYPE">>, <<"GMCPTRIGGERED">>}
                => Good(Dispatch(m, e), z)
  BY <1>1, GoodPost
<1>6. Leads(z, there, t)
  OBVIOUS
<1> HIDE DEF z
<1>7. CASE Plain(x) /\ TextOf(x) = <<>> /\ here = there
  BY <1>3, <1>4, <1>6, <1>7 DEF Leads
<1>8. CASE Plain(x) /\ \E b \in Bytes : TextOf(x) = <<b>> /\ here = Put(b, there)
  <2>1. PICK b \in Bytes : TextOf(x) = <<b>> /\ here = Put(b, there)
    BY <1>8
  <2> DEFINE y == TextOf(x)
  <2>2. /\ here.end = there.end /\ here.text = y \o there.text
        /\ here.events = there.events /\ there.text \in Seq(Bytes)
    BY <2>1 DEF Put, Parts
  <2>6. y \in Seq(Bytes)
    BY <1>2
  <2> HIDE DEF y
  <2>3. Meaning(s) \o (y \o there.text) = (Meaning(s) \o y) \o there.text
    <3> PICK a \in Seq(Bytes), c \in Seq(Bytes) : a = Meaning(s) /\ c = there.text
      BY <1>2, <2>2
    <3>1. a \o (y \o c) = (a \o y) \o c
      BY <2>6, TextsConcat, Zenon
    <3> QED
      BY <3>1
  <2>4. Meaning(s) \o here.text = Meaning(t)
    BY <1>2, <1>6, <2>2, <2>3 DEF Leads, y
  <2>5. \A m : MachineOK(m) /\ Good(m, s) => Good(Folded(m, here.events), t)
    BY <1>4, <1>6, <1>8, <2>2 DEF Leads
  <2> QED
    BY <1>6, <2>2, <2>4, <2>5 DEF Leads
<1>9. CASE /\ Plain(x) /\ TextOf(x) = <<>>
           /\ \E e \in {<<"TTYPE">>, <<"GMCPTRIGGERED">>} : here = Event(e, there)
  <2>1. PICK e \in {<<"TTYPE">>, <<"GMCPTRIGGERED">>} : here = Event(e, there)
    BY <1>9
  <2>2. e \in Events
    BY Zenon DEF Events
  <2>3. \A m : MachineOK(m) /\ Good(m, s) => Good(Dispatch(m, e), z)
    BY <1>4, <1>5, <1>9
  <2> QED
    BY <1>1, <1>3, <1>6, <1>9, <2>1, <2>2, <2>3, LeadsPast
<1>10. CASE /\ x = <<"BELL">> /\ TextOf(x) = <<>>
            /\ here = Event(<<"BELL">>, there)
  <2>1. PICK e \in Events : e = <<"BELL">>
    BY Zenon DEF Events
  <2>2. ASSUME NEW m, MachineOK(m), Good(m, s)
        PROVE  Good(Dispatch(m, e), z)
    BY <1>10, <2>1, <2>2, GoodBell DEF z
  <2> QED
    BY <1>1, <1>3, <1>6, <1>10, <2>1, <2>2, LeadsPast
<1>11. CASE \E a \in Actions, o \in Options :
              /\ x = <<"IAC", a, o>> /\ TextOf(x) = <<>>
              /\ here = Event(<<a, o>>, there)
  <2>1. PICK a \in Actions, o \in Options :
              /\ x = <<"IAC", a, o>> /\ TextOf(x) = <<>>
              /\ here = Event(<<a, o>>, there)
    BY <1>11
  <2>2. x = Offer(a, o)
    BY <2>1 DEF Offer
  <2>3. o \in Bytes
    BY BytesAre
  <2>4. PICK e \in Events : e = <<a, o>>
    BY <2>3, CommandIsEvent
  <2>5. ASSUME NEW m, MachineOK(m), Good(m, s)
        PROVE  Good(Dispatch(m, e), z)
    BY <2>2, <2>4, <2>5, GoodOffer DEF z
  <2> QED
    BY <1>1, <1>3, <1>6, <2>1, <2>4, <2>5, LeadsPast
<1>12. CASE /\ x = Marker /\ Plain(x) /\ TextOf(x) = <<>>
            /\ here = Ends("compress")
  <2>1. t = z
    BY <1>12 DEF z
  <2>2. here.end = "compress" /\ here.text = <<>> /\ here.events = <<>>
    BY <1>12 DEF Ends
  <2>3. Meaning(s) \o <<>> = Meaning(z)
    BY <1>2, <1>3, <1>12, ConcatNone
  <2>4. \A m : MachineOK(m) /\ Good(m, s) => Good(Folded(m, <<>>), z)
    BY <1>4, <1>12, FoldNone
  <2> QED
    BY <2>1, <2>2, <2>3, <2>4 DEF Leads
<1> QED
  BY <1>7, <1>8, <1>9, <1>10, <1>11, <1>12 DEF Reads

\* Where the unit behind the u-th is in a chunk that begins behind the p-th.
Pos(p, u) == Len(Wire(u)) - Len(Wire(p)) + 1
Whole(u)  == [unit |-> u, byte |-> 0]

LEMMA FineIs ==
  ASSUME NEW x, Fine(x)
  PROVE  x \in Seq(Bytes) /\ Len(x) \in Nat /\ Len(x) > 0
BY DEF Fine

LEMMA UnitPlace ==
  ASSUME stream \in Streams, NEW p \in 0 .. Len(stream), NEW v \in p .. Len(stream),
         NEW d, d = Between(Whole(p), Whole(v)), d # <<>>
  PROVE  /\ d \in Seq(Bytes) /\ Len(d) \in Nat
         /\ Pos(p, p) = 1 /\ Pos(p, v) = Len(d) + 1
         /\ \A u \in p .. v - 1 : /\ UnitAt(d, Pos(p, u), stream[u + 1])
                                  /\ Pos(p, u + 1) = Pos(p, u) + Len(stream[u + 1])
                                  /\ Pos(p, u) \in Nat /\ stream[u + 1] \in Units
                                  /\ Len(stream[u + 1]) \in Nat
<1> DEFINE N == Len(stream)
           all == Wire(N)
<1>1. N \in Nat /\ p \in Nat /\ v \in Nat /\ p <= v /\ v <= N
  BY StreamIs
<1>2. Place(Whole(p)) /\ Place(Whole(v)) /\ Whole(p).unit = p /\ Whole(v).unit = v
      /\ Whole(p).byte = 0 /\ Whole(v).byte = 0
  BY <1>1 DEF Place, Whole
<1>3. \A u \in 0 .. N : Wire(u) \in Seq(Bytes) /\ Len(Wire(u)) \in Nat
  BY WireMore
<1>4. Len(Before(Whole(p))) = Len(Wire(p)) /\ Len(Before(Whole(v))) = Len(Wire(v))
  <2>1. Len(Before(Whole(p))) = Len(Wire(p)) + 0 /\ Len(Before(Whole(v))) = Len(Wire(v)) + 0
    BY <1>2, BeforeIs
  <2> QED
    BY <1>1, <1>3, <2>1
<1>5. /\ d \in Seq(Bytes) /\ Len(d) = Len(Wire(v)) - Len(Wire(p))
      /\ \A i \in 1 .. Len(d) : d[i] = all[Len(Wire(p)) + i]
  <2> DEFINE P == Whole(p)
             V == Whole(v)
  <2>1. Place(P) /\ Place(V) /\ d = Between(P, V) /\ Between(P, V) # <<>>
    BY <1>2
  <2>2. Len(Before(P)) = Len(Wire(p)) /\ Len(Before(V)) = Len(Wire(v))
    BY <1>4
  <2> HIDE DEF P, V
  <2>3. /\ d \in Seq(Bytes) /\ Len(d) = Len(Before(V)) - Len(Before(P))
        /\ \A i \in 1 .. Len(d) : d[i] = all[Len(Before(P)) + i]
    BY <2>1, BetweenIs
  <2> QED
    BY <2>2, <2>3
<1>6. Len(d) \in Nat /\ Pos(p, p) = 1 /\ Pos(p, v) = Len(d) + 1
  BY <1>1, <1>3, <1>5 DEF Pos
<1>7. ASSUME NEW u \in p .. v - 1
      PROVE  /\ UnitAt(d, Pos(p, u), stream[u + 1])
             /\ Pos(p, u + 1) = Pos(p, u) + Len(stream[u + 1])
             /\ Pos(p, u) \in Nat /\ stream[u + 1] \in Units
             /\ Len(stream[u + 1]) \in Nat
  <2> DEFINE x == stream[u + 1]
             a == Wire(p)
             b == Wire(u)
             c == Wire(u + 1)
             w == Wire(v)
  <2>1. /\ u \in 0 .. N /\ u < N /\ u + 1 \in 0 .. N /\ u \in p .. N
        /\ v \in u + 1 .. N /\ N \in u + 1 .. N /\ v \in 0 .. N /\ u + 1 \in u .. N
    BY <1>1
  <2>2. c = b \o x /\ x \in Units /\ Fine(x) /\ b \in Seq(Bytes)
    BY <2>1, WireMore
  <2>3. x \in Seq(Bytes) /\ Len(x) \in Nat /\ Len(x) > 0
    BY <2>2, FineIs
  <2>4. Prefixed(a, b) /\ Prefixed(c, w) /\ Prefixed(c, all)
    BY <1>1, <2>1, WireGrows
  <2>5. Len(a) \in Nat /\ Len(b) \in Nat /\ Len(c) \in Nat /\ Len(w) \in Nat
    BY <1>1, <1>3, <2>1
  <2>6. Len(d) = Len(w) - Len(a) /\ \A i \in 1 .. Len(d) : d[i] = all[Len(a) + i]
    BY <1>5
  <2>7. Joined(c, b, x)
    BY <2>2, <2>3, ConcatIs
  <2>8. Pos(p, u) = Len(b) - Len(a) + 1 /\ Pos(p, u + 1) = Len(c) - Len(a) + 1
    BY DEF Pos
  <2> HIDE DEF x, a, b, c, w, all, N
  <2>9. /\ Len(c) = Len(b) + Len(x) /\ Len(a) <= Len(b) /\ Len(c) <= Len(w)
        /\ \A i \in 1 .. Len(x) : c[Len(b) + i] = x[i]
        /\ \A i \in 1 .. Len(c) : c[i] = all[i]
    BY <2>4, <2>7 DEF Joined, Prefixed
  <2> PICK k : k = Len(b) - Len(a) + 1
    OBVIOUS
  <2>10. k \in 1 .. Len(d) /\ k + Len(x) <= Len(d) + 1
    BY <2>3, <2>5, <2>6, <2>9
  <2>11. ASSUME NEW i \in 1 .. Len(x)
         PROVE  d[k + i - 1] = x[i]
    <3> PICK j : j = k + i - 1
      OBVIOUS
    <3>1. j \in 1 .. Len(d) /\ Len(a) + j = Len(b) + i /\ Len(b) + i \in 1 .. Len(c)
      BY <2>3, <2>5, <2>6, <2>9
    <3>2. d[j] = all[Len(a) + j] /\ c[Len(b) + i] = all[Len(b) + i]
      BY <2>6, <2>9, <3>1
    <3> QED
      BY <2>9, <3>1, <3>2
  <2>12. Len(c) - Len(a) + 1 = k + Len(x) /\ k \in Nat
    BY <2>3, <2>5, <2>9
  <2>13. UnitAt(d, Pos(p, u), x) /\ Pos(p, u + 1) = Pos(p, u) + Len(x) /\ Pos(p, u) \in Nat
    BY <2>8, <2>10, <2>11, <2>12 DEF UnitAt
  <2> QED
    BY <2>2, <2>3, <2>13 DEF x
<1> QED
  BY <1>5, <1>6, <1>7

\* The third byte of a subnegotiation is its option.
LEMMA SubThird ==
  ASSUME NEW o \in Bytes, NEW p \in Seq(Bytes), NEW n \in Nat, Len(p) = n
  PROVE  Sub(o, p)[3] = o
BY SubIs, Zenon

\* The marker is the last unit the code reads.
LEMMA MarkerLast ==
  ASSUME stream \in Streams, NEW u \in 0 .. Len(stream), u < Len(stream),
         stream[u + 1] = Marker
  PROVE  u + 1 = Len(stream)
<1>1. Len(stream) \in Nat
  BY StreamIs
<1>2. CASE \A i \in 1 .. Len(stream) - 1 : stream[i] # Marker
  <2>1. u + 1 \notin 1 .. Len(stream) - 1
    BY <1>2
  <2> QED
    BY <1>1, <2>1
<1>3. CASE stream \in {[i \in 1 .. n |-> Sub("TTYPE", <<"SEND">>)] : n \in 1 .. MaxAsked}
  <2> DEFINE x == Sub("TTYPE", <<"SEND">>)
  <2>1. PICK n \in 1 .. MaxAsked : stream = [i \in 1 .. n |-> x]
    BY <1>3, Zenon
  <2>2. n \in Nat /\ Sub("TTYPE", <<"SEND">>) # Marker
    <3>1. "TTYPE" \in Bytes /\ "MCCP" \in Bytes
      BY BytesAre, Zenon DEF Options
    <3>2. PICK q : q = Sub("TTYPE", <<"SEND">>)
      OBVIOUS
    <3>3. q[3] = "TTYPE"
      <4>1. PICK n0 \in Nat, e \in Seq(Bytes) : e = <<"SEND">> /\ Len(e) = n0
        BY Payloads, TwoOfThree
      <4>2. Sub("TTYPE", e)[3] = "TTYPE"
        BY <3>1, <4>1, SubThird, Zenon
      <4> QED
        BY <3>2, <4>1, <4>2, Zenon
    <3>4. Marker[3] = "MCCP"
      <4>1. PICK n0 \in Nat, e \in Seq(Bytes) : e = <<>> /\ Len(e) = n0
        BY Payloads, Nothing
      <4>2. Sub("MCCP", e)[3] = "MCCP"
        BY <3>1, <4>1, SubThird, Zenon
      <4> QED
        BY <4>1, <4>2, Zenon DEF Marker
    <3>5. q # Marker
      BY <3>3, <3>4
    <3> QED
      BY <3>2, <3>5, TelnetAssumption
  <2> HIDE DEF x
  <2>3. stream[u + 1] = x
    <3>1. Len(stream) = n /\ u + 1 \in 1 .. n
      BY <1>1, <2>1, <2>2
    <3> QED
      BY <2>1, <3>1
  <2> QED
    BY <2>2, <2>3 DEF x
<1> QED
  BY <1>2, <1>3, Zenon DEF Streams

\* The units that have been read when u of them have.
First(u) == SubSeq(stream, 1, u)

LEMMA FirstIs ==
  ASSUME stream \in Streams, NEW u \in 0 .. Len(stream)
  PROVE  /\ First(u) \in Seq(Units)
         /\ u < Len(stream) => First(u + 1) = Append(First(u), stream[u + 1])
<1>1. stream \in Seq(Units)
  BY StreamIs
<1> QED
  BY <1>1, PrefixMore DEF First

\* Only a character is one byte.
LEMMA OneByte ==
  ASSUME NEW x \in Units, x \notin Odd, Len(x) = 1
  PROVE  x[1] # "IAC"
<1>1. CASE x \in Chars
  BY <1>1 DEF Chars
<1>2. CASE \E a \in Actions, o \in Options : x = <<"IAC", a, o>>
  <2>1. PICK a, o : x = <<"IAC", a, o>>
    BY <1>2
  <2> QED
    BY <2>1
<1>3. CASE x \in {Sub("TTYPE", <<"SEND">>), Sub("GMCP", <<"module", "SPACE", "data">>), Marker}
  <2>1. "TTYPE" \in Bytes /\ "GMCP" \in Bytes /\ "MCCP" \in Bytes
    BY BytesAre, Zenon DEF Options
  <2>2. \E o \in Bytes, p \in Seq(Bytes), n \in Nat : Len(p) = n /\ x = Sub(o, p)
    BY <1>3, <2>1, Payloads, TwoOfThree, Nothing, Zenon DEF Marker
  <2>3. PICK o \in Bytes, p \in Seq(Bytes), n \in Nat : Len(p) = n /\ x = Sub(o, p)
    BY <2>2
  <2>4. Len(x) = n + 5
    BY <2>3, SubIs
  <2> QED
    BY <2>4
<1>4. CASE x \in {<<"IAC", "GOAHEAD">>, <<"IAC", "NOP">>, <<"IAC", "IAC">>}
  <2>1. PICK y : x = <<"IAC", y>>
    BY <1>4
  <2> QED
    BY <2>1
<1> QED
  BY <1>1, <1>2, <1>3, <1>4, UnitIs

LEMMA CharAt ==
  ASSUME NEW d, Len(d) \in Nat, NEW k, NEW x \in Chars, UnitAt(d, k, x)
  PROVE  k \in Nat /\ k <= Len(d) /\ d[k] \in {"c", "CARRIAGE", "BELL"}
<1>1. Len(x) = 1 /\ x[1] \in {"c", "CARRIAGE", "BELL"}
  BY DEF Chars
<1>2. k \in 1 .. Len(d) /\ 1 \in 1 .. Len(x)
  BY <1>1 DEF UnitAt
<1>3. d[k + 1 - 1] = x[1] /\ k + 1 - 1 = k
  BY <1>2 DEF UnitAt
<1> QED
  BY <1>1, <1>2, <1>3

\* A chunk of whole units that the code can read: its text and its events are those
\* of the units.
LEMMA ChunkLeads ==
  ASSUME stream \in Streams, NEW p \in 0 .. Len(stream), NEW v \in p .. Len(stream),
         NEW d, d = Between(Whole(p), Whole(v)), d # <<>>, Decodable(Whole(p), Whole(v)),
         NEW f, Scans(d, f)
  PROVE  Leads(First(p), f[1], First(v))
<1>1. /\ d \in Seq(Bytes) /\ Len(d) \in Nat
      /\ Pos(p, p) = 1 /\ Pos(p, v) = Len(d) + 1
      /\ \A u \in p .. v - 1 : /\ UnitAt(d, Pos(p, u), stream[u + 1])
                               /\ Pos(p, u + 1) = Pos(p, u) + Len(stream[u + 1])
                               /\ Pos(p, u) \in Nat /\ stream[u + 1] \in Units
                               /\ Len(stream[u + 1]) \in Nat
  BY UnitPlace
<1>2. Len(stream) \in Nat /\ p \in Nat /\ v \in Nat /\ p <= v /\ v <= Len(stream)
  BY StreamIs
<1>3. \A i \in p + 1 .. v : /\ stream[i] \notin Odd
                            /\ stream[i] = <<"IAC", "IAC">> => i < v /\ stream[i + 1] \in Chars
  BY DEF Decodable, Whole
<1>4. \A i \in 1 .. Len(d) + 1 : f[i] \in Parts
  <2> PICK n : n = Len(d)
    OBVIOUS
  <2> QED
    BY <1>1, ScanTyped
<1> DEFINE Good1(u) == Leads(First(u), f[Pos(p, u)], First(v))
           Bad == {k \in 0 .. v - p : ~Good1(v - k)}
<1>5. ASSUME Bad # {}
      PROVE  FALSE
  <2>1. PICK k \in Bad : \A y \in Bad : k <= y
    <3>1. Bad \in SUBSET Nat
      OBVIOUS
    <3> QED
      BY <1>5, <3>1, Least
  <2>2. PICK u : u = v - k
    OBVIOUS
  <2>3. u \in p .. v /\ u \in 0 .. Len(stream) /\ ~Good1(u)
    BY <1>2, <2>1, <2>2
  <2>4. CASE u = v
    <3>1. f[Len(d) + 1] = Ends("ok")
      <4>1. f[Len(d) + 1] = ScanStep(d, Len(d) + 1, f)
        BY <1>1 DEF Scans
      <4>2. Len(d) + 1 > Len(d) /\ ~(Len(d) + 1 <= Len(d))
        BY <1>1
      <4> QED
        BY <4>1, <4>2 DEF ScanStep
    <3>2. First(v) \in Seq(Units)
      BY <2>3, <2>4, FirstIs
    <3>3. Leads(First(v), Ends("ok"), First(v))
      BY <3>2, LeadsHome
    <3> QED
      BY <1>1, <2>3, <2>4, <3>1, <3>3
  <2>5. CASE u # v
    <3>1. /\ u \in p .. v - 1 /\ u + 1 \in p + 1 .. v /\ k - 1 \in 0 .. v - p
          /\ v - (k - 1) = u + 1 /\ ~(k <= k - 1) /\ u < Len(stream)
      BY <1>2, <2>1, <2>2, <2>3, <2>5
    <3>2. Good1(u + 1)
      BY <2>1, <3>1
    <3> DEFINE x == stream[u + 1]
               i == Pos(p, u)
    <3>3. /\ UnitAt(d, i, x) /\ Pos(p, u + 1) = i + Len(x) /\ i \in Nat /\ x \in Units
          /\ Len(x) \in Nat
      BY <1>1, <3>1
    <3>4. x \notin Odd /\ (x = <<"IAC", "IAC">> => u + 1 < v /\ stream[u + 1 + 1] \in Chars)
      BY <1>3, <3>1
    <3>5. First(u) \in Seq(Units) /\ First(u + 1) = Append(First(u), x)
      BY <2>3, <3>1, FirstIs
    <3>6. x = Marker => First(v) = Append(First(u), x)
      <4> HAVE x = Marker
      <4>1. u + 1 = Len(stream)
        BY <2>3, <3>1, MarkerLast
      <4>2. v = u + 1
        BY <1>2, <3>1, <4>1
      <4> QED
        BY <3>5, <4>2
    <3> HIDE DEF x
    <3>7. x = <<"IAC", "IAC">> => i + 2 <= Len(d) /\ d[i + 2] \in {"c", "CARRIAGE", "BELL"}
      <4> HAVE x = <<"IAC", "IAC">>
      <4>1. Len(x) = 2
        OBVIOUS
      <4> PICK w : w = u + 1
        OBVIOUS
      <4>2. w \in p .. v - 1 /\ stream[w + 1] \in Chars /\ Pos(p, w) = i + 2
        BY <1>2, <3>1, <3>3, <3>4, <4>1
      <4>3. UnitAt(d, Pos(p, w), stream[w + 1])
        BY <1>1, <4>2
      <4>4. Pos(p, w) <= Len(d) /\ d[Pos(p, w)] \in {"c", "CARRIAGE", "BELL"}
        BY <1>1, <4>2, <4>3, CharAt
      <4> QED
        BY <4>2, <4>4
    <3>8. Reads(x, f[i], f[i + Len(x)])
      BY <1>1, <3>3, <3>4, <3>7, UnitScan
    <3>9. i + Len(x) \in 1 .. Len(d) + 1
      BY <1>1, <3>3 DEF UnitAt
    <3>10. f[i + Len(x)] \in Parts
      BY <1>4, <3>9
    <3>11. Leads(Append(First(u), x), f[i + Len(x)], First(v))
      BY <3>2, <3>3, <3>5
    <3>12. Leads(First(u), f[i], First(v))
      BY <3>3, <3>5, <3>6, <3>8, <3>10, <3>11, LeadsOn
    <3> QED
      BY <2>3, <3>12
  <2> QED
    BY <2>4, <2>5
<1>6. Good1(p)
  <2>1. v - p \in 0 .. v - p /\ v - (v - p) = p
    BY <1>2
  <2>2. v - p \notin Bad
    BY <1>5
  <2> HIDE DEF Good1
  <2> QED
    BY <2>1, <2>2
<1> QED
  BY <1>1, <1>6

\* What rawProcess returns of such a chunk is what its loop returns.
LEMMA ChunkRead ==
  ASSUME stream \in Streams, NEW p \in 0 .. Len(stream), NEW v \in p .. Len(stream),
         Between(Whole(p), Whole(v)) # <<>>, Decodable(Whole(p), Whole(v))
  PROVE  Leads(First(p), RawProcess(Between(Whole(p), Whole(v))), First(v))
<1> DEFINE d == Between(Whole(p), Whole(v))
<1>1. /\ d \in Seq(Bytes) /\ Len(d) \in Nat
      /\ Pos(p, p) = 1 /\ Pos(p, v) = Len(d) + 1
      /\ \A u \in p .. v - 1 : UnitAt(d, Pos(p, u), stream[u + 1])
                               /\ stream[u + 1] \in Units /\ Len(stream[u + 1]) \in Nat
  BY UnitPlace
<1>2. Len(stream) \in Nat /\ p \in Nat /\ v \in Nat /\ p <= v
  BY StreamIs
<1>3. \A i \in p + 1 .. v : stream[i] \notin Odd
  BY DEF Decodable, Whole
<1>4. d # <<>>
  OBVIOUS
<1> HIDE DEF d
<1> PICK n : n = Len(d)
  OBVIOUS
<1>5. PICK f : Scans(d, f) /\ RawProcess(d) = IF d = <<"IAC">> THEN Ends("ok") ELSE f[1]
  BY <1>1, ScanIs
<1>6. d # <<"IAC">>
  <2> SUFFICES ASSUME d = <<"IAC">>
               PROVE  FALSE
    OBVIOUS
  <2>1. Len(d) = 1 /\ d[1] = "IAC"
    OBVIOUS
  <2>2. p # v
    BY <1>1, <2>1
  <2>3. p \in p .. v - 1 /\ p + 1 \in p + 1 .. v
    BY <1>2, <2>2
  <2> DEFINE x == stream[p + 1]
  <2>4. UnitAt(d, 1, x) /\ x \in Units /\ Len(x) \in Nat /\ x \notin Odd
    BY <1>1, <1>3, <2>3
  <2>5. Len(x) > 0
    BY <2>4, UnitTyped, FineIs
  <2> HIDE DEF x
  <2>6. Len(x) = 1
    <3>1. 1 + Len(x) <= Len(d) + 1
      BY <2>4 DEF UnitAt
    <3> PICK k \in Nat, l \in Nat : k = Len(x) /\ l = Len(d)
      BY <1>1, <2>4
    <3>2. l = 1 /\ k > 0 /\ 1 + k <= l + 1
      BY <2>1, <2>5, <3>1
    <3>3. k = 1
      BY <3>2
    <3> QED
      BY <3>3
  <2>7. d[1] = x[1]
    <3>1. d[1 + 1 - 1] = x[1] /\ 1 + 1 - 1 = 1
      BY <2>4, <2>6 DEF UnitAt
    <3> QED
      BY <3>1
  <2> QED
    BY <2>1, <2>4, <2>6, <2>7, OneByte
<1>7. Leads(First(p), f[1], First(v))
  BY <1>4, <1>5, ChunkLeads DEF d
<1>8. RawProcess(d) = f[1]
  BY <1>5, <1>6
<1> QED
  BY <1>7, <1>8 DEF d

(***************************************************************************)
(* DecodesStream and AnswersInOrder.                                       *)
(***************************************************************************)
CalmInv ==
    calm => /\ at = Whole(at.unit)
            /\ end \in {"ok", "compress"}
            /\ text = Meaning(Delivered)
            /\ Good(Machine, Delivered)

LEMMA InitCalm == Init => CalmInv
<1> SUFFICES ASSUME Init PROVE CalmInv
  OBVIOUS
<1>1. /\ stream \in Streams /\ at = [unit |-> 0, byte |-> 0] /\ text = <<>> /\ bells = 0
      /\ out = <<>> /\ end = "ok"
  BY DEF Init
<1>2. at = Whole(at.unit)
  BY <1>1 DEF Whole
<1>3. Delivered = <<>>
  <2>1. stream \in Seq(Units)
    BY <1>1, StreamIs
  <2>2. SubSeq(stream, 1, 0) = <<>>
    BY <2>1, PrefixMore
  <2> QED
    BY <1>1, <2>2 DEF Delivered
<1>4. Meaning(<<>>) = <<>>
  <2>1. [i \in DOMAIN <<>> |-> TextOf(<<>>[i])] = <<>>
    OBVIOUS
  <2> QED
    BY <2>1 DEF Meaning, FlattenSeq
<1>5. Machine.bells = 0 /\ Machine.now = <<>>
  BY <1>1 DEF Machine
<1>6. Matched(<<>>, <<>>)
  <2>1. Offers(<<>>) = {}
    BY DEF Offers
  <2> QED
    BY <2>1 DEF Matched
<1>7. Good(Machine, <<>>)
  BY <1>5, <1>6, CountNone DEF Good
<1> QED
  BY <1>1, <1>2, <1>3, <1>4, <1>7 DEF CalmInv

LEMMA StepCalm == TelnetInv /\ TelnetInv' /\ CalmInv /\ [Next]_vars => CalmInv'
<1> SUFFICES ASSUME TelnetInv, TelnetInv', CalmInv, [Next]_vars, calm'
             PROVE  /\ at' = Whole(at'.unit)
                    /\ end' \in {"ok", "compress"}
                    /\ text' = Meaning(Delivered')
                    /\ Good(Machine', Delivered')
  <2>1. Good(Machine', Delivered') <=> Good(Machine, Delivered)'
    BY DEF Good, Matched, Offers, IsOffer, Rank, Answers, CountIn
  <2>2. Meaning(Delivered') = Meaning(Delivered)'
    BY DEF Meaning, TextOf
  <2>3. Whole(at'.unit) = Whole(at.unit)'
    BY DEF Whole
  <2> QED
    BY <2>1, <2>2, <2>3, Zenon DEF CalmInv
<1>1. CASE Deliver
  <2>a. PICK u \in at.unit .. Len(stream) : \E b \in 0 .. LastByte(u) : Chunk(u, b)
    BY <1>1, DeliverIs
  <2>1. PICK b \in 0 .. LastByte(u) : Chunk(u, b)
    BY <2>a
  <2> DEFINE q == [unit |-> u, byte |-> b]
             d == Between(at, q)
             r == RawProcess(d)
             m == Folded(Machine, r.events)
  <2>2. /\ d # <<>> /\ at' = q /\ end' = r.end
        /\ text' = IF r.end \in {"ok", "compress"} THEN text \o r.text ELSE text
        /\ negotiator' = m.n /\ out' = m.now /\ later' = m.later /\ bells' = m.bells
        /\ calm /\ Decodable(at, q) /\ stream' = stream
    BY <2>1, Zenon DEF Chunk
  <2>3. stream \in Streams /\ Place(at) /\ MachineOK(Machine)
    BY DEF TelnetInv, TypeOK
  <2>4. /\ at = Whole(at.unit) /\ text = Meaning(Delivered) /\ Good(Machine, Delivered)
    BY <2>2 DEF CalmInv
  <2>5. q = Whole(u)
    BY <2>2 DEF Decodable, Whole
  <2>6. at.unit \in 0 .. Len(stream)
    BY <2>3 DEF Place
  <2>7. Leads(First(at.unit), r, First(u))
    <3>1. d = Between(Whole(at.unit), Whole(u)) /\ Decodable(Whole(at.unit), Whole(u))
      BY <2>2, <2>4, <2>5, Zenon
    <3> QED
      BY <2>2, <2>3, <2>6, <3>1, ChunkRead
  <2> HIDE DEF d, r, q
  <2>8. Delivered = First(at.unit) /\ Delivered' = First(u)
    <3>1. at'.unit = u
      BY <2>2, <2>5 DEF Whole
    <3> QED
      BY <2>2, <3>1, Zenon DEF Delivered, First
  <2>9. end' \in {"ok", "compress"} /\ text' = Meaning(Delivered')
    BY <2>2, <2>4, <2>7, <2>8 DEF Leads
  <2>10. Good(m, First(u))
    BY <2>3, <2>4, <2>7, <2>8 DEF Leads
  <2> HIDE DEF m
  <2>11. Machine'.bells = m.bells /\ Machine'.now = m.now
    BY <2>2 DEF Machine
  <2>12. Good(Machine', Delivered')
    BY <2>8, <2>10, <2>11 DEF Good
  <2>13. at' = Whole(at'.unit)
    BY <2>2, <2>5 DEF Whole
  <2> QED
    BY <2>9, <2>12, <2>13
<1>2. CASE Due
  <2>1. Machine'.now = Machine.now /\ Machine'.bells = Machine.bells /\ Delivered' = Delivered
        /\ at' = at /\ end' = end /\ text' = text /\ calm
    BY <1>2 DEF Due, Machine, Delivered
  <2> QED
    BY <2>1 DEF CalmInv, Good
<1>3. CASE UNCHANGED vars
  <2>1. Machine' = Machine /\ Delivered' = Delivered /\ at' = at /\ end' = end /\ text' = text
        /\ calm
    BY <1>3 DEF vars, Machine, Delivered
  <2> QED
    BY <2>1 DEF CalmInv
<1> QED
  BY <1>1, <1>2, <1>3 DEF Next

LEMMA CalmInvariant == Spec => []CalmInv
BY InitCalm, StepCalm, TelnetInvariant, PTL DEF Spec

\* DecodesStream: while no chunk cuts a command, the text and the bells are those of
\* the units, whatever the chunks are, and rawProcess neither crashes nor hangs.
THEOREM StreamDecoded == Spec => []DecodesStream
<1>1. CalmInv => DecodesStream
  BY DEF CalmInv, DecodesStream, Good, Machine
<1> QED
  BY <1>1, CalmInvariant, PTL

\* AnswersInOrder: while no chunk cuts a command, dispatchIAC answers every offer and
\* every request once and in their order.
THEOREM OffersAnswered == Spec => []AnswersInOrder
<1>1. CalmInv => AnswersInOrder
  BY DEF CalmInv, AnswersInOrder, Good, Matched, Machine
<1> QED
  BY <1>1, CalmInvariant, PTL
================================================================================
