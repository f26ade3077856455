------------------------------ MODULE Mccp_proofs ------------------------------
(***************************************************************************)
(* Theorems about Mccp, for streams of any length and for any handler.     *)
(* ShownOnce is not inductive: it needs that every byte read and not yet   *)
(* shown is in at most one message, of the handler's queue or the pump's.  *)
(* InOrder needs that with a prompt handler there is one message at most,  *)
(* and that what it carries comes after everything shown.  OnlyText and    *)
(* LossIsTheLastCall need how a stream is made up and that the threads     *)
(* take turns at it: SInv, in the second half.                             *)
(***************************************************************************)
EXTENDS Mccp, WellFoundedInduction, SequenceTheorems, TLAPS

(***************************************************************************)
(* The inductive invariant, as operators of q, the handler's queue; m, the *)
(* pump's; s, what has been shown; and g, how much has been read.          *)
(***************************************************************************)
Fits(c, g)   == c.lo >= 1 /\ c.hi <= g
Apart(c, d)  == c.hi < c.lo \/ d.hi < d.lo \/ c.hi < d.lo \/ d.hi < c.lo
Clear(s, c)  == \A k \in DOMAIN s : s[k] < c.lo \/ c.hi < s[k]
Behind(s, c) == \A k \in DOMAIN s : c.hi < c.lo \/ s[k] < c.lo

InboxOwns(q, s, g) ==
    /\ \A i \in DOMAIN q : Fits(q[i].data, g) /\ Clear(s, q[i].data)
    /\ \A i, j \in DOMAIN q : i # j => Apart(q[i].data, q[j].data)
MailboxOwns(m, s, g) ==
    /\ \A i \in DOMAIN m : Fits(m[i], g) /\ Clear(s, m[i])
    /\ \A i, j \in DOMAIN m : i # j => Apart(m[i], m[j])
QueuesApart(q, m) == \A i \in DOMAIN q, j \in DOMAIN m : Apart(q[i].data, m[j])
Distinct(s)       == \A i, j \in DOMAIN s : i # j => s[i] # s[j]
\* t is s followed by lo, lo + 1, ..., u.
Shows(t, s, lo, u) ==
    \A k \in DOMAIN t :
        \/ k \in DOMAIN s /\ t[k] = s[k] /\ s[k] \in Nat
        \/ k \in Nat /\ k > Len(s) /\ t[k] = lo + (k - Len(s)) - 1 /\ t[k] \in lo .. u
Read(s, g)        == \A k \in DOMAIN s : s[k] \in 1 .. g

\* Every byte that has been read is in one place at most.
OwnedOnce(q, m, s, g) ==
    InboxOwns(q, s, g) /\ MailboxOwns(m, s, g) /\ QueuesApart(q, m) /\ Distinct(s) /\ Read(s, g)

Increasing(s) == \A i, j \in DOMAIN s : i < j => s[i] < s[j]

\* One message at most, whose bytes follow everything shown.
OneAtATime(q, m, s) ==
    /\ (q = <<>> \/ m = <<>>) /\ Len(q) <= 1 /\ Len(m) <= 1
    /\ Increasing(s)
    /\ \A i \in DOMAIN q : Behind(s, q[i].data)
    /\ \A i \in DOMAIN m : Behind(s, m[i])

Owned   == OwnedOnce(inbox, mailbox, shown, got)
Ordered == prompt => OneAtATime(inbox, mailbox, shown)
IInv    == TypeOK /\ Owned /\ Ordered /\ CorruptedIsPlain

(***************************************************************************)
(* Operators.                                                              *)
(***************************************************************************)
\* A set of naturals that is not empty has a least element, which is its Min.
LEMMA MinIs ==
  ASSUME NEW S \in SUBSET Nat, S # {}
  PROVE  Min(S) \in S /\ \A y \in S : Min(S) <= y
<1>1. PICK x \in S : \A y \in S : ~(<<y, x>> \in OpToRel(<, Nat))
  BY NatLessThanWellFounded, WFMin
<1>2. \A y \in S : x <= y
  <2> TAKE y \in S
  <2>1. ~(<<y, x>> \in {ss \in Nat \X Nat : ss[1] < ss[2]})
    BY <1>1, Zenon DEF OpToRel
  <2> QED
    BY <2>1
<1> QED
  BY <1>2 DEF Min

\* Where First looks.
LEMMA FirstIs ==
  ASSUME NEW kind, NEW lo \in Nat, NEW hi \in Nat
  PROVE  /\ First(kind, lo, hi) \in Nat
         /\ First(kind, lo, hi) \in lo .. hi \/ First(kind, lo, hi) = hi + 1
<1> DEFINE S == {i \in lo .. hi : sent[i] = kind} \union {hi + 1}
<1>1. S \in SUBSET Nat /\ S # {}
  OBVIOUS
<1>2. Min(S) \in S
  BY <1>1, MinIs
<1> QED
  BY <1>1, <1>2 DEF First

\* Run lists a stretch of the stream.
LEMMA RunIs ==
  ASSUME NEW lo \in Nat, NEW u \in Nat
  PROVE  /\ Run(lo, u) \in Seq(Nat)
         /\ \A k \in DOMAIN Run(lo, u) : Run(lo, u)[k] = lo + k - 1 /\ Run(lo, u)[k] \in lo .. u
<1> DEFINE n == IF lo <= u THEN u - lo + 1 ELSE 0
<1>1. n \in Nat /\ \A k \in 1 .. n : lo + k - 1 \in Nat /\ lo + k - 1 \in lo .. u
  OBVIOUS
<1>2. Run(lo, u) = [k \in 1 .. n |-> lo + k - 1]
  BY DEF Run
<1> QED
  BY <1>1, <1>2

\* An element of a concatenation comes from one of its parts.
LEMMA ConcatIs ==
  ASSUME NEW T, NEW s \in Seq(T), NEW t \in Seq(T), NEW k \in DOMAIN (s \o t)
  PROVE  \/ k \in DOMAIN s /\ (s \o t)[k] = s[k]
         \/ /\ k \in Nat /\ k > Len(s) /\ k - Len(s) \in DOMAIN t
            /\ (s \o t)[k] = t[k - Len(s)]
OBVIOUS

\* What is shown after lo..u is: what was, and lo..u.
LEMMA ShownIs ==
  ASSUME NEW s \in Seq(Nat), NEW lo \in Nat, NEW u \in Nat
  PROVE  Shows(s \o Run(lo, u), s, lo, u)
<1> DEFINE r == Run(lo, u)
<1>1. r \in Seq(Nat) /\ \A i \in DOMAIN r : r[i] = lo + i - 1 /\ r[i] \in lo .. u
  BY RunIs
<1> HIDE DEF r
<1> DEFINE t == s \o r
<1> SUFFICES ASSUME NEW k \in DOMAIN t
             PROVE  \/ k \in DOMAIN s /\ t[k] = s[k] /\ s[k] \in Nat
                    \/ k \in Nat /\ k > Len(s) /\ t[k] = lo + (k - Len(s)) - 1 /\ t[k] \in lo .. u
  BY DEF Shows, r
<1>3. \/ k \in DOMAIN s /\ t[k] = s[k]
      \/ k \in Nat /\ k > Len(s) /\ k - Len(s) \in DOMAIN r /\ t[k] = r[k - Len(s)]
  BY <1>1, ConcatIs
<1> HIDE DEF t
<1>4. CASE k \in DOMAIN s /\ t[k] = s[k]
  BY <1>4
<1>5. CASE k \in Nat /\ k > Len(s) /\ k - Len(s) \in DOMAIN r /\ t[k] = r[k - Len(s)]
  BY <1>1, <1>5
<1> QED
  BY <1>3, <1>4, <1>5

\* What Tail leaves, and what Append adds.
LEMMA TailIs ==
  ASSUME NEW T, NEW q \in Seq(T), q # <<>>
  PROVE  /\ Tail(q) \in Seq(T) /\ Head(q) \in T /\ Head(q) = q[1] /\ 1 \in DOMAIN q
         /\ \A i \in DOMAIN Tail(q) : i + 1 \in DOMAIN q /\ i + 1 # 1 /\ Tail(q)[i] = q[i + 1]
OBVIOUS

LEMMA AppendIs ==
  ASSUME NEW T, NEW q \in Seq(T), NEW d \in T
  PROVE  /\ Append(q, d) \in Seq(T)
         /\ \A i \in DOMAIN Append(q, d) : IF i \in DOMAIN q THEN Append(q, d)[i] = q[i]
                                           ELSE i = Len(q) + 1 /\ Append(q, d)[i] = d
OBVIOUS

\* Positions are numbers, and messages carry chunks.
LEMMA Numbers ==
  /\ Positions \subseteq Nat
  /\ \A c \in Chunk : c.lo \in Nat /\ c.hi \in Nat
  /\ \A d \in Message : d.data \in Chunk /\ d.data.lo \in Nat /\ d.data.hi \in Nat
BY MccpAssumption DEF Positions, Chunk, Message

(***************************************************************************)
(* OwnedOnce and OneAtATime under the changes the actions make.            *)
(***************************************************************************)
\* More has been read: a message with nothing but new bytes, or empty, is posted.
LEMMA PostOwned ==
  ASSUME NEW q \in Seq(Message), NEW m \in Seq(Chunk), NEW s \in Seq(Positions),
         NEW g \in Nat, NEW n \in Nat, g <= n, OwnedOnce(q, m, s, g),
         NEW d \in Message, Fits(d.data, n), d.data.lo > g \/ d.data.hi < d.data.lo
  PROVE  OwnedOnce(Append(q, d), m, s, n)
<1> DEFINE a == Append(q, d)
<1>1. \A i \in DOMAIN a : IF i \in DOMAIN q THEN a[i] = q[i] ELSE i = Len(q) + 1 /\ a[i] = d
  BY AppendIs
<1> HIDE DEF a
<1>2. /\ d.data.lo \in Nat /\ d.data.hi \in Nat
      /\ \A i \in DOMAIN q : q[i].data.lo \in Nat /\ q[i].data.hi \in Nat
      /\ \A i \in DOMAIN m : m[i].lo \in Nat /\ m[i].hi \in Nat
      /\ \A k \in DOMAIN s : s[k] \in Nat
  <2>1. /\ \A i \in DOMAIN q : q[i] \in Message
        /\ \A i \in DOMAIN m : m[i] \in Chunk
        /\ \A k \in DOMAIN s : s[k] \in Positions
    OBVIOUS
  <2> QED
    BY <2>1, Numbers
<1>3. Clear(s, d.data)
  BY <1>2 DEF OwnedOnce, Read, Clear, Fits
<1>4. /\ \A i \in DOMAIN q : Fits(q[i].data, n) /\ Apart(q[i].data, d.data) /\ Apart(d.data, q[i].data)
      /\ \A i \in DOMAIN m : Fits(m[i], n) /\ Apart(d.data, m[i])
  BY <1>2 DEF OwnedOnce, InboxOwns, MailboxOwns, Fits, Apart
<1>5. InboxOwns(a, s, n)
  BY <1>1, <1>3, <1>4 DEF OwnedOnce, InboxOwns
<1>6. MailboxOwns(m, s, n)
  BY <1>4 DEF OwnedOnce, MailboxOwns
<1>7. QueuesApart(a, m)
  BY <1>1, <1>4 DEF OwnedOnce, QueuesApart
<1>8. Read(s, n)
  BY <1>2 DEF OwnedOnce, Read
<1> QED
  BY <1>5, <1>6, <1>7, <1>8 DEF OwnedOnce, a

\* The handler's first message is dropped.
LEMMA DropOwned ==
  ASSUME NEW q \in Seq(Message), NEW m \in Seq(Chunk), NEW s \in Seq(Positions),
         NEW g \in Nat, q # <<>>, OwnedOnce(q, m, s, g)
  PROVE  OwnedOnce(Tail(q), m, s, g)
<1>1. \A i \in DOMAIN Tail(q) : i + 1 \in DOMAIN q /\ Tail(q)[i] = q[i + 1]
  BY TailIs
<1>2. \A i, j \in DOMAIN Tail(q) : i # j => i + 1 # j + 1
  OBVIOUS
<1> QED
  BY <1>1, <1>2, Zenon DEF OwnedOnce, InboxOwns, QueuesApart

\* The bytes of a chunk, up to u, are shown: they were in no other place.
LEMMA ShowClear ==
  ASSUME NEW s \in Seq(Nat), NEW c \in Chunk, NEW g \in Nat, NEW u \in Nat, u <= c.hi,
         NEW t, Shows(t, s, c.lo, u), Clear(s, c), Fits(c, g), Distinct(s), Read(s, g)
  PROVE  /\ Distinct(t) /\ Read(t, g)
         /\ \A d \in Chunk : Clear(s, d) /\ Apart(c, d) => Clear(t, d)
<1>1. c.lo \in Nat /\ c.hi \in Nat /\ Len(s) \in Nat
  BY Numbers
<1>2. ASSUME NEW k \in DOMAIN t
      PROVE  \/ k \in DOMAIN s /\ t[k] = s[k] /\ s[k] \in Nat
             \/ /\ k \in Nat /\ k > Len(s)
                /\ t[k] = c.lo + (k - Len(s)) - 1 /\ t[k] \in c.lo .. u
  BY DEF Shows
<1>3. Distinct(t)
  <2> SUFFICES ASSUME NEW i \in DOMAIN t, NEW j \in DOMAIN t, i # j PROVE t[i] # t[j]
    BY DEF Distinct
  <2>1. CASE i \in DOMAIN s /\ j \in DOMAIN s /\ t[i] = s[i] /\ t[j] = s[j]
    BY <2>1 DEF Distinct
  <2>2. \A k \in DOMAIN s : s[k] \in Nat => s[k] < c.lo \/ u < s[k]
    BY <1>1 DEF Clear
  <2>3. CASE i \in DOMAIN s /\ t[i] = s[i] /\ s[i] \in Nat /\ t[j] \in c.lo .. u
    BY <1>1, <2>2, <2>3
  <2>4. CASE j \in DOMAIN s /\ t[j] = s[j] /\ s[j] \in Nat /\ t[i] \in c.lo .. u
    BY <1>1, <2>2, <2>4
  <2>5. CASE /\ i \in Nat /\ j \in Nat
             /\ t[i] = c.lo + (i - Len(s)) - 1 /\ t[j] = c.lo + (j - Len(s)) - 1
    BY <1>1, <2>5
  <2> QED
    BY <1>2, <2>1, <2>3, <2>4, <2>5
<1>4. Read(t, g)
  <2> SUFFICES ASSUME NEW k \in DOMAIN t PROVE t[k] \in 1 .. g
    BY DEF Read
  <2>1. CASE k \in DOMAIN s /\ t[k] = s[k]
    BY <2>1 DEF Read
  <2>2. CASE t[k] \in c.lo .. u
    BY <1>1, <2>2 DEF Fits
  <2> QED
    BY <1>2, <2>1, <2>2
<1>5. ASSUME NEW d \in Chunk, Clear(s, d), Apart(c, d) PROVE Clear(t, d)
  <2>1. d.lo \in Nat /\ d.hi \in Nat
    BY Numbers
  <2> SUFFICES ASSUME NEW k \in DOMAIN t PROVE t[k] < d.lo \/ d.hi < t[k]
    BY DEF Clear
  <2>2. CASE k \in DOMAIN s /\ t[k] = s[k]
    BY <1>5, <2>2 DEF Clear
  <2>3. CASE t[k] \in c.lo .. u
    BY <1>1, <1>5, <2>1, <2>3 DEF Apart
  <2> QED
    BY <1>2, <2>2, <2>3
<1> QED
  BY <1>3, <1>4, <1>5

\* The bytes of the handler's first message, up to u, are shown.
LEMMA ShowOwned ==
  ASSUME NEW q \in Seq(Message), NEW m \in Seq(Chunk), NEW s \in Seq(Positions),
         NEW g \in Nat, q # <<>>, OwnedOnce(q, m, s, g),
         NEW u \in Nat, u <= Head(q).data.hi, NEW t, Shows(t, s, Head(q).data.lo, u)
  PROVE  OwnedOnce(Tail(q), m, t, g)
<1> DEFINE c == Head(q).data
<1>1. /\ c \in Chunk /\ c = q[1].data /\ 1 \in DOMAIN q
      /\ \A i \in DOMAIN Tail(q) : i + 1 \in DOMAIN q /\ i + 1 # 1 /\ Tail(q)[i] = q[i + 1]
  BY TailIs, Numbers
<1>2. s \in Seq(Nat)
  BY Numbers, SeqMonotonic
<1>6. /\ \A i \in DOMAIN q : q[i].data \in Chunk
      /\ \A i \in DOMAIN m : m[i] \in Chunk
  BY Numbers
<1>7. Clear(s, c) /\ Fits(c, g) /\ Distinct(s) /\ Read(s, g)
  BY <1>1 DEF OwnedOnce, InboxOwns
<1>8. /\ Distinct(t) /\ Read(t, g)
      /\ \A d \in Chunk : Clear(s, d) /\ Apart(c, d) => Clear(t, d)
  BY <1>1, <1>2, <1>7, ShowClear
<1>11. InboxOwns(Tail(q), t, g)
  <2>1. ASSUME NEW i \in DOMAIN Tail(q) PROVE Fits(Tail(q)[i].data, g) /\ Clear(t, Tail(q)[i].data)
    BY <1>1, <1>6, <1>8 DEF OwnedOnce, InboxOwns
  <2>2. ASSUME NEW i \in DOMAIN Tail(q), NEW j \in DOMAIN Tail(q), i # j
        PROVE  Apart(Tail(q)[i].data, Tail(q)[j].data)
    <3>1. i + 1 # j + 1
      BY <2>2
    <3> QED
      BY <1>1, <3>1 DEF OwnedOnce, InboxOwns
  <2> QED
    BY <2>1, <2>2 DEF InboxOwns
<1>12. MailboxOwns(m, t, g)
  BY <1>1, <1>6, <1>8 DEF OwnedOnce, QueuesApart, MailboxOwns
<1>13. QueuesApart(Tail(q), m)
  BY <1>1 DEF OwnedOnce, QueuesApart
<1> QED
  BY <1>8, <1>11, <1>12, <1>13 DEF OwnedOnce

\* A part of a chunk is apart from what the chunk is apart from.
Within(d, c) == d.lo >= c.lo /\ d.hi <= c.hi

LEMMA WithinIs ==
  ASSUME NEW d \in Chunk, NEW c \in Chunk, Within(d, c), c.lo >= 1
  PROVE  /\ \A g \in Nat : Fits(c, g) => Fits(d, g)
         /\ \A e \in Chunk : Apart(c, e) => Apart(d, e) /\ Apart(e, d)
         /\ \A s \in Seq(Nat) : Clear(s, c) => Clear(s, d)
<1>1. d.lo \in Nat /\ d.hi \in Nat /\ c.lo \in Nat /\ c.hi \in Nat
  BY Numbers
<1>2. \A g \in Nat : Fits(c, g) => Fits(d, g)
  BY <1>1 DEF Fits, Within
<1>3. ASSUME NEW e \in Chunk, Apart(c, e) PROVE Apart(d, e) /\ Apart(e, d)
  <2>1. e.lo \in Nat /\ e.hi \in Nat
    BY Numbers
  <2> QED
    BY <1>1, <1>3, <2>1 DEF Apart, Within
<1>4. ASSUME NEW s \in Seq(Nat), Clear(s, c) PROVE Clear(s, d)
  <2> SUFFICES ASSUME NEW k \in DOMAIN s PROVE s[k] < d.lo \/ d.hi < s[k]
    BY DEF Clear
  <2>1. s[k] \in Nat
    OBVIOUS
  <2> QED
    BY <1>1, <1>4, <2>1 DEF Clear, Within
<1> QED
  BY <1>2, <1>3, <1>4

\* The rest of the handler's first message comes back as its first message.
LEMMA FrontOwned ==
  ASSUME NEW q \in Seq(Message), NEW m \in Seq(Chunk), NEW t, NEW s \in Seq(Positions),
         NEW g \in Nat, q # <<>>, OwnedOnce(q, m, s, g), OwnedOnce(Tail(q), m, t, g),
         NEW d \in Message, Within(d.data, Head(q).data), Clear(t, d.data)
  PROVE  OwnedOnce(<<d>> \o Tail(q), m, t, g)
<1> DEFINE a == <<d>> \o Tail(q)
           c == Head(q).data
<1>1. /\ c \in Chunk /\ c = q[1].data /\ 1 \in DOMAIN q
      /\ Tail(q) \in Seq(Message)
      /\ \A i \in DOMAIN Tail(q) : i + 1 \in DOMAIN q /\ i + 1 # 1 /\ Tail(q)[i] = q[i + 1]
  BY TailIs, Numbers
<1>2. \A i \in DOMAIN a :
        IF i = 1 THEN a[i] = d ELSE i - 1 \in DOMAIN Tail(q) /\ a[i] = Tail(q)[i - 1]
  <2> HIDE DEF c
  <2> DEFINE b == Tail(q)
  <2>1. b \in Seq(Message)
    BY <1>1
  <2> HIDE DEF b
  <2>2. \A i \in DOMAIN (<<d>> \o b) :
          IF i = 1 THEN (<<d>> \o b)[i] = d
                   ELSE i - 1 \in DOMAIN b /\ (<<d>> \o b)[i] = b[i - 1]
    BY <2>1
  <2> QED
    BY <2>2 DEF b
<1>3. Fits(c, g) /\ c.lo >= 1 /\ d.data \in Chunk
  BY <1>1, Numbers DEF OwnedOnce, InboxOwns, Fits
<1>4. /\ \A i \in DOMAIN Tail(q) : Tail(q)[i].data \in Chunk /\ Apart(c, Tail(q)[i].data)
      /\ \A i \in DOMAIN m : m[i] \in Chunk /\ Apart(c, m[i])
  <2>1. \A i \in DOMAIN q : q[i].data \in Chunk
    BY Numbers
  <2> QED
    BY <1>1, <2>1 DEF OwnedOnce, InboxOwns, QueuesApart
<1> HIDE DEF c
<1>5. /\ Fits(d.data, g)
      /\ \A i \in DOMAIN Tail(q) :
           Apart(d.data, Tail(q)[i].data) /\ Apart(Tail(q)[i].data, d.data)
      /\ \A i \in DOMAIN m : Apart(d.data, m[i])
  BY <1>1, <1>3, <1>4, WithinIs DEF c
<1> HIDE DEF a
<1>6. InboxOwns(a, t, g)
  <2>1. \A i \in DOMAIN a : Fits(a[i].data, g) /\ Clear(t, a[i].data)
    BY <1>2, <1>5 DEF OwnedOnce, InboxOwns
  <2>2. ASSUME NEW i \in DOMAIN a, NEW j \in DOMAIN a, i # j PROVE Apart(a[i].data, a[j].data)
    <3>1. CASE i = 1 \/ j = 1
      BY <1>2, <1>5, <2>2, <3>1
    <3>2. CASE i # 1 /\ j # 1
      <4>1. i - 1 \in DOMAIN Tail(q) /\ j - 1 \in DOMAIN Tail(q) /\ i - 1 # j - 1
        BY <1>1, <1>2, <2>2, <3>2 DEF a
      <4> QED
        BY <1>2, <3>2, <4>1 DEF OwnedOnce, InboxOwns
    <3> QED
      BY <3>1, <3>2
  <2> QED
    BY <2>1, <2>2 DEF InboxOwns
<1>7. QueuesApart(a, m)
  BY <1>2, <1>5 DEF OwnedOnce, QueuesApart
<1> QED
  BY <1>6, <1>7 DEF OwnedOnce, a

\* The handler's first message goes to the pump.
LEMMA MailOwned ==
  ASSUME NEW q \in Seq(Message), NEW m \in Seq(Chunk), NEW s \in Seq(Positions),
         NEW g \in Nat, q # <<>>, OwnedOnce(q, m, s, g)
  PROVE  OwnedOnce(Tail(q), Append(m, Head(q).data), s, g)
<1> DEFINE a == Append(m, Head(q).data)
           c == Head(q).data
<1>1. /\ c \in Chunk /\ c = q[1].data /\ 1 \in DOMAIN q
      /\ \A i \in DOMAIN Tail(q) : i + 1 \in DOMAIN q /\ i + 1 # 1 /\ Tail(q)[i] = q[i + 1]
  BY TailIs, Numbers
<1>2. \A i \in DOMAIN a : IF i \in DOMAIN m THEN a[i] = m[i] ELSE i = Len(m) + 1 /\ a[i] = c
  BY <1>1, AppendIs
<1> HIDE DEF a, c
<1>3. Fits(c, g) /\ Clear(s, c)
  BY <1>1 DEF OwnedOnce, InboxOwns
<1>4. /\ \A i \in DOMAIN Tail(q) : Apart(Tail(q)[i].data, c)
      /\ \A i \in DOMAIN m : Apart(c, m[i]) /\ Apart(m[i], c)
  <2>1. /\ \A i \in DOMAIN Tail(q) : Apart(Tail(q)[i].data, c)
        /\ \A i \in DOMAIN m : Apart(c, m[i])
    BY <1>1 DEF OwnedOnce, InboxOwns, QueuesApart
  <2>2. \A d, e : Apart(d, e) => Apart(e, d)
    BY Zenon DEF Apart
  <2> QED
    BY <2>1, <2>2
<1>5. OwnedOnce(Tail(q), m, s, g)
  BY DropOwned
<1>6. MailboxOwns(a, s, g)
  BY <1>2, <1>3, <1>4, <1>5 DEF OwnedOnce, MailboxOwns
<1>7. QueuesApart(Tail(q), a)
  BY <1>2, <1>4, <1>5 DEF OwnedOnce, QueuesApart
<1> QED
  BY <1>5, <1>6, <1>7 DEF OwnedOnce, a

\* The pump's first message is dropped.
LEMMA DropMail ==
  ASSUME NEW q \in Seq(Message), NEW m \in Seq(Chunk), NEW s \in Seq(Positions),
         NEW g \in Nat, m # <<>>, OwnedOnce(q, m, s, g)
  PROVE  OwnedOnce(q, Tail(m), s, g)
<1>1. \A i \in DOMAIN Tail(m) : i + 1 \in DOMAIN m /\ Tail(m)[i] = m[i + 1]
  BY TailIs
<1>2. \A i, j \in DOMAIN Tail(m) : i # j => i + 1 # j + 1
  OBVIOUS
<1> QED
  BY <1>1, <1>2, Zenon DEF OwnedOnce, MailboxOwns, QueuesApart

\* The pump's first message, or what is left of it, is posted to the handler.
LEMMA TakeOwned ==
  ASSUME NEW q \in Seq(Message), NEW m \in Seq(Chunk), NEW s \in Seq(Positions),
         NEW g \in Nat, m # <<>>, OwnedOnce(q, m, s, g),
         NEW d \in Message, Within(d.data, Head(m))
  PROVE  OwnedOnce(Append(q, d), Tail(m), s, g)
<1> DEFINE a == Append(q, d)
           c == Head(m)
<1>1. /\ c \in Chunk /\ c = m[1] /\ 1 \in DOMAIN m
      /\ \A i \in DOMAIN Tail(m) : i + 1 \in DOMAIN m /\ i + 1 # 1 /\ Tail(m)[i] = m[i + 1]
  BY TailIs
<1>2. \A i \in DOMAIN a : IF i \in DOMAIN q THEN a[i] = q[i] ELSE i = Len(q) + 1 /\ a[i] = d
  BY AppendIs
<1> HIDE DEF a
<1>3. /\ Fits(c, g) /\ c.lo >= 1 /\ Clear(s, c) /\ d.data \in Chunk
      /\ s \in Seq(Nat)
  BY <1>1, Numbers, SeqMonotonic DEF OwnedOnce, MailboxOwns, Fits
<1>4. /\ \A i \in DOMAIN Tail(m) : Tail(m)[i] \in Chunk /\ Apart(c, Tail(m)[i])
      /\ \A i \in DOMAIN q : q[i].data \in Chunk /\ Apart(c, q[i].data)
  <2>1. /\ \A i \in DOMAIN q : q[i].data \in Chunk
        /\ \A i \in DOMAIN m : m[i] \in Chunk
    BY Numbers
  <2>2. \A i \in DOMAIN Tail(m) : Apart(c, Tail(m)[i])
    BY <1>1 DEF OwnedOnce, MailboxOwns
  <2>3. \A i \in DOMAIN q : Apart(q[i].data, c)
    BY <1>1 DEF OwnedOnce, QueuesApart
  <2>4. \A x, y : Apart(x, y) => Apart(y, x)
    BY Zenon DEF Apart
  <2> QED
    BY <1>1, <2>1, <2>2, <2>3, <2>4
<1> HIDE DEF c
<1>5. /\ Fits(d.data, g) /\ Clear(s, d.data)
      /\ \A i \in DOMAIN Tail(m) : Apart(d.data, Tail(m)[i])
      /\ \A i \in DOMAIN q : Apart(d.data, q[i].data) /\ Apart(q[i].data, d.data)
  BY <1>1, <1>3, <1>4, WithinIs DEF c
<1>6. OwnedOnce(q, Tail(m), s, g)
  BY DropMail
<1>7. InboxOwns(a, s, g)
  BY <1>2, <1>5, <1>6 DEF OwnedOnce, InboxOwns
<1>8. QueuesApart(a, Tail(m))
  BY <1>2, <1>5, <1>6 DEF OwnedOnce, QueuesApart
<1> QED
  BY <1>6, <1>7, <1>8 DEF OwnedOnce, a

\* What is shown of a chunk follows what was shown, and precedes the chunk's rest.
LEMMA ShowOrdered ==
  ASSUME NEW s \in Seq(Nat), NEW c \in Chunk, NEW u \in Nat, u <= c.hi,
         NEW t, Shows(t, s, c.lo, u), Behind(s, c), Increasing(s)
  PROVE  /\ Increasing(t)
         /\ \A d \in Chunk : Within(d, c) /\ u < d.lo => Behind(t, d)
<1>1. c.lo \in Nat /\ c.hi \in Nat /\ Len(s) \in Nat
  BY Numbers
<1>2. ASSUME NEW k \in DOMAIN t
      PROVE  \/ k \in DOMAIN s /\ t[k] = s[k] /\ s[k] \in Nat
             \/ /\ k \in Nat /\ k > Len(s)
                /\ t[k] = c.lo + (k - Len(s)) - 1 /\ t[k] \in c.lo .. u
  BY DEF Shows
<1>3. \A k \in DOMAIN s : k \in Nat /\ k <= Len(s)
  OBVIOUS
<1>4. Increasing(t)
  <2> SUFFICES ASSUME NEW i \in DOMAIN t, NEW j \in DOMAIN t, i < j PROVE t[i] < t[j]
    BY DEF Increasing
  <2>1. CASE i \in DOMAIN s /\ j \in DOMAIN s /\ t[i] = s[i] /\ t[j] = s[j]
    BY <2>1 DEF Increasing
  <2>2. CASE i \in DOMAIN s /\ t[i] = s[i] /\ s[i] \in Nat /\ t[j] \in c.lo .. u
    BY <1>1, <2>2 DEF Behind
  <2>3. CASE j \in DOMAIN s /\ i \in Nat /\ i > Len(s)
    BY <1>1, <1>3, <2>3
  <2>4. CASE /\ i \in Nat /\ j \in Nat
             /\ t[i] = c.lo + (i - Len(s)) - 1 /\ t[j] = c.lo + (j - Len(s)) - 1
    BY <1>1, <2>4
  <2> QED
    BY <1>2, <2>1, <2>2, <2>3, <2>4
<1>5. ASSUME NEW d \in Chunk, Within(d, c), u < d.lo PROVE Behind(t, d)
  <2>1. d.lo \in Nat /\ d.hi \in Nat
    BY Numbers
  <2> SUFFICES ASSUME NEW k \in DOMAIN t PROVE d.hi < d.lo \/ t[k] < d.lo
    BY DEF Behind
  <2>2. CASE k \in DOMAIN s /\ t[k] = s[k] /\ s[k] \in Nat
    BY <1>1, <1>5, <2>1, <2>2 DEF Behind, Within
  <2>3. CASE t[k] \in c.lo .. u
    BY <1>1, <1>5, <2>1, <2>3
  <2> QED
    BY <1>2, <2>2, <2>3
<1> QED
  BY <1>4, <1>5

\* What is behind a chunk is behind every part of it.
LEMMA BehindWithin ==
  ASSUME NEW s \in Seq(Nat), NEW c \in Chunk, NEW d \in Chunk, Within(d, c), Behind(s, c)
  PROVE  Behind(s, d)
<1>1. d.lo \in Nat /\ d.hi \in Nat /\ c.lo \in Nat /\ c.hi \in Nat
  BY Numbers
<1> SUFFICES ASSUME NEW k \in DOMAIN s PROVE d.hi < d.lo \/ s[k] < d.lo
  BY DEF Behind
<1>2. s[k] \in Nat
  OBVIOUS
<1> QED
  BY <1>1, <1>2 DEF Behind, Within

\* The queues when there is one message at most.
LEMMA Alone ==
  ASSUME NEW q \in Seq(Message), NEW m \in Seq(Chunk),
         q = <<>> \/ m = <<>>, Len(q) <= 1, Len(m) <= 1
  PROVE  /\ q # <<>> => Tail(q) = <<>> /\ m = <<>>
         /\ m # <<>> => Tail(m) = <<>> /\ q = <<>>
         /\ \A d \in Message : Len(Append(<<>>, d)) = 1 /\ Len(<<d>> \o <<>>) = 1
                            /\ Append(<<>>, d) = <<d>> /\ <<d>> \o <<>> = <<d>>
<1>6. q # <<>> => Tail(q) = <<>> /\ m = <<>>
  OBVIOUS
<1>7. m # <<>> => Tail(m) = <<>> /\ q = <<>>
  OBVIOUS
<1>8. \A d \in Message : Len(Append(<<>>, d)) = 1 /\ Len(<<d>> \o <<>>) = 1
                            /\ Append(<<>>, d) = <<d>> /\ <<d>> \o <<>> = <<d>>
  OBVIOUS
<1> QED
  BY <1>6, <1>7, <1>8

(***************************************************************************)
(* The actions.                                                            *)
(***************************************************************************)
\* What doDecompress posts is empty or part of what it is given; when it is called
\* the pump is not corrupted, and if it fails the pump stops inflating.
LEMMA Decompressed ==
  ASSUME NEW lo \in Nat, lo >= 1, lo <= MaxSent + 1, NEW hi \in Nat, hi <= MaxSent,
         NEW corrupted, corrupted = FALSE, DoDecompress(lo, hi, corrupted)
  PROVE  /\ \E d \in Message : /\ inbox' = Append(inbox, d)
                               /\ d.data = Bytes(1, 0) \/ Within(d.data, Bytes(lo, hi))
         /\ mCompressed' \in BOOLEAN /\ mCorrupted' \in BOOLEAN /\ inflater' \in Positions
         /\ CorruptedIsPlain'
<1>1. EndIn(lo, hi) \in Nat /\ (EndIn(lo, hi) <= hi => EndIn(lo, hi) >= lo)
  BY FirstIs DEF EndIn
<1>2. \A i, j \in Positions : \A w \in {"PROCESS", "INFLATED", "GARBAGE", "MCCPFATALERROR"} :
        Msg(w, i, j) \in Message /\ Msg(w, i, j).data = Bytes(i, j)
  BY DEF Msg, Message, Bytes, Chunk
<1>3. 0 \in Positions /\ 1 \in Positions /\ lo \in Positions /\ hi \in Positions /\ Lost \in Positions
  BY MccpAssumption DEF Positions, Lost
<1>4. Within(Bytes(lo, hi), Bytes(lo, hi))
  BY DEF Within, Bytes
<1>5. CASE Inflates(lo, hi, corrupted)
  <2> DEFINE d == Msg("INFLATED", lo, hi)
  <2>1. d \in Message /\ d.data = Bytes(lo, hi)
    BY <1>2, <1>3
  <2>2. inbox' = Append(inbox, d)
    BY <1>5 DEF Inflates, Inflated
  <2>3. mCompressed' = TRUE /\ mCorrupted' = FALSE /\ inflater' = hi
    BY <1>5 DEF Inflates, Inflated
  <2> QED
    BY <1>3, <1>4, <2>1, <2>2, <2>3 DEF CorruptedIsPlain
<1>6. CASE Finishes(lo, hi)
  <2> DEFINE e == EndIn(lo, hi)
             d == Msg("PROCESS", e + 1, hi)
  <2>1. e <= hi /\ e >= lo /\ e + 1 \in Positions
    BY <1>1, <1>6, MccpAssumption DEF Finishes, Positions
  <2>2. d \in Message /\ d.data = Bytes(e + 1, hi)
    BY <1>2, <1>3, <2>1
  <2>3. Within(Bytes(e + 1, hi), Bytes(lo, hi))
    BY <1>1, <2>1 DEF Within, Bytes
  <2>4. inbox' = Append(inbox, d)
    BY <1>6 DEF Finishes, Remainder, Bytes
  <2>5. mCompressed' = FALSE /\ mCorrupted' = FALSE /\ inflater' = 0
    BY <1>6 DEF Finishes
  <2> QED
    BY <1>3, <2>2, <2>3, <2>4, <2>5 DEF CorruptedIsPlain
<1>7. CASE Fails(lo, hi, corrupted)
  <2>1. CASE inbox' = Append(inbox, Msg("MCCPFATALERROR", 1, 0)) /\ inflater' = 0 /\ OnFailure
    <3>1. Msg("MCCPFATALERROR", 1, 0) \in Message /\ Msg("MCCPFATALERROR", 1, 0).data = Bytes(1, 0)
      BY <1>2, <1>3
    <3> QED
      BY <1>3, <2>1, <3>1 DEF OnFailure, CorruptedIsPlain
  <2>2. CASE Inflated(Msg("GARBAGE", lo, hi), corrupted) /\ inflater' = Lost
    <3>1. Msg("GARBAGE", lo, hi) \in Message /\ Msg("GARBAGE", lo, hi).data = Bytes(lo, hi)
      BY <1>2, <1>3
    <3> QED
      BY <1>3, <1>4, <2>2, <3>1 DEF Inflated, CorruptedIsPlain
  <2> QED
    BY <1>7, <2>1, <2>2 DEF Fails
<1> QED
  BY <1>5, <1>6, <1>7 DEF DoDecompress

\* What TypeOK says of the variables the invariant is about.
LEMMA Typed ==
  ASSUME TypeOK
  PROVE  /\ got \in Nat /\ Len(sent) \in Nat /\ got <= Len(sent) /\ Len(sent) <= MaxSent
         /\ inbox \in Seq(Message) /\ mailbox \in Seq(Chunk)
         /\ shown \in Seq(Positions) /\ shown \in Seq(Nat)
<1>1. /\ Len(sent) \in Nat /\ got \in 0 .. Len(sent) /\ Len(sent) <= MaxSent
      /\ inbox \in Seq(Message) /\ mailbox \in Seq(Chunk) /\ shown \in Seq(Positions)
  BY DEF TypeOK
<1>2. shown \in Seq(Nat)
  BY <1>1, Numbers, SeqMonotonic
<1> QED
  BY <1>1, <1>2

\* A message posted by a poll: everything in it is new.
LEMMA PollPosts ==
  ASSUME TypeOK, Owned, Ordered, got < Len(sent), got' = Len(sent),
         prompt => inbox = <<>> /\ mailbox = <<>>,
         UNCHANGED <<mailbox, shown, prompt>>, NEW d \in Message, inbox' = Append(inbox, d),
         d.data = Bytes(1, 0) \/ Within(d.data, Bytes(got + 1, Len(sent)))
  PROVE  inbox' \in Seq(Message) /\ Owned' /\ Ordered'
<1>1. /\ got \in Nat /\ Len(sent) \in Nat /\ inbox \in Seq(Message) /\ mailbox \in Seq(Chunk)
      /\ shown \in Seq(Positions) /\ shown \in Seq(Nat)
  BY Typed
<1>2. d.data.lo \in Nat /\ d.data.hi \in Nat
  BY Numbers
<1>3. Fits(d.data, Len(sent)) /\ (d.data.lo > got \/ d.data.hi < d.data.lo)
  BY <1>1, <1>2 DEF Fits, Within, Bytes
<1>4. Owned'
  <2>1. OwnedOnce(Append(inbox, d), mailbox, shown, Len(sent))
    BY <1>1, <1>3, PostOwned DEF Owned
  <2> QED
    BY <2>1 DEF Owned
<1>5. Ordered'
  <2> SUFFICES ASSUME prompt PROVE OneAtATime(inbox', mailbox', shown')
    BY DEF Ordered
  <2>1. inbox = <<>> /\ mailbox = <<>> /\ Increasing(shown)
    BY DEF Ordered, OneAtATime
  <2>2. inbox' = <<d>>
    BY <2>1
  <2>3. Behind(shown, d.data)
    <3> SUFFICES ASSUME NEW k \in DOMAIN shown PROVE d.data.hi < d.data.lo \/ shown[k] < d.data.lo
      BY DEF Behind
    <3>1. shown[k] \in 1 .. got
      BY DEF Owned, OwnedOnce, Read
    <3> QED
      BY <1>1, <1>2, <1>3, <3>1
  <2> QED
    BY <2>1, <2>2, <2>3 DEF OneAtATime
<1> QED
  BY <1>1, <1>4, <1>5

LEMMA PollStep ==
  ASSUME IInv, Poll
  PROVE  IInv'
<1>1. /\ TypeOK /\ Owned /\ Ordered /\ CorruptedIsPlain /\ got < Len(sent) /\ got' = Len(sent)
      /\ prompt => inbox = <<>> /\ mailbox = <<>>
      /\ UNCHANGED <<sent, mailbox, shown, garbled, prompt>>
  BY DEF IInv, Poll
<1>2. /\ got \in Nat /\ Len(sent) \in Nat /\ Len(sent) <= MaxSent
      /\ got + 1 \in Positions /\ Len(sent) \in Positions
  BY <1>1, Typed, MccpAssumption DEF Positions
<1>3. CASE mCompressed
  <2>1. mCorrupted = FALSE
    BY <1>1, <1>3 DEF CorruptedIsPlain, TypeOK
  <2>2. DoDecompress(got + 1, Len(sent), mCorrupted) /\ cuts' = cuts \union {Len(sent)}
    BY <1>3 DEF Poll
  <2>3. /\ \E d \in Message : /\ inbox' = Append(inbox, d)
                              /\ d.data = Bytes(1, 0) \/ Within(d.data, Bytes(got + 1, Len(sent)))
        /\ mCompressed' \in BOOLEAN /\ mCorrupted' \in BOOLEAN /\ inflater' \in Positions
        /\ CorruptedIsPlain'
    <3>1. /\ got + 1 \in Nat /\ got + 1 >= 1 /\ got + 1 <= MaxSent + 1
          /\ Len(sent) \in Nat /\ Len(sent) <= MaxSent
      BY <1>1, <1>2, MccpAssumption
    <3>2. DoDecompress(got + 1, Len(sent), mCorrupted)
      BY <2>2
    <3> QED
      BY <2>1, <3>1, <3>2, Decompressed
  <2>4. inbox' \in Seq(Message) /\ Owned' /\ Ordered'
    BY <1>1, <2>3, PollPosts
  <2>5. cuts' \subseteq Positions
    BY <1>1, <1>2, <2>2 DEF TypeOK
  <2>6. TypeOK'
    BY <1>1, <2>3, <2>4, <2>5, <1>2 DEF TypeOK
  <2> QED
    BY <2>3, <2>4, <2>6 DEF IInv
<1>4. CASE ~mCompressed
  <2> DEFINE d == Msg("PROCESS", got + 1, Len(sent))
  <2>1. inbox' = Append(inbox, d) /\ UNCHANGED <<pumpVars, cuts>>
    BY <1>4 DEF Poll
  <2>2. d \in Message /\ d.data = Bytes(got + 1, Len(sent))
    BY <1>2 DEF Msg, Message, Bytes, Chunk
  <2>3. Within(d.data, Bytes(got + 1, Len(sent)))
    BY <2>2, <1>2 DEF Within, Bytes
  <2> HIDE DEF d
  <2>4. inbox' \in Seq(Message) /\ Owned' /\ Ordered'
    BY <1>1, <2>1, <2>2, <2>3, PollPosts
  <2>5. TypeOK'
    BY <1>1, <1>2, <2>1, <2>4 DEF TypeOK, pumpVars
  <2> QED
    BY <1>1, <2>1, <2>4, <2>5 DEF IInv, CorruptedIsPlain, pumpVars
<1> QED
  BY <1>3, <1>4

\* Actions that change none of the variables Owned and Ordered are about, but sent.
LEMMA SendStep ==
  ASSUME IInv, Send
  PROVE  IInv'
<1>1. /\ Len(sent) < MaxSent
      /\ UNCHANGED <<got, inbox, mailbox, pumpVars, history, prompt>>
  BY DEF Send
<1>2. PICK k \in Kinds : sent' = Append(sent, k)
  BY DEF Send
<1>3. sent \in Seq(Kinds) /\ got \in 0 .. Len(sent)
  BY DEF IInv, TypeOK
<1>4. sent' \in Seq(Kinds) /\ Len(sent') <= MaxSent /\ got' \in 0 .. Len(sent')
  BY <1>1, <1>2, <1>3, MccpAssumption
<1>5. TypeOK'
  BY <1>1, <1>4 DEF IInv, TypeOK, pumpVars, history
<1> QED
  BY <1>1, <1>5 DEF IInv, Owned, Ordered, CorruptedIsPlain, pumpVars, history

\* A message the pump posts for the one it has taken.
LEMMA CompressPosts ==
  ASSUME TypeOK, Owned, Ordered, mailbox # <<>>, mailbox' = Tail(mailbox),
         UNCHANGED <<got, shown, prompt>>, NEW d \in Message, inbox' = Append(inbox, d),
         d.data = Bytes(1, 0) \/ Within(d.data, Head(mailbox))
  PROVE  inbox' \in Seq(Message) /\ Owned' /\ Ordered'
<1>1. /\ got \in Nat /\ inbox \in Seq(Message) /\ mailbox \in Seq(Chunk)
      /\ shown \in Seq(Positions) /\ shown \in Seq(Nat) /\ Tail(mailbox) \in Seq(Chunk)
      /\ Head(mailbox) \in Chunk /\ Head(mailbox) = mailbox[1] /\ 1 \in DOMAIN mailbox
  BY Typed
<1>2. OwnedOnce(Append(inbox, d), Tail(mailbox), shown, got)
  <2>1. CASE Within(d.data, Head(mailbox))
    BY <1>1, <2>1, TakeOwned DEF Owned
  <2>2. CASE d.data = Bytes(1, 0)
    <3>1. d.data.lo = 1 /\ d.data.hi = 0
      BY <2>2 DEF Bytes
    <3>2. Fits(d.data, got) /\ d.data.hi < d.data.lo
      BY <1>1, <3>1 DEF Fits
    <3>3. OwnedOnce(inbox, Tail(mailbox), shown, got)
      BY <1>1, DropMail DEF Owned
    <3>4. got <= got
      BY <1>1
    <3> QED
      BY <1>1, <3>2, <3>3, <3>4, PostOwned
  <2> QED
    BY <2>1, <2>2
<1>3. Ordered'
  <2> SUFFICES ASSUME prompt PROVE OneAtATime(inbox', mailbox', shown')
    BY DEF Ordered
  <2>1. /\ inbox = <<>> \/ mailbox = <<>>
        /\ Len(inbox) <= 1 /\ Len(mailbox) <= 1
        /\ Increasing(shown) /\ Behind(shown, Head(mailbox))
    BY <1>1 DEF Ordered, OneAtATime
  <2>2. inbox = <<>> /\ Tail(mailbox) = <<>>
    BY <1>1, <2>1, Alone
  <2>3. Behind(shown, d.data)
    <3>1. CASE Within(d.data, Head(mailbox))
      BY <1>1, <2>1, <3>1, BehindWithin, Numbers
    <3>2. CASE d.data = Bytes(1, 0)
      BY <3>2 DEF Behind, Bytes
    <3> QED
      BY <3>1, <3>2
  <2>4. inbox' = <<d>> /\ mailbox' = <<>>
    BY <2>2
  <2> QED
    BY <2>1, <2>3, <2>4 DEF OneAtATime
<1> QED
  BY <1>1, <1>2, <1>3 DEF Owned

LEMMA CompressStep ==
  ASSUME IInv, Compress
  PROVE  IInv'
<1> DEFINE data == Head(mailbox)
<1>1. /\ TypeOK /\ Owned /\ Ordered /\ CorruptedIsPlain /\ mailbox # <<>>
      /\ mailbox' = Tail(mailbox) /\ cuts' = cuts \union {data.hi}
      /\ UNCHANGED <<sent, got, shown, garbled, prompt>>
  BY DEF IInv, Compress
<1>2. /\ got \in Nat /\ got <= MaxSent /\ inbox \in Seq(Message) /\ mailbox \in Seq(Chunk)
      /\ shown \in Seq(Positions) /\ Tail(mailbox) \in Seq(Chunk)
      /\ data \in Chunk /\ data = mailbox[1] /\ 1 \in DOMAIN mailbox
  BY <1>1, Typed, MccpAssumption
<1>3. /\ Fits(data, got) /\ data.lo \in Nat /\ data.hi \in Nat
      /\ data.lo \in Positions /\ data.hi \in Positions
  BY <1>1, <1>2, Numbers DEF Owned, OwnedOnce, MailboxOwns, Chunk
<1>4. cuts' \subseteq Positions
  BY <1>1, <1>3 DEF TypeOK
<1>5. Within(data, data) /\ Bytes(data.lo, data.hi) = data
  BY <1>2, <1>3 DEF Within, Bytes, Chunk
<1> HIDE DEF data
<1>6. CASE data.lo <= data.hi
  <2>1. DoDecompress(data.lo, data.hi, FALSE)
    BY <1>6 DEF Compress, data
  <2>2. data.lo >= 1 /\ data.lo <= MaxSent + 1 /\ data.hi <= MaxSent
    BY <1>2, <1>3, <1>6, MccpAssumption DEF Fits
  <2>3. /\ \E d \in Message : /\ inbox' = Append(inbox, d)
                              /\ d.data = Bytes(1, 0) \/ Within(d.data, Bytes(data.lo, data.hi))
        /\ mCompressed' \in BOOLEAN /\ mCorrupted' \in BOOLEAN /\ inflater' \in Positions
        /\ CorruptedIsPlain'
    BY <1>3, <2>1, <2>2, Decompressed
  <2>4. inbox' \in Seq(Message) /\ Owned' /\ Ordered'
    BY <1>1, <1>5, <2>3, CompressPosts DEF data
  <2>5. TypeOK'
    BY <1>1, <1>2, <1>4, <2>3, <2>4 DEF TypeOK
  <2> QED
    BY <2>3, <2>4, <2>5 DEF IInv
<1>7. CASE ~(data.lo <= data.hi)
  <2>1. mCompressed' = TRUE /\ mCorrupted' = FALSE /\ UNCHANGED <<inflater, inbox>>
    BY <1>7 DEF Compress, data
  <2>2. Owned'
    BY <1>1, <1>2, <2>1, DropMail DEF Owned
  <2>3. Ordered'
    <3> SUFFICES ASSUME prompt PROVE OneAtATime(inbox', mailbox', shown')
      BY <1>1 DEF Ordered
    <3>1. /\ inbox = <<>> \/ mailbox = <<>>
          /\ Len(inbox) <= 1 /\ Len(mailbox) <= 1 /\ Increasing(shown)
      BY <1>1 DEF Ordered, OneAtATime
    <3>2. inbox = <<>> /\ Tail(mailbox) = <<>>
      BY <1>1, <1>2, <3>1, Alone
    <3> QED
      BY <1>1, <2>1, <3>1, <3>2 DEF OneAtATime
  <2>4. TypeOK'
    BY <1>1, <1>2, <1>4, <2>1 DEF TypeOK
  <2> QED
    BY <2>1, <2>2, <2>3, <2>4 DEF IInv, CorruptedIsPlain
<1> QED
  BY <1>6, <1>7

\* The handler shows the first message up to u, and puts rest in front of its queue.
LEMMA HandlerShows ==
  ASSUME TypeOK, Owned, Ordered, inbox # <<>>, UNCHANGED <<got, mailbox, prompt>>,
         NEW u \in Nat, u <= Head(inbox).data.hi,
         shown' = shown \o Run(Head(inbox).data.lo, u),
         \/ inbox' = Tail(inbox)
         \/ \E d \in Message : /\ inbox' = <<d>> \o Tail(inbox)
                               /\ Within(d.data, Head(inbox).data) /\ u < d.data.lo
  PROVE  inbox' \in Seq(Message) /\ shown' \in Seq(Positions) /\ Owned' /\ Ordered'
<1> DEFINE c == Head(inbox).data
<1>1. /\ got \in Nat /\ got <= MaxSent /\ inbox \in Seq(Message) /\ mailbox \in Seq(Chunk)
      /\ shown \in Seq(Positions) /\ shown \in Seq(Nat)
  BY Typed, MccpAssumption
<1>2. /\ Tail(inbox) \in Seq(Message) /\ Head(inbox) = inbox[1] /\ 1 \in DOMAIN inbox
      /\ c \in Chunk /\ c.lo \in Nat /\ c.hi \in Nat
  BY <1>1, TailIs, Numbers
<1>3. Fits(c, got) /\ Clear(shown, c)
  BY <1>2 DEF Owned, OwnedOnce, InboxOwns
<1>4. Shows(shown', shown, c.lo, u)
  BY <1>1, <1>2, ShownIs
<1>5. shown' \in Seq(Positions)
  <2>1. Run(c.lo, u) \in Seq(Nat)
        /\ \A k \in DOMAIN Run(c.lo, u) : Run(c.lo, u)[k] \in c.lo .. u
    BY <1>2, RunIs
  <2> DEFINE r == Run(c.lo, u)
  <2>2. u <= MaxSent
    BY <1>1, <1>2, <1>3, MccpAssumption DEF Fits
  <2>3. \A k \in DOMAIN r : r[k] \in Positions
    BY <1>2, <2>1, <2>2, MccpAssumption DEF Positions
  <2> HIDE DEF r, c
  <2>4. r \in Seq(Positions)
    BY <2>1, <2>3 DEF r
  <2> QED
    BY <1>1, <2>4 DEF r, c
<1>6. OwnedOnce(Tail(inbox), mailbox, shown', got)
  BY <1>1, <1>4, ShowOwned DEF Owned
<1>7. CASE inbox' = Tail(inbox)
  <2>1. Owned'
    BY <1>6, <1>7 DEF Owned
  <2>2. Ordered'
    <3> SUFFICES ASSUME prompt PROVE OneAtATime(inbox', mailbox', shown')
      BY DEF Ordered
    <3>1. /\ inbox = <<>> \/ mailbox = <<>>
          /\ Len(inbox) <= 1 /\ Len(mailbox) <= 1
          /\ Increasing(shown) /\ Behind(shown, c)
      BY <1>2 DEF Ordered, OneAtATime
    <3>2. Tail(inbox) = <<>> /\ mailbox = <<>>
      BY <1>1, <3>1, Alone
    <3>3. Increasing(shown')
      BY <1>1, <1>2, <1>4, <3>1, ShowOrdered
    <3>4. inbox' = <<>> /\ mailbox' = <<>>
      BY <1>7, <3>2
    <3> QED
      BY <3>3, <3>4 DEF OneAtATime
  <2> QED
    BY <1>2, <1>5, <1>7, <2>1, <2>2
<1>8. ASSUME NEW d \in Message, inbox' = <<d>> \o Tail(inbox), Within(d.data, c), u < d.data.lo
      PROVE  inbox' \in Seq(Message) /\ Owned' /\ Ordered'
  <2>1. /\ d.data \in Chunk /\ d.data.lo \in Nat /\ d.data.hi \in Nat
    BY Numbers
  <2>2. Clear(shown', d.data)
    <3> SUFFICES ASSUME NEW k \in DOMAIN shown'
                 PROVE  shown'[k] < d.data.lo \/ d.data.hi < shown'[k]
      BY DEF Clear
    <3>1. CASE k \in DOMAIN shown /\ shown'[k] = shown[k]
      <4>1. Clear(shown, d.data)
        BY <1>1, <1>2, <1>3, <1>8, <2>1, WithinIs DEF Fits
      <4> QED
        BY <3>1, <4>1 DEF Clear
    <3>2. CASE shown'[k] \in c.lo .. u
      BY <1>2, <1>8, <2>1, <3>2
    <3> QED
      BY <1>4, <3>1, <3>2 DEF Shows
  <2>3. Owned'
    BY <1>1, <1>6, <1>8, <2>2, FrontOwned DEF Owned
  <2>4. Ordered'
    <3> SUFFICES ASSUME prompt PROVE OneAtATime(inbox', mailbox', shown')
      BY DEF Ordered
    <3>1. /\ inbox = <<>> \/ mailbox = <<>>
          /\ Len(inbox) <= 1 /\ Len(mailbox) <= 1
          /\ Increasing(shown) /\ Behind(shown, c)
      BY <1>2 DEF Ordered, OneAtATime
    <3>2. Tail(inbox) = <<>> /\ mailbox = <<>>
      BY <1>1, <3>1, Alone
    <3>3. Increasing(shown') /\ Behind(shown', d.data)
      BY <1>1, <1>2, <1>4, <1>8, <2>1, <3>1, ShowOrdered
    <3>4. <<d>> \o <<>> = <<d>>
      OBVIOUS
    <3>5. inbox' = <<d>> /\ mailbox' = <<>>
      BY <1>8, <3>2, <3>4
    <3> QED
      BY <3>3, <3>5 DEF OneAtATime
  <2> QED
    BY <1>2, <1>8, <2>3, <2>4
<1> QED
  BY <1>5, <1>7, <1>8

\* The first message of the handler's queue.
LEMMA HeadIs ==
  ASSUME TypeOK, Owned, inbox # <<>>
  PROVE  /\ Head(inbox) \in Message /\ Head(inbox).data.lo \in Nat
         /\ Head(inbox).data.hi \in Nat /\ Fits(Head(inbox).data, got)
         /\ Tail(inbox) \in Seq(Message) /\ got \in Nat /\ got <= MaxSent
<1>1. inbox \in Seq(Message) /\ got \in Nat /\ got <= MaxSent
  BY Typed, MccpAssumption
<1>2. Tail(inbox) \in Seq(Message) /\ Head(inbox) \in Message /\ Head(inbox) = inbox[1]
      /\ 1 \in DOMAIN inbox
  BY <1>1, TailIs
<1> QED
  BY <1>1, <1>2, Numbers DEF Owned, OwnedOnce, InboxOwns

LEMMA HandleProcessStep ==
  ASSUME IInv, HandleProcess
  PROVE  IInv'
<1> DEFINE lo == Head(inbox).data.lo
           hi == Head(inbox).data.hi
           m  == MarkerIn(lo, hi)
           d  == Msg("STARTCOMPRESS", m + 1, hi)
<1>1. TypeOK /\ Owned /\ Ordered /\ CorruptedIsPlain /\ inbox # <<>>
  BY DEF IInv, HandleProcess, Receive
<1>2. /\ inbox' = (IF m > hi THEN <<>> ELSE <<d>>) \o Tail(inbox)
      /\ shown' = shown \o Run(lo, m - 1)
      /\ UNCHANGED <<sent, got, mailbox, pumpVars, cuts, prompt>>
  BY DEF HandleProcess, AfterMarker, ShownUpTo
<1>3. garbled' \in BOOLEAN
  <2>1. garbled' = (garbled \/ \E i \in lo .. m - 1 : ~Plain(i))
    BY DEF HandleProcess, ShownUpTo
  <2> QED
    BY <2>1, Zenon
<1>4. /\ lo \in Nat /\ hi \in Nat /\ lo >= 1 /\ hi <= got /\ got \in Nat /\ got <= MaxSent
      /\ Tail(inbox) \in Seq(Message)
  BY <1>1, HeadIs DEF Fits
<1>5. m \in Nat /\ (m \in lo .. hi \/ m = hi + 1)
  BY <1>4, FirstIs DEF MarkerIn
<1> HIDE DEF lo, hi, m
<1>6. m - 1 \in Nat /\ m - 1 <= hi
  BY <1>4, <1>5
<1>7. \/ inbox' = Tail(inbox)
      \/ /\ inbox' = <<d>> \o Tail(inbox) /\ d \in Message
         /\ Within(d.data, Head(inbox).data) /\ m - 1 < d.data.lo
  <2>1. CASE m > hi
    <3>1. <<>> \o Tail(inbox) = Tail(inbox)
      BY <1>4
    <3> QED
      BY <1>2, <2>1, <3>1
  <2>2. CASE ~(m > hi)
    <3>1. m + 1 \in Positions /\ hi \in Positions /\ m + 1 >= lo /\ hi <= hi /\ m - 1 < m + 1
      BY <1>4, <1>5, <2>2, MccpAssumption DEF Positions
    <3>2. d \in Message /\ d.data = Bytes(m + 1, hi)
      BY <3>1 DEF Msg, Message, Bytes, Chunk
    <3>3. d.data.lo = m + 1 /\ d.data.hi = hi
      BY <3>2 DEF Bytes
    <3>4. inbox' = <<d>> \o Tail(inbox)
      BY <1>2, <2>2
    <3> QED
      BY <3>1, <3>2, <3>3, <3>4 DEF Within, lo, hi
  <2> QED
    BY <2>1, <2>2
<1> HIDE DEF d
<1>8. inbox' \in Seq(Message) /\ shown' \in Seq(Positions) /\ Owned' /\ Ordered'
  BY <1>1, <1>2, <1>6, <1>7, HandlerShows DEF lo, hi
<1>9. TypeOK'
  BY <1>1, <1>2, <1>3, <1>8 DEF TypeOK, pumpVars
<1> QED
  BY <1>1, <1>2, <1>8, <1>9 DEF IInv, CorruptedIsPlain, pumpVars

LEMMA HandleInflatedStep ==
  ASSUME IInv, HandleInflated
  PROVE  IInv'
<1>1. /\ TypeOK /\ Owned /\ Ordered /\ CorruptedIsPlain /\ inbox # <<>>
      /\ inbox' = Tail(inbox)
      /\ shown' = shown \o Run(Head(inbox).data.lo, Head(inbox).data.hi)
      /\ UNCHANGED <<sent, got, mailbox, pumpVars, garbled, cuts, prompt>>
  BY DEF IInv, HandleInflated, Receive
<1>2. Head(inbox).data.hi \in Nat /\ Head(inbox).data.hi <= Head(inbox).data.hi
  BY <1>1, HeadIs
<1>3. inbox' \in Seq(Message) /\ shown' \in Seq(Positions) /\ Owned' /\ Ordered'
  BY <1>1, <1>2, HandlerShows
<1>4. TypeOK'
  BY <1>1, <1>3 DEF TypeOK, pumpVars
<1> QED
  BY <1>1, <1>3, <1>4 DEF IInv, CorruptedIsPlain, pumpVars

\* The handler drops its first message.
LEMMA HandlerDrops ==
  ASSUME TypeOK, Owned, Ordered, inbox # <<>>, inbox' = Tail(inbox),
         UNCHANGED <<got, mailbox, shown, prompt>>
  PROVE  inbox' \in Seq(Message) /\ Owned' /\ Ordered'
<1>1. /\ got \in Nat /\ inbox \in Seq(Message) /\ mailbox \in Seq(Chunk)
      /\ shown \in Seq(Positions) /\ Tail(inbox) \in Seq(Message)
  BY Typed, HeadIs
<1>2. OwnedOnce(Tail(inbox), mailbox, shown, got)
  BY <1>1, DropOwned DEF Owned
<1>3. Ordered'
  <2> SUFFICES ASSUME prompt PROVE OneAtATime(inbox', mailbox', shown')
    BY DEF Ordered
  <2>1. /\ inbox = <<>> \/ mailbox = <<>>
        /\ Len(inbox) <= 1 /\ Len(mailbox) <= 1 /\ Increasing(shown)
    BY DEF Ordered, OneAtATime
  <2>2. Tail(inbox) = <<>> /\ mailbox = <<>>
    BY <1>1, <2>1, Alone
  <2>3. inbox' = <<>> /\ mailbox' = <<>>
    BY <2>2
  <2> QED
    BY <2>1, <2>3 DEF OneAtATime
<1> QED
  BY <1>1, <1>2, <1>3 DEF Owned

LEMMA HandleDropStep ==
  ASSUME IInv, HandleGarbage \/ HandleFatal
  PROVE  IInv'
<1>1. TypeOK /\ Owned /\ Ordered /\ CorruptedIsPlain
  BY DEF IInv
<1>2. /\ inbox # <<>> /\ inbox' = Tail(inbox)
      /\ UNCHANGED <<sent, got, mailbox, pumpVars, shown, cuts, prompt>>
  BY DEF HandleGarbage, HandleFatal, Receive, history
<1>3. garbled' \in BOOLEAN
  BY <1>1, Zenon DEF HandleGarbage, HandleFatal, history, TypeOK
<1>4. inbox' \in Seq(Message) /\ Owned' /\ Ordered'
  BY <1>1, <1>2, HandlerDrops
<1>5. TypeOK'
  BY <1>1, <1>2, <1>3, <1>4 DEF TypeOK, pumpVars
<1> QED
  BY <1>1, <1>2, <1>4, <1>5 DEF IInv, CorruptedIsPlain, pumpVars

LEMMA HandleStartCompressStep ==
  ASSUME IInv, HandleStartCompress
  PROVE  IInv'
<1> DEFINE c == Head(inbox).data
<1>1. /\ TypeOK /\ Owned /\ Ordered /\ CorruptedIsPlain /\ inbox # <<>>
      /\ inbox' = Tail(inbox) /\ mailbox' = Append(mailbox, c)
      /\ UNCHANGED <<sent, got, pumpVars, history, prompt>>
  BY DEF IInv, HandleStartCompress, Receive
<1>2. /\ got \in Nat /\ inbox \in Seq(Message) /\ mailbox \in Seq(Chunk)
      /\ shown \in Seq(Positions) /\ Tail(inbox) \in Seq(Message)
      /\ c \in Chunk /\ Head(inbox) = inbox[1] /\ 1 \in DOMAIN inbox
  BY <1>1, Typed, TailIs, Numbers
<1>3. OwnedOnce(Tail(inbox), Append(mailbox, c), shown, got)
  BY <1>1, <1>2, MailOwned DEF Owned
<1>4. Owned'
  BY <1>1, <1>3 DEF Owned, history
<1>5. Ordered'
  <2> SUFFICES ASSUME prompt PROVE OneAtATime(inbox', mailbox', shown')
    BY <1>1 DEF Ordered
  <2>1. /\ inbox = <<>> \/ mailbox = <<>>
        /\ Len(inbox) <= 1 /\ Len(mailbox) <= 1
        /\ Increasing(shown) /\ Behind(shown, c)
    BY <1>1, <1>2 DEF Ordered, OneAtATime
  <2>2. Tail(inbox) = <<>> /\ mailbox = <<>>
    BY <1>1, <1>2, <2>1, Alone
  <2> HIDE DEF c
  <2>3. inbox' = <<>> /\ mailbox' = <<c>> /\ shown' = shown
    BY <1>1, <2>2 DEF history
  <2> QED
    BY <2>1, <2>3 DEF OneAtATime
<1>6. TypeOK'
  <2>1. inbox' \in Seq(Message) /\ mailbox' \in Seq(Chunk)
    BY <1>1, <1>2
  <2> QED
    BY <1>1, <2>1 DEF TypeOK, pumpVars, history
<1> QED
  BY <1>1, <1>4, <1>5, <1>6 DEF IInv, CorruptedIsPlain, pumpVars, history

(***************************************************************************)
(* The theorems.                                                           *)
(***************************************************************************)
\* The invariant holds at the start and every step keeps it.
THEOREM Correct == Spec => []IInv
<1>1. Init => IInv
  <2> SUFFICES ASSUME Init PROVE IInv
    OBVIOUS
  <2>1. TypeOK
    <3>1. prompt \in BOOLEAN
      BY MccpAssumption, Zenon DEF Init
    <3>2. mCompressed \in BOOLEAN /\ mCorrupted \in BOOLEAN /\ garbled \in BOOLEAN
      BY Zenon DEF Init
    <3>3. sent \in Seq(Kinds) /\ Len(sent) <= MaxSent /\ got \in 0 .. Len(sent)
      BY MccpAssumption DEF Init
    <3>4. inbox \in Seq(Message) /\ mailbox \in Seq(Chunk) /\ shown \in Seq(Positions)
      BY DEF Init
    <3>5. inflater \in Positions /\ cuts \subseteq Positions
      BY MccpAssumption DEF Init, Positions
    <3> QED
      BY <3>1, <3>2, <3>3, <3>4, <3>5 DEF TypeOK
  <2>2. Owned
    BY DEF Init, Owned, OwnedOnce, InboxOwns, MailboxOwns, QueuesApart, Distinct, Read
  <2>3. Ordered
    BY DEF Init, Ordered, OneAtATime, Increasing
  <2>4. CorruptedIsPlain
    BY DEF Init, CorruptedIsPlain
  <2> QED
    BY <2>1, <2>2, <2>3, <2>4 DEF IInv
<1>2. IInv /\ [Next]_vars => IInv'
  <2> SUFFICES ASSUME IInv, [Next]_vars PROVE IInv'
    OBVIOUS
  <2>1. CASE Send
    BY <2>1, SendStep
  <2>2. CASE Poll
    BY <2>2, PollStep
  <2>3. CASE Compress
    BY <2>3, CompressStep
  <2>4. CASE HandleProcess
    BY <2>4, HandleProcessStep
  <2>5. CASE HandleInflated
    BY <2>5, HandleInflatedStep
  <2>6. CASE HandleGarbage \/ HandleFatal
    BY <2>6, HandleDropStep
  <2>7. CASE HandleStartCompress
    BY <2>7, HandleStartCompressStep
  <2>8. CASE UNCHANGED vars
    BY <2>8 DEF vars, pumpVars, history, IInv, TypeOK, Owned, Ordered, CorruptedIsPlain
  <2> QED
    BY <2>1, <2>2, <2>3, <2>4, <2>5, <2>6, <2>7, <2>8 DEF Next, Handle
<1> QED
  BY <1>1, <1>2, PTL DEF Spec

\* Every variable of the two threads keeps its type, for streams of any length.
THEOREM TypeCorrect == Spec => []TypeOK
<1>1. IInv => TypeOK
  BY DEF IInv
<1> QED
  BY <1>1, Correct, PTL

\* However slow the handler is, no byte of the server reaches the window twice.
THEOREM ShownOnlyOnce == Spec => []ShownOnce
<1>1. IInv => ShownOnce
  BY DEF IInv, Owned, OwnedOnce, Distinct, ShownOnce
<1> QED
  BY <1>1, Correct, PTL

\* With a handler that answers before the next poll, the window shows the server's
\* bytes in the order in which they were sent.
THEOREM ShownInOrder == Spec => []InOrder
<1>1. IInv => InOrder
  BY DEF IInv, Ordered, OneAtATime, Increasing, InOrder
<1> QED
  BY <1>1, Correct, PTL

\* A pump that has reported a fatal error does not inflate until it is told to.
THEOREM CorruptedStopsInflating == Spec => []CorruptedIsPlain
<1>1. IInv => CorruptedIsPlain
  BY DEF IInv
<1> QED
  BY <1>1, Correct, PTL

(***************************************************************************)
(* OnlyText and LossIsTheLastCall.  With a prompt handler the pump and the *)
(* handler take turns: what the one message there is asks for is what the  *)
(* stream has at that place, so the inflater is never fed anything else.   *)
(* n is how far the stream has been dealt with: up to there, what is shown *)
(* is what LossIsTheLastCall says.  Told asks for more than that: a byte   *)
(* that is inflated and not the last of its stream ends a call, and later  *)
(* calls end where the pump has read to.                                   *)
(***************************************************************************)
Streaming(s, i) == i >= 1 /\ s[i] \in {"marker", "z"}
StreamOK(s)     == \A i \in DOMAIN s : s[i] \in Z <=> Streaming(s, i - 1)

Settled ==
    /\ mCompressed <=> Streaming(sent, got)
    /\ IF mCompressed /\ inflater # 0 THEN inflater = got
       ELSE inflater = 0 /\ (mCompressed => sent[got] = "marker")
Idle         == ~mCompressed /\ inflater = 0
ToInflate(c) == Idle /\ c.lo > 1 /\ sent[c.lo - 1] = "marker"
ToShow(c)    == Idle /\ ~Streaming(sent, c.lo - 1)
UpToDate(c)  == c.hi = got /\ c.lo <= got + 1
Deserved(d)  ==
    \/ d.what = "PROCESS" /\ ToShow(d.data)
    \/ d.what = "STARTCOMPRESS" /\ ToInflate(d.data)
    \/ /\ d.what = "INFLATED" /\ Settled /\ got \in cuts
       /\ \A i \in d.data.lo .. d.data.hi : sent[i] = "z"
InTurn ==
    /\ inbox # <<>> => UpToDate(Head(inbox).data) /\ Deserved(Head(inbox))
    /\ mailbox # <<>> => UpToDate(Head(mailbox)) /\ ToInflate(Head(mailbox))
    /\ inbox = <<>> /\ mailbox = <<>> => Settled

Showing(sh, i) == \E k \in DOMAIN sh : sh[k] = i
LostIn(s, c, i, n) ==
    s[i] = "z" /\ \E e \in i + 1 .. n :
                    s[e] = "end" /\ \A j \in i .. e - 1 : s[j] = "z" /\ j \notin c
Kept(s, c, i, n) == s[i] \in {"text", "z"} /\ ~LostIn(s, c, i, n)
Told(sh, s, c, g, n) ==
    /\ \A i \in 1 .. n : Showing(sh, i) <=> Kept(s, c, i, n)
    /\ n >= 1 /\ s[n] = "z" => n \in c
    /\ \A j \in c : j <= n \/ j = g
Upto == IF inbox # <<>> THEN Head(inbox).data.lo - 1
        ELSE IF mailbox # <<>> THEN Head(mailbox).lo - 1 ELSE got

InOrderInv == prompt => ~garbled /\ ~mCorrupted /\ InTurn /\ Told(shown, sent, cuts, got, Upto)
SInv       == StreamOK(sent) /\ InOrderInv

\* First finds the first.
LEMMA FirstFinds ==
  ASSUME NEW kind, NEW lo \in Nat, NEW hi \in Nat
  PROVE  /\ First(kind, lo, hi) \in lo .. hi => sent[First(kind, lo, hi)] = kind
         /\ \A i \in lo .. hi : i < First(kind, lo, hi) => sent[i] # kind
<1> DEFINE S == {i \in lo .. hi : sent[i] = kind} \union {hi + 1}
<1>1. S \in SUBSET Nat /\ S # {}
  OBVIOUS
<1>2. Min(S) \in S /\ \A y \in S : Min(S) <= y
  BY <1>1, MinIs
<1> QED
  BY <1>1, <1>2 DEF First

\* Inside a compressed part there are compressed bytes up to its end.
LEMMA AllZ ==
  ASSUME sent \in Seq(Kinds), StreamOK(sent), NEW lo \in Nat, NEW hi \in Nat,
         lo >= 1, hi <= Len(sent), Streaming(sent, lo - 1),
         \A i \in lo .. hi : sent[i] # "end"
  PROVE  \A i \in lo .. hi : sent[i] = "z"
<1> DEFINE B == {i \in lo .. hi : sent[i] # "z"}
<1> SUFFICES ASSUME B # {}
             PROVE  FALSE
  OBVIOUS
<1>1. B \in SUBSET Nat
  OBVIOUS
<1> DEFINE m == Min(B)
<1>2. m \in B /\ \A y \in B : m <= y
  BY <1>1, MinIs
<1> HIDE DEF m
<1>3. m \in DOMAIN sent /\ m \in lo .. hi /\ sent[m] # "z" /\ sent[m] # "end"
  BY <1>2
<1>4. Streaming(sent, m - 1)
  <2>1. CASE m = lo
    BY <2>1
  <2>2. CASE m # lo
    <3>1. m - 1 \in lo .. hi /\ m - 1 \notin B
      BY <1>2, <1>3, <2>2
    <3> QED
      BY <3>1 DEF Streaming
  <2> QED
    BY <2>1, <2>2
<1> QED
  BY <1>3, <1>4 DEF StreamOK, Z

\* Outside there is text up to the next marker.
LEMMA AllText ==
  ASSUME sent \in Seq(Kinds), StreamOK(sent), NEW lo \in Nat, NEW hi \in Nat,
         lo >= 1, hi <= Len(sent), ~Streaming(sent, lo - 1),
         \A i \in lo .. hi : sent[i] # "marker"
  PROVE  \A i \in lo .. hi : sent[i] = "text"
<1> DEFINE B == {i \in lo .. hi : sent[i] # "text"}
<1> SUFFICES ASSUME B # {}
             PROVE  FALSE
  OBVIOUS
<1>1. B \in SUBSET Nat
  OBVIOUS
<1> DEFINE m == Min(B)
<1>2. m \in B /\ \A y \in B : m <= y
  BY <1>1, MinIs
<1> HIDE DEF m
<1>3. m \in DOMAIN sent /\ m \in lo .. hi /\ sent[m] \in Z
  BY <1>2 DEF Kinds, Z
<1>4. ~Streaming(sent, m - 1)
  <2>1. CASE m = lo
    BY <2>1
  <2>2. CASE m # lo
    <3>1. m - 1 \in lo .. hi /\ m - 1 \notin B
      BY <1>2, <1>3, <2>2
    <3> QED
      BY <3>1 DEF Streaming
  <2> QED
    BY <2>1, <2>2
<1> QED
  BY <1>3, <1>4 DEF StreamOK

\* What is shown after lo..u.
LEMMA ShowingMore ==
  ASSUME NEW sh \in Seq(Nat), NEW lo \in Nat, NEW u \in Nat, NEW i \in Nat
  PROVE  Showing(sh \o Run(lo, u), i) <=> Showing(sh, i) \/ i \in lo .. u
<1> DEFINE r == Run(lo, u)
           t == sh \o r
<1>1. r \in Seq(Nat) /\ \A k \in DOMAIN r : r[k] = lo + k - 1 /\ r[k] \in lo .. u
  BY RunIs
<1>2. i \in lo .. u => i - lo + 1 \in DOMAIN r
  BY DEF Run
<1> HIDE DEF r
<1>3. ASSUME Showing(t, i) PROVE Showing(sh, i) \/ i \in lo .. u
  <2>1. PICK k \in DOMAIN t : t[k] = i
    BY <1>3 DEF Showing
  <2>2. \/ k \in DOMAIN sh /\ t[k] = sh[k]
        \/ k - Len(sh) \in DOMAIN r /\ t[k] = r[k - Len(sh)]
    BY <1>1, <2>1, ConcatIs
  <2> QED
    BY <1>1, <2>1, <2>2 DEF Showing
<1>4. ASSUME Showing(sh, i) PROVE Showing(t, i)
  <2>1. PICK k \in DOMAIN sh : sh[k] = i
    BY <1>4 DEF Showing
  <2>2. k \in DOMAIN t /\ t[k] = sh[k]
    BY <1>1, <2>1
  <2> QED
    BY <2>1, <2>2 DEF Showing
<1>5. ASSUME i \in lo .. u PROVE Showing(t, i)
  <2> DEFINE k == i - lo + 1
  <2>1. k \in DOMAIN r /\ r[k] = i
    BY <1>1, <1>2, <1>5
  <2>2. Len(sh) + k \in DOMAIN t /\ t[Len(sh) + k] = r[k]
    BY <1>1, <2>1
  <2> QED
    BY <2>1, <2>2 DEF Showing
<1> QED
  BY <1>3, <1>4, <1>5 DEF r

\* The next part of the stream, up to m, has been dealt with: what is lost of the
\* part before stays lost and what is kept stays kept.
LEMMA ToldGrows ==
  ASSUME NEW sh, NEW t, NEW s, NEW c \in SUBSET Nat, NEW d, NEW g \in Nat, NEW h \in Nat,
         NEW n \in Nat, NEW m \in Nat, n <= m, m <= h, g = h \/ g <= m,
         d = c \/ d = c \union {h}, Told(sh, s, c, g, n),
         \A i \in 1 .. n : Showing(t, i) <=> Showing(sh, i),
         \A i \in n + 1 .. m : Showing(t, i) <=> Kept(s, d, i, m),
         m >= 1 /\ s[m] = "z" => m \in d
  PROVE  Told(t, s, d, h, m)
<1>1. ASSUME NEW i \in 1 .. n
      PROVE  LostIn(s, d, i, m) <=> LostIn(s, c, i, n)
  <2>1. ASSUME NEW e \in i + 1 .. m, s[e] = "end", \A j \in i .. e - 1 : s[j] = "z" /\ j \notin d
        PROVE  e \in i + 1 .. n /\ \A j \in i .. e - 1 : j \notin c
    <3>1. ~(n \in i .. e - 1)
      BY <2>1 DEF Told
    <3> QED
      BY <2>1, <3>1
  <2>2. ASSUME NEW e \in i + 1 .. n, \A j \in i .. e - 1 : j \notin c
        PROVE  e \in i + 1 .. m /\ \A j \in i .. e - 1 : j \notin d
    <3>1. \A j \in i .. e - 1 : j # h
      OBVIOUS
    <3> QED
      BY <2>2, <3>1
  <2> QED
    BY <2>1, <2>2 DEF LostIn
<1>2. \A i \in 1 .. m : Showing(t, i) <=> Kept(s, d, i, m)
  BY <1>1 DEF Told, Kept
<1>3. \A j \in d : j <= m \/ j = h
  <2>1. \A j \in c : j \in Nat /\ (j <= n \/ j = g)
    BY DEF Told
  <2>2. \A j \in d : j \in c \/ j = h
    OBVIOUS
  <2>3. \A j \in c : j <= m \/ j = h
    BY <2>1
  <2> QED
    BY <2>2, <2>3
<1> QED
  BY <1>2, <1>3 DEF Told

\* doDecompress in its turn: the bytes up to hi are inflated and posted, or those
\* up to the end of the part are not, and the rest is posted.
LEMMA Decompresses ==
  ASSUME sent \in Seq(Kinds), StreamOK(sent), NEW lo \in Nat, NEW hi \in Nat,
         1 <= lo, lo <= hi, hi <= Len(sent), Streaming(sent, lo - 1),
         IF inflater = 0 THEN lo > 1 /\ sent[lo - 1] = "marker" ELSE inflater = lo - 1,
         NEW corrupted, corrupted = FALSE, DoDecompress(lo, hi, corrupted)
  PROVE  /\ ~mCorrupted'
         /\ \/ /\ inbox' = Append(inbox, Msg("INFLATED", lo, hi))
               /\ mCompressed' /\ inflater' = hi /\ \A i \in lo .. hi : sent[i] = "z"
            \/ \E e \in lo .. hi :
                  /\ inbox' = Append(inbox, Msg("PROCESS", e + 1, hi))
                  /\ ~mCompressed' /\ inflater' = 0
                  /\ sent[e] = "end" /\ \A i \in lo .. e - 1 : sent[i] = "z"
<1> DEFINE e == EndIn(lo, hi)
<1>1. /\ e \in Nat /\ (e \in lo .. hi \/ e = hi + 1)
      /\ e \in lo .. hi => sent[e] = "end"
      /\ \A i \in lo .. hi : i < e => sent[i] # "end"
  BY FirstIs, FirstFinds DEF EndIn
<1>2. \A i \in lo .. e - 1 : sent[i] = "z"
  BY <1>1, AllZ
<1>3. Feeds(lo, IF e <= hi THEN e ELSE hi)
  <2>1. \A i \in lo .. IF e <= hi THEN e ELSE hi : sent[i] \in Z
    BY <1>1, <1>2 DEF Z
  <2> QED
    BY <2>1 DEF Feeds
<1>4. ~Fails(lo, hi, corrupted)
  BY <1>3 DEF Fails
<1>5. CASE Inflates(lo, hi, corrupted)
  <2>1. e > hi
    BY <1>5 DEF Inflates
  <2>2. inbox' = Append(inbox, Msg("INFLATED", lo, hi)) /\ mCompressed' /\ ~mCorrupted'
        /\ inflater' = hi
    BY <1>5 DEF Inflates, Inflated
  <2> HIDE DEF e
  <2> QED
    BY <1>1, <1>2, <2>1, <2>2
<1>6. CASE Finishes(lo, hi)
  <2>1. e <= hi
    BY <1>6 DEF Finishes
  <2>2. inbox' = Append(inbox, Msg("PROCESS", e + 1, hi)) /\ ~mCompressed' /\ ~mCorrupted'
        /\ inflater' = 0
    BY <1>6 DEF Finishes, Remainder, Bytes
  <2> HIDE DEF e
  <2> QED
    BY <1>1, <1>2, <2>1, <2>2
<1> QED
  BY <1>4, <1>5, <1>6 DEF DoDecompress

(***************************************************************************)
(* The actions, with a prompt handler.                                     *)
(***************************************************************************)
\* What the invariants say when the handler is prompt.
LEMMA Prompted ==
  ASSUME IInv, SInv, prompt
  PROVE  /\ sent \in Seq(Kinds) /\ got \in Nat /\ got <= Len(sent) /\ Len(sent) \in Nat
         /\ inbox \in Seq(Message) /\ mailbox \in Seq(Chunk) /\ shown \in Seq(Nat)
         /\ cuts \subseteq Nat /\ inflater \in Nat /\ mCompressed \in BOOLEAN
         /\ inbox = <<>> \/ mailbox = <<>>
         /\ Len(inbox) <= 1 /\ Len(mailbox) <= 1
         /\ StreamOK(sent) /\ ~garbled /\ ~mCorrupted /\ InTurn
         /\ Told(shown, sent, cuts, got, Upto)
<1>1. sent \in Seq(Kinds) /\ cuts \subseteq Nat /\ inflater \in Nat /\ mCompressed \in BOOLEAN
  BY Numbers DEF IInv, TypeOK
<1> QED
  BY <1>1, Typed DEF IInv, Ordered, OneAtATime, SInv, InOrderInv

\* The server goes on: what it has sent stands.
LEMMA SendTold ==
  ASSUME IInv, SInv, Send
  PROVE  SInv'
<1>1. /\ UNCHANGED <<got, inbox, mailbox, pumpVars, history, prompt>> /\ sent \in Seq(Kinds)
      /\ got \in Nat /\ got <= Len(sent)
  BY Typed DEF Send, IInv, TypeOK
<1>2. PICK k \in Kinds : Follows(k) /\ sent' = Append(sent, k)
  BY DEF Send
<1>3. /\ DOMAIN sent' = 1 .. Len(sent) + 1 /\ sent'[Len(sent) + 1] = k
      /\ \A i \in 1 .. Len(sent) : sent'[i] = sent[i]
      /\ DOMAIN sent = 1 .. Len(sent) /\ Len(sent) \in Nat
  BY <1>1, <1>2
<1>4. \A i \in 0 .. Len(sent) : Streaming(sent', i) <=> Streaming(sent, i)
  BY <1>3 DEF Streaming
<1>5. k \in Z <=> Streaming(sent, Len(sent))
  <2>1. sent # <<>> <=> Len(sent) >= 1
    BY <1>1
  <2> QED
    BY <1>2, <1>3, <2>1 DEF Follows, Streaming, Z
<1>6. StreamOK(sent')
  <2> SUFFICES ASSUME NEW i \in DOMAIN sent'
               PROVE  sent'[i] \in Z <=> Streaming(sent', i - 1)
    BY DEF StreamOK
  <2>1. i - 1 \in 0 .. Len(sent)
    BY <1>3
  <2>2. CASE i \in 1 .. Len(sent)
    BY <1>3, <1>4, <2>1, <2>2 DEF SInv, StreamOK
  <2>3. CASE i = Len(sent) + 1
    BY <1>3, <1>4, <1>5, <2>3
  <2> QED
    BY <1>3, <2>2, <2>3
<1>7. ASSUME prompt
      PROVE  ~garbled' /\ ~mCorrupted' /\ InTurn' /\ Told(shown', sent', cuts', got', Upto')
  <2>1. ~garbled' /\ ~mCorrupted'
    BY <1>1, <1>7 DEF SInv, InOrderInv, pumpVars, history
  <2>2. /\ inbox # <<>> => Head(inbox).data.lo \in Nat /\ Head(inbox).data.lo >= 1
                           /\ Head(inbox).data.hi \in Nat
        /\ mailbox # <<>> => Head(mailbox).lo \in Nat /\ Head(mailbox).lo >= 1
    <3>1. mailbox # <<>> => Head(mailbox) = mailbox[1] /\ 1 \in DOMAIN mailbox
                           /\ Head(mailbox) \in Chunk
      BY <1>7, Prompted
    <3> QED
      BY <3>1, HeadIs, Numbers DEF IInv, Owned, OwnedOnce, MailboxOwns, Fits
  <2>3. Settled => Settled'
    <3>1. Streaming(sent', got) <=> Streaming(sent, got)
      BY <1>1, <1>4
    <3>2. Streaming(sent, got) /\ sent[got] = "marker" => sent'[got] = "marker"
      BY <1>1, <1>3 DEF Streaming
    <3> QED
      BY <1>1, <3>1, <3>2 DEF Settled, pumpVars
  <2>4. InTurn'
    <3>1. inbox # <<>> => UpToDate(Head(inbox).data)' /\ Deserved(Head(inbox))'
      <4> SUFFICES ASSUME inbox # <<>>
                   PROVE  UpToDate(Head(inbox).data)' /\ Deserved(Head(inbox))'
        OBVIOUS
      <4> DEFINE d == Head(inbox)
      <4>1. UpToDate(d.data) /\ Deserved(d) /\ d.data.lo \in Nat /\ d.data.lo >= 1 /\ d.data.hi \in Nat
        BY <1>7, <2>2, Prompted DEF InTurn
      <4>2. UNCHANGED d
        BY <1>1
      <4>3. \A i \in d.data.lo .. d.data.hi : sent[i] = "z" => sent'[i] = "z"
        BY <1>1, <1>3, <4>1 DEF UpToDate
      <4> HIDE DEF d
      <4>4. UpToDate(d.data)'
        BY <1>1, <4>1, <4>2 DEF UpToDate
      <4>5. d.data.lo - 1 \in 0 .. Len(sent)
        BY <1>1, <4>1 DEF UpToDate
      <4>6. (ToShow(d.data) => ToShow(d.data)') /\ (ToInflate(d.data) => ToInflate(d.data)')
        <5>1. Streaming(sent', d.data.lo - 1) <=> Streaming(sent, d.data.lo - 1)
          BY <1>4, <4>5
        <5>2. ToShow(d.data) => ToShow(d.data)'
          BY <1>1, <4>2, <5>1 DEF ToShow, Idle, pumpVars
        <5>3. ToInflate(d.data) => ToInflate(d.data)'
          BY <1>1, <1>3, <4>1, <4>2, <4>5 DEF ToInflate, Idle, pumpVars
        <5> QED
          BY <5>2, <5>3
      <4>7. Deserved(d)'
        BY <1>1, <2>3, <4>1, <4>2, <4>3, <4>6 DEF Deserved, history
      <4> QED
        BY <4>4, <4>7 DEF d
    <3>2. mailbox # <<>> => UpToDate(Head(mailbox))' /\ ToInflate(Head(mailbox))'
      <4> SUFFICES ASSUME mailbox # <<>>
                   PROVE  UpToDate(Head(mailbox))' /\ ToInflate(Head(mailbox))'
        OBVIOUS
      <4> DEFINE c == Head(mailbox)
      <4>1. UpToDate(c) /\ ToInflate(c) /\ c.lo \in Nat /\ c.lo >= 1
        BY <1>7, <2>2, Prompted DEF InTurn
      <4>2. UNCHANGED c
        BY <1>1
      <4> HIDE DEF c
      <4>3. c.lo - 1 \in 0 .. Len(sent)
        BY <1>1, <4>1 DEF UpToDate
      <4>4. UpToDate(c)' /\ ToInflate(c)'
        BY <1>1, <1>3, <4>1, <4>2, <4>3 DEF UpToDate, ToInflate, Idle, pumpVars
      <4> QED
        BY <4>4 DEF c
    <3>3. inbox = <<>> /\ mailbox = <<>> => Settled'
      BY <1>7, <2>3, Prompted DEF InTurn
    <3> QED
      BY <1>1, <3>1, <3>2, <3>3 DEF InTurn
  <2>5. Told(shown', sent', cuts', got', Upto')
    <3>1. Upto' = Upto
      BY <1>1 DEF Upto
    <3> DEFINE n == Upto
    <3>2. n \in Nat /\ n <= Len(sent) /\ Told(shown, sent, cuts, got, n)
      <4>1. Told(shown, sent, cuts, got, n) /\ InTurn
        BY <1>7, Prompted
      <4> QED
        BY <1>1, <2>2, <4>1 DEF Upto, InTurn, UpToDate
    <3> HIDE DEF n
    <3>3. \A i \in 1 .. n : Kept(sent', cuts, i, n) <=> Kept(sent, cuts, i, n)
      <4> SUFFICES ASSUME NEW i \in 1 .. n
                   PROVE  Kept(sent', cuts, i, n) <=> Kept(sent, cuts, i, n)
        OBVIOUS
      <4>1. sent'[i] = sent[i]
        BY <1>3, <3>2
      <4>2. \A e \in i + 1 .. n : /\ sent'[e] = sent[e]
                                   /\ \A j \in i .. e - 1 : sent'[j] = sent[j]
        BY <1>3, <3>2
      <4> QED
        BY <4>1, <4>2 DEF Kept, LostIn
    <3>4. Told(shown, sent', cuts, got, n)
      BY <1>3, <3>2, <3>3 DEF Told
    <3> QED
      BY <1>1, <3>1, <3>4 DEF n, history
  <2> QED
    BY <2>1, <2>4, <2>5
<1> QED
  BY <1>1, <1>6, <1>7 DEF SInv, InOrderInv

\* Nothing of a message that is waiting has been shown.
LEMMA ClearShows ==
  ASSUME NEW sh \in Seq(Nat), NEW c \in Chunk, Clear(sh, c)
  PROVE  \A i \in c.lo .. c.hi : ~Showing(sh, i)
<1>1. c.lo \in Nat /\ c.hi \in Nat
  BY Numbers
<1> QED
  BY <1>1 DEF Clear, Showing

\* What is inflated in the call that meets the end is lost.
LEMMA LastCallLost ==
  ASSUME NEW s, NEW c \in SUBSET Nat, NEW lo \in Nat, NEW hi \in Nat, NEW e \in lo .. hi,
         s[e] = "end", \A j \in lo .. e - 1 : s[j] = "z",
         \A j \in c : j < lo \/ j = hi, NEW i \in lo .. e
  PROVE  ~Kept(s, c \union {hi}, i, e)
<1>1. CASE i = e
  BY <1>1 DEF Kept
<1>2. CASE i # e
  <2>1. e \in i + 1 .. e /\ \A j \in i .. e - 1 : s[j] = "z" /\ j \notin c \union {hi}
    BY <1>2
  <2>2. s[i] = "z"
    BY <1>2
  <2> QED
    BY <2>1, <2>2 DEF Kept, LostIn
<1> QED
  BY <1>1, <1>2

LEMMA DecompressTold ==
  ASSUME IInv, SInv, prompt, NEW lo \in Nat, NEW hi \in Nat, 1 <= lo, lo <= hi,
         hi <= Len(sent), got' = hi, got = hi \/ got = lo - 1,
         Told(shown, sent, cuts, got, lo - 1), \A i \in lo .. hi : ~Showing(shown, i),
         Streaming(sent, lo - 1),
         IF inflater = 0 THEN lo > 1 /\ sent[lo - 1] = "marker" ELSE inflater = lo - 1,
         NEW corrupted, corrupted = FALSE, DoDecompress(lo, hi, corrupted),
         inbox = <<>>, mailbox' = <<>>, cuts' = cuts \union {hi},
         UNCHANGED <<sent, shown, garbled, prompt>>
  PROVE  SInv'
<1>a. sent \in Seq(Kinds) /\ StreamOK(sent) /\ cuts \in SUBSET Nat /\ ~garbled
  BY Prompted
<1>b. \A j \in cuts : j < lo \/ j = hi
  BY <1>a DEF Told
<1>1. ~mCorrupted'
  BY <1>a, Decompresses
<1>2. CASE /\ inbox' = Append(inbox, Msg("INFLATED", lo, hi))
           /\ mCompressed' /\ inflater' = hi /\ \A i \in lo .. hi : sent[i] = "z"
  <2> DEFINE d == Msg("INFLATED", lo, hi)
  <2>1. d.what = "INFLATED" /\ d.data.lo = lo /\ d.data.hi = hi
    BY DEF Msg, Bytes
  <2> HIDE DEF d
  <2>2. inbox' = <<d>> /\ inbox' # <<>> /\ Head(inbox') = d
    BY <1>2 DEF d
  <2>3. Settled'
    BY <1>2 DEF Settled, Streaming
  <2>4. Deserved(d)'
    BY <1>2, <2>1, <2>3 DEF Deserved, d, Msg, Bytes
  <2>5. UpToDate(d.data)'
    BY <2>1 DEF UpToDate, d, Msg, Bytes
  <2>6. InTurn'
    BY <2>2, <2>4, <2>5 DEF InTurn, d, Msg, Bytes
  <2>7. Upto' = lo - 1
    BY <2>1, <2>2 DEF Upto
  <2>8. Told(shown, sent, cuts', hi, lo - 1)
    <3>1. lo - 1 \in Nat /\ lo - 1 <= hi /\ got \in Nat /\ (got = hi \/ got <= lo - 1)
      OBVIOUS
    <3>2. \A i \in lo - 1 + 1 .. lo - 1 : Showing(shown, i) <=> Kept(sent, cuts', i, lo - 1)
      OBVIOUS
    <3>3. lo - 1 >= 1 /\ sent[lo - 1] = "z" => lo - 1 \in cuts'
      BY DEF Told
    <3> QED
      BY <1>a, <3>1, <3>2, <3>3, ToldGrows
  <2> QED
    BY <1>a, <1>1, <2>6, <2>7, <2>8 DEF SInv, InOrderInv
<1>3. ASSUME NEW e \in lo .. hi, inbox' = Append(inbox, Msg("PROCESS", e + 1, hi)),
             ~mCompressed', inflater' = 0,
             sent[e] = "end", \A i \in lo .. e - 1 : sent[i] = "z"
      PROVE  SInv'
  <2> DEFINE d == Msg("PROCESS", e + 1, hi)
  <2>1. d.what = "PROCESS" /\ d.data.lo = e + 1 /\ d.data.hi = hi
    BY DEF Msg, Bytes
  <2> HIDE DEF d
  <2>2. inbox' = <<d>> /\ inbox' # <<>> /\ Head(inbox') = d
    BY <1>3 DEF d
  <2>3. Deserved(d)'
    BY <1>3 DEF Deserved, ToShow, Idle, Streaming, d, Msg, Bytes
  <2>4. UpToDate(d.data)'
    BY <1>3 DEF UpToDate, d, Msg, Bytes
  <2>5. InTurn'
    BY <2>2, <2>3, <2>4 DEF InTurn, d, Msg, Bytes
  <2>6. Upto' = e
    BY <1>3, <2>1, <2>2 DEF Upto
  <2>7. Told(shown, sent, cuts', hi, e)
    <3>1. lo - 1 \in Nat /\ e \in Nat /\ lo - 1 <= e /\ e <= hi /\ got \in Nat
          /\ (got = hi \/ got <= e)
      BY <1>3
    <3>2. \A i \in lo - 1 + 1 .. e : Showing(shown, i) <=> Kept(sent, cuts', i, e)
      <4>1. ASSUME NEW i \in lo .. e
            PROVE  ~Showing(shown, i) /\ ~Kept(sent, cuts', i, e)
        <5>1. ~Showing(shown, i)
          BY <1>3
        <5>2. ~Kept(sent, cuts \union {hi}, i, e)
          BY <1>a, <1>b, <1>3, LastCallLost
        <5> QED
          BY <5>1, <5>2
      <4>2. lo - 1 + 1 = lo
        OBVIOUS
      <4> QED
        BY <4>1, <4>2
    <3>3. e >= 1 /\ sent[e] = "z" => e \in cuts'
      BY <1>3
    <3> QED
      BY <1>a, <3>1, <3>2, <3>3, ToldGrows
  <2> QED
    BY <1>a, <1>1, <2>5, <2>6, <2>7 DEF SInv, InOrderInv
<1> QED
  BY <1>a, <1>2, <1>3, Decompresses

LEMMA PollTold ==
  ASSUME IInv, SInv, prompt, Poll
  PROVE  SInv'
<1>a. /\ sent \in Seq(Kinds) /\ got \in Nat /\ Len(sent) \in Nat /\ shown \in Seq(Nat)
      /\ cuts \in SUBSET Nat /\ StreamOK(sent) /\ ~garbled /\ ~mCorrupted /\ InTurn
  BY Prompted
<1>1. /\ inbox = <<>> /\ mailbox = <<>> /\ mailbox' = <<>>
      /\ got < Len(sent) /\ got' = Len(sent) /\ UNCHANGED <<sent, shown, garbled, prompt>>
  BY DEF Poll
<1>2. Settled /\ Upto = got /\ Told(shown, sent, cuts, got, got)
  BY <1>1, Prompted DEF InTurn, Upto
<1>3. CASE mCompressed
  <2>1. DoDecompress(got + 1, Len(sent), mCorrupted) /\ cuts' = cuts \union {Len(sent)}
    BY <1>3 DEF Poll
  <2>2. Streaming(sent, got)
    BY <1>2, <1>3 DEF Settled
  <2>3. IF inflater = 0 THEN got + 1 > 1 /\ sent[got] = "marker" ELSE inflater = got
    BY <1>a, <1>2, <1>3, <2>2 DEF Settled, Streaming
  <2>4. \A i \in got + 1 .. Len(sent) : ~Showing(shown, i)
    BY <1>a DEF IInv, Owned, OwnedOnce, Read, Showing
  <2> DEFINE lo == got + 1
  <2>5. /\ lo \in Nat /\ 1 <= lo /\ lo <= Len(sent) /\ Len(sent) <= Len(sent) /\ lo - 1 = got
    BY <1>a, <1>1
  <2>6. Told(shown, sent, cuts, got, lo - 1) /\ Streaming(sent, lo - 1)
    BY <1>2, <2>2, <2>5
  <2>7. IF inflater = 0 THEN lo > 1 /\ sent[lo - 1] = "marker" ELSE inflater = lo - 1
    BY <2>3, <2>5
  <2>8. DoDecompress(lo, Len(sent), mCorrupted) /\ mCorrupted = FALSE
    BY <1>a, <2>1 DEF IInv, TypeOK
  <2>9. \A i \in lo .. Len(sent) : ~Showing(shown, i)
    BY <2>4
  <2> HIDE DEF lo
  <2> QED
    BY <1>a, <1>1, <2>1, <2>5, <2>6, <2>7, <2>8, <2>9, DecompressTold
<1>4. CASE ~mCompressed
  <2> DEFINE d == Msg("PROCESS", got + 1, Len(sent))
  <2>1. inbox' = Append(inbox, d) /\ UNCHANGED <<pumpVars, cuts>>
    BY <1>4 DEF Poll
  <2>2. d.what = "PROCESS" /\ d.data.lo = got + 1 /\ d.data.hi = Len(sent)
    BY DEF Msg, Bytes
  <2> HIDE DEF d
  <2>3. inbox' = <<d>> /\ inbox' # <<>> /\ Head(inbox') = d /\ UNCHANGED <<pumpVars, cuts>>
    BY <1>1, <2>1
  <2>4. Idle /\ ~Streaming(sent, got)
    BY <1>2, <1>4 DEF Settled, Idle
  <2>5. Head(inbox').data.lo - 1 = got
    BY <1>a, <2>3, <2>2
  <2>6. Idle' /\ ~Streaming(sent', Head(inbox').data.lo - 1)
    BY <1>1, <2>3, <2>2, <2>4, <2>5 DEF Idle, pumpVars
  <2>7. InTurn'
    BY <1>a, <1>1, <2>3, <2>2, <2>6 DEF InTurn, UpToDate, Deserved, ToShow
  <2>8. Upto' = got
    BY <2>3, <2>5 DEF Upto
  <2>9. Told(shown, sent, cuts, got', got)
    <3>1. \A j \in cuts : j <= got
      BY <1>a, <1>2 DEF Told
    <3> QED
      BY <1>2, <3>1 DEF Told
  <2> QED
    BY <1>a, <1>1, <2>3, <2>7, <2>8, <2>9 DEF SInv, InOrderInv, pumpVars
<1> QED
  BY <1>3, <1>4

LEMMA CompressTold ==
  ASSUME IInv, SInv, prompt, Compress
  PROVE  SInv'
<1> DEFINE c == Head(mailbox)
<1>a. /\ sent \in Seq(Kinds) /\ got \in Nat /\ got <= Len(sent) /\ shown \in Seq(Nat)
      /\ cuts \in SUBSET Nat /\ StreamOK(sent) /\ ~garbled /\ ~mCorrupted /\ InTurn
      /\ mailbox \in Seq(Chunk) /\ mailbox # <<>> /\ inbox = <<>> /\ Len(mailbox) <= 1
  BY Prompted DEF Compress
<1>1. /\ mailbox' = <<>> /\ cuts' = cuts \union {c.hi}
      /\ UNCHANGED <<sent, got, shown, garbled, prompt>>
  BY <1>a DEF Compress
<1>2. c \in Chunk /\ Clear(shown, c) /\ c.lo >= 1 /\ c.lo \in Nat /\ c.hi \in Nat
  BY <1>a, Numbers DEF IInv, Owned, OwnedOnce, MailboxOwns, Fits
<1>3. c.hi = got /\ c.lo <= got + 1 /\ ToInflate(c)
  BY <1>a DEF InTurn, UpToDate
<1>4. Told(shown, sent, cuts, got, c.lo - 1)
  <2>1. Upto = c.lo - 1
    BY <1>a DEF Upto
  <2> QED
    BY <2>1, Prompted
<1>5. Streaming(sent, c.lo - 1) /\ c.lo > 1 /\ sent[c.lo - 1] = "marker" /\ inflater = 0
  BY <1>2, <1>3 DEF ToInflate, Idle, Streaming
<1>6. \A i \in c.lo .. c.hi : ~Showing(shown, i)
  BY <1>a, <1>2, ClearShows
<1>7. CASE c.lo <= c.hi
  <2>1. DoDecompress(c.lo, c.hi, FALSE)
    BY <1>7 DEF Compress
  <2> HIDE DEF c
  <2> QED
    BY <1>a, <1>1, <1>2, <1>3, <1>4, <1>5, <1>6, <1>7, <2>1, DecompressTold
<1>8. CASE ~(c.lo <= c.hi)
  <2>1. mCompressed' = TRUE /\ mCorrupted' = FALSE /\ UNCHANGED <<inflater, inbox>>
    BY <1>8 DEF Compress
  <2>2. c.lo - 1 = got
    <3>1. c.lo \in Nat /\ got \in Nat /\ c.lo <= got + 1 /\ ~(c.lo <= got)
      BY <1>a, <1>2, <1>3, <1>8
    <3> HIDE DEF c
    <3> QED
      BY <3>1
  <2> HIDE DEF c
  <2>3. Settled'
    BY <1>1, <1>5, <2>1, <2>2 DEF Settled
  <2>4. InTurn' /\ Upto' = got
    BY <1>a, <1>1, <2>1, <2>3 DEF InTurn, Upto
  <2>5. Told(shown, sent, cuts', got, got)
    BY <1>1, <1>3, <1>4, <1>5, <2>2 DEF Told, Kept, LostIn
  <2> QED
    BY <1>a, <1>1, <2>1, <2>4, <2>5 DEF SInv, InOrderInv
<1> QED
  BY <1>7, <1>8

\* What a prompt handler is about to handle.
LEMMA HeadTold ==
  ASSUME IInv, SInv, prompt, inbox # <<>>
  PROVE  /\ Tail(inbox) = <<>> /\ mailbox = <<>> /\ Deserved(Head(inbox))
         /\ Head(inbox).data.hi = got /\ Head(inbox).data.lo <= got + 1
         /\ Head(inbox).data.lo >= 1 /\ Head(inbox).data.lo \in Nat /\ got \in Nat
         /\ Head(inbox).data \in Chunk /\ Clear(shown, Head(inbox).data)
         /\ Told(shown, sent, cuts, got, Head(inbox).data.lo - 1)
<1>1. inbox \in Seq(Message) /\ Len(inbox) <= 1 /\ (inbox = <<>> \/ mailbox = <<>>)
      /\ InTurn /\ got \in Nat /\ Told(shown, sent, cuts, got, Upto)
  BY Prompted
<1>2. Head(inbox) = inbox[1] /\ 1 \in DOMAIN inbox /\ Head(inbox) \in Message
      /\ Tail(inbox) = <<>>
  BY <1>1
<1>3. Clear(shown, Head(inbox).data) /\ Fits(Head(inbox).data, got)
  BY <1>2 DEF IInv, Owned, OwnedOnce, InboxOwns
<1> QED
  BY <1>1, <1>2, <1>3, Numbers DEF InTurn, UpToDate, Upto, Fits

\* What follows the text up to m is left, all text: plain, or after a marker at m.
LEMMA ShownTold ==
  ASSUME sent \in Seq(Kinds), got \in Nat, got <= Len(sent), shown \in Seq(Nat),
         cuts \in SUBSET Nat, StreamOK(sent), ~garbled', ~mCorrupted', Idle,
         NEW lo \in Nat, 1 <= lo, NEW m \in Nat, NEW d,
         (m \in lo .. got /\ sent[m] = "marker") \/ (m = got + 1 /\ lo <= m),
         ~Streaming(sent, lo - 1), Told(shown, sent, cuts, got, lo - 1),
         \A i \in lo .. m - 1 : sent[i] = "text",
         \A i \in Nat : Showing(shown', i) <=> Showing(shown, i) \/ i \in lo .. m - 1,
         m \in lo .. got => ~Showing(shown, m),
         d.what = "STARTCOMPRESS", d.data.lo = m + 1, d.data.hi = got,
         inbox' = IF m > got THEN <<>> ELSE <<d>>,
         mailbox' = <<>>, UNCHANGED <<sent, got, mCompressed, inflater, cuts>>
  PROVE  SInv'
<1>1. lo - 1 \in Nat /\ lo - 1 + 1 = lo
  OBVIOUS
<1>2. \A i \in 1 .. lo - 1 : Showing(shown', i) <=> Showing(shown, i)
  OBVIOUS
<1>3. CASE m = got + 1
  <2>1. inbox' = <<>>
    BY <1>3
  <2>2. ~Streaming(sent, got)
    <3>1. CASE lo <= got
      <4>1. sent[got] = "text"
        BY <1>3, <3>1
      <4> QED
        BY <4>1 DEF Streaming
    <3>2. CASE ~(lo <= got)
      <4>1. got = lo - 1
        BY <1>3, <3>2
      <4> QED
        BY <4>1
    <3> QED
      BY <3>1, <3>2
  <2>3. Settled'
    BY <2>2 DEF Settled, Idle
  <2>4. InTurn' /\ Upto' = got
    BY <2>1, <2>3 DEF InTurn, Upto
  <2>5. Told(shown', sent, cuts, got, got)
    <3>1. lo - 1 <= got /\ got <= got
      BY <1>3
    <3>2. ASSUME NEW i \in lo .. got
          PROVE  Showing(shown', i) /\ Kept(sent, cuts, i, got)
      <4>1. i \in lo .. m - 1 /\ i \in Nat
        BY <1>3
      <4>2. sent[i] = "text"
        BY <4>1
      <4> QED
        BY <4>1, <4>2 DEF Kept, LostIn
    <3>3. \A i \in lo - 1 + 1 .. got : Showing(shown', i) <=> Kept(sent, cuts, i, got)
      BY <1>1, <3>2
    <3>4. got >= 1 /\ sent[got] = "z" => got \in cuts
      BY <2>2 DEF Streaming
    <3> QED
      BY <1>1, <1>2, <3>1, <3>3, <3>4, ToldGrows
  <2> QED
    BY <2>4, <2>5 DEF SInv, InOrderInv
<1>4. CASE m \in lo .. got
  <2>1. inbox' = <<d>> /\ inbox' # <<>> /\ Head(inbox') = d
    <3>1. ~(m > got)
      BY <1>4
    <3> QED
      BY <3>1
  <2>2. m >= 1 /\ m + 1 - 1 = m /\ m <= got /\ m + 1 > 1 /\ m + 1 <= got + 1
    BY <1>4
  <2>3. sent[m] = "marker"
    BY <1>4
  <2>4. ToInflate(d.data)'
    BY <2>2, <2>3 DEF ToInflate, Idle
  <2>5. InTurn'
    BY <2>1, <2>2, <2>4 DEF InTurn, Deserved, UpToDate
  <2>6. Upto' = m
    BY <2>1, <2>2 DEF Upto
  <2>7. Told(shown', sent, cuts, got, m)
    <3>1. lo - 1 <= m
      BY <1>4
    <3>2. ASSUME NEW i \in lo .. m - 1
          PROVE  Showing(shown', i) /\ Kept(sent, cuts, i, m)
      <4>1. i \in Nat /\ sent[i] = "text"
        OBVIOUS
      <4> QED
        BY <4>1 DEF Kept, LostIn
    <3>3. ~Showing(shown', m) /\ ~Kept(sent, cuts, m, m)
      <4>1. ~(m \in lo .. m - 1)
        OBVIOUS
      <4> QED
        BY <1>4, <2>3, <4>1 DEF Kept
    <3>4. \A i \in lo - 1 + 1 .. m : i \in lo .. m - 1 \/ i = m
      OBVIOUS
    <3>5. \A i \in lo - 1 + 1 .. m : Showing(shown', i) <=> Kept(sent, cuts, i, m)
      BY <3>2, <3>3, <3>4
    <3>6. ~(sent[m] = "z")
      BY <2>3
    <3> QED
      BY <1>1, <1>2, <2>2, <3>1, <3>5, <3>6, ToldGrows
  <2> QED
    BY <2>5, <2>6, <2>7 DEF SInv, InOrderInv
<1> QED
  BY <1>3, <1>4

LEMMA ProcessTold ==
  ASSUME IInv, SInv, prompt, HandleProcess
  PROVE  SInv'
<1> DEFINE c == Head(inbox).data
           m == MarkerIn(c.lo, c.hi)
           d == Msg("STARTCOMPRESS", m + 1, c.hi)
<1>1. /\ sent \in Seq(Kinds) /\ got \in Nat /\ got <= Len(sent) /\ shown \in Seq(Nat)
      /\ cuts \in SUBSET Nat /\ StreamOK(sent) /\ ~garbled /\ ~mCorrupted /\ Len(sent) \in Nat
  BY Prompted
<1>2. inbox # <<>> /\ Head(inbox).what = "PROCESS"
  BY DEF HandleProcess, Receive
<1>3. /\ Tail(inbox) = <<>> /\ mailbox = <<>> /\ Idle /\ ~Streaming(sent, c.lo - 1)
      /\ c.hi = got /\ c.lo <= got + 1 /\ 1 <= c.lo /\ c.lo \in Nat
      /\ c \in Chunk /\ Clear(shown, c) /\ Told(shown, sent, cuts, got, c.lo - 1)
  BY <1>2, HeadTold DEF Deserved, ToShow
<1>4. /\ inbox' = (IF m > c.hi THEN <<>> ELSE <<d>>) \o Tail(inbox)
      /\ shown' = shown \o Run(c.lo, m - 1)
      /\ garbled' = (garbled \/ \E i \in c.lo .. m - 1 : ~Plain(i))
      /\ UNCHANGED <<sent, got, mailbox, pumpVars, cuts, prompt>>
  BY DEF HandleProcess, AfterMarker, ShownUpTo
<1>5. /\ m \in Nat /\ (m \in c.lo .. c.hi \/ m = c.hi + 1)
      /\ m \in c.lo .. c.hi => sent[m] = "marker"
      /\ \A i \in c.lo .. c.hi : i < m => sent[i] # "marker"
  BY <1>1, <1>3, FirstIs, FirstFinds DEF MarkerIn
<1>6. d.what = "STARTCOMPRESS" /\ d.data.lo = m + 1 /\ d.data.hi = got
  BY <1>3 DEF Msg, Bytes
<1>7. Clear(shown, c) => \A i \in c.lo .. c.hi : ~Showing(shown, i)
  BY <1>1, <1>3, ClearShows
<1> HIDE DEF c, m, d
<1>8. inbox' = IF m > got THEN <<>> ELSE <<d>>
  <2>1. <<>> \o <<>> = <<>> /\ <<d>> \o <<>> = <<d>>
    OBVIOUS
  <2> QED
    BY <1>3, <1>4, <2>1
<1>9. /\ ~mCorrupted' /\ mailbox' = <<>>
      /\ UNCHANGED <<sent, got, mCompressed, inflater, cuts>>
  BY <1>1, <1>3, <1>4 DEF pumpVars
<1>10. m - 1 \in Nat /\ m - 1 <= Len(sent) /\ \A i \in c.lo .. m - 1 : sent[i] # "marker"
  BY <1>1, <1>3, <1>5
<1>11. \A i \in Nat : Showing(shown', i) <=> Showing(shown, i) \/ i \in c.lo .. m - 1
  BY <1>1, <1>3, <1>4, <1>10, ShowingMore
<1>12. \A i \in c.lo .. m - 1 : sent[i] = "text"
  BY <1>1, <1>3, <1>10, AllText
<1>13. ~garbled'
  BY <1>1, <1>4, <1>12, Zenon DEF Plain
<1>14. m \in c.lo .. got => sent[m] = "marker" /\ ~Showing(shown, m)
  BY <1>3, <1>5, <1>7
<1>15. (m \in c.lo .. got /\ sent[m] = "marker") \/ (m = got + 1 /\ c.lo <= m)
  BY <1>3, <1>5
<1> QED
  BY <1>1, <1>3, <1>5, <1>6, <1>8, <1>9, <1>11, <1>12, <1>13, <1>14, <1>15, ShownTold


\* What was inflated is shown, and nothing of it is lost.
LEMMA InflatedTold ==
  ASSUME IInv, SInv, prompt, HandleInflated
  PROVE  SInv'
<1> DEFINE c == Head(inbox).data
<1>1. /\ sent \in Seq(Kinds) /\ got \in Nat /\ shown \in Seq(Nat)
      /\ cuts \in SUBSET Nat /\ StreamOK(sent) /\ ~garbled /\ ~mCorrupted
  BY Prompted
<1>2. inbox # <<>> /\ Head(inbox).what = "INFLATED"
  BY DEF HandleInflated, Receive
<1>3. /\ Tail(inbox) = <<>> /\ mailbox = <<>> /\ Settled /\ got \in cuts
      /\ c.hi = got /\ c.lo <= got + 1 /\ 1 <= c.lo /\ c.lo \in Nat
      /\ \A i \in c.lo .. c.hi : sent[i] = "z"
      /\ Told(shown, sent, cuts, got, c.lo - 1)
  BY <1>2, HeadTold DEF Deserved
<1>4. /\ inbox' = <<>> /\ mailbox' = <<>> /\ shown' = shown \o Run(c.lo, c.hi)
      /\ UNCHANGED <<sent, got, mailbox, pumpVars, garbled, cuts, prompt>>
  BY <1>3 DEF HandleInflated
<1> HIDE DEF c
<1>5. \A i \in Nat : Showing(shown', i) <=> Showing(shown, i) \/ i \in c.lo .. got
  BY <1>1, <1>3, <1>4, ShowingMore
<1>6. InTurn' /\ Upto' = got
  BY <1>3, <1>4 DEF InTurn, Upto, Settled, pumpVars
<1>7. Told(shown', sent, cuts, got, got)
  <2>1. c.lo - 1 \in Nat /\ c.lo - 1 <= got /\ c.lo - 1 + 1 = c.lo /\ got <= got
    BY <1>1, <1>3
  <2>2. \A i \in 1 .. c.lo - 1 : Showing(shown', i) <=> Showing(shown, i)
    BY <1>3, <1>5
  <2>3. ASSUME NEW i \in c.lo .. got
        PROVE  Showing(shown', i) /\ Kept(sent, cuts, i, got)
    <3>1. i \in Nat /\ sent[i] = "z"
      BY <1>1, <1>3
    <3>2. \A e \in i + 1 .. got : sent[e] = "z"
      BY <1>1, <1>3, <3>1
    <3>3. ~LostIn(sent, cuts, i, got)
      BY <3>2 DEF LostIn
    <3> QED
      BY <1>5, <3>1, <3>3 DEF Kept
  <2>4. \A i \in c.lo - 1 + 1 .. got : Showing(shown', i) <=> Kept(sent, cuts, i, got)
    BY <2>1, <2>3
  <2>5. cuts \in SUBSET Nat /\ got \in Nat /\ Told(shown, sent, cuts, got, c.lo - 1)
    BY <1>1, <1>3
  <2>6. got >= 1 /\ sent[got] = "z" => got \in cuts
    BY <1>3
  <2> QED
    BY <2>1, <2>2, <2>4, <2>5, <2>6, ToldGrows
<1> QED
  BY <1>1, <1>4, <1>6, <1>7 DEF SInv, InOrderInv, pumpVars

\* What follows the marker goes to the pump.
LEMMA StartCompressTold ==
  ASSUME IInv, SInv, prompt, HandleStartCompress
  PROVE  SInv'
<1> PICK c : c = Head(inbox).data
  OBVIOUS
<1>1. StreamOK(sent) /\ ~garbled /\ ~mCorrupted
  BY Prompted
<1>2. inbox # <<>> /\ Head(inbox).what = "STARTCOMPRESS"
  BY DEF HandleStartCompress, Receive
<1>3. /\ Tail(inbox) = <<>> /\ mailbox = <<>> /\ ToInflate(c)
      /\ c.hi = got /\ c.lo <= got + 1
      /\ Told(shown, sent, cuts, got, c.lo - 1)
  BY <1>2, HeadTold DEF Deserved
<1>4. /\ inbox' = <<>> /\ mailbox' = Append(mailbox, c)
      /\ UNCHANGED <<sent, got, pumpVars, history, prompt>>
  BY <1>3 DEF HandleStartCompress
<1>5. mailbox' = <<c>> /\ mailbox' # <<>> /\ Head(mailbox') = c
  BY <1>3, <1>4
<1>6. UpToDate(c)' /\ ToInflate(c)'
  BY <1>3, <1>4 DEF UpToDate, ToInflate, Idle, pumpVars
<1>7. InTurn' /\ Upto' = c.lo - 1
  BY <1>4, <1>5, <1>6 DEF InTurn, Upto, UpToDate, ToInflate, Idle
<1> QED
  BY <1>1, <1>3, <1>4, <1>7 DEF SInv, InOrderInv, pumpVars, history

\* The bytes the server has sent change only as it sends more, and the handler
\* is as prompt as it was.
LEMMA OthersKeep ==
  ASSUME Poll \/ Compress \/ Handle
  PROVE  UNCHANGED <<sent, prompt>>
<1>1. Poll => UNCHANGED <<sent, prompt>>
  BY DEF Poll
<1>2. Compress => UNCHANGED <<sent, prompt>>
  BY DEF Compress
<1>3. HandleProcess => UNCHANGED <<sent, prompt>>
  BY DEF HandleProcess
<1>4. HandleInflated => UNCHANGED <<sent, prompt>>
  BY DEF HandleInflated
<1>5. HandleGarbage => UNCHANGED <<sent, prompt>>
  BY DEF HandleGarbage
<1>6. HandleStartCompress => UNCHANGED <<sent, prompt>>
  BY DEF HandleStartCompress
<1>7. HandleFatal => UNCHANGED <<sent, prompt>>
  BY DEF HandleFatal
<1> QED
  BY <1>1, <1>2, <1>3, <1>4, <1>5, <1>6, <1>7 DEF Handle

\* Every step keeps what the handler and the pump are told.
THEOREM InTheirTurn == Spec => []SInv
<1>1. Init => SInv
  <2> SUFFICES ASSUME Init PROVE SInv
    OBVIOUS
  <2>1. StreamOK(sent)
    BY DEF Init, StreamOK
  <2>2. Upto = 0 /\ Told(shown, sent, cuts, got, 0)
    BY DEF Init, Upto, Told
  <2>3. ~Streaming(sent, 0)
    BY DEF Streaming
  <2>4. InTurn
    BY <2>3 DEF Init, InTurn, Settled
  <2> QED
    BY <2>1, <2>2, <2>4 DEF SInv, InOrderInv, Init
<1>2. IInv /\ SInv /\ [Next]_vars => SInv'
  <2> SUFFICES ASSUME IInv, SInv, [Next]_vars PROVE SInv'
    OBVIOUS
  <2>1. CASE Send
    BY <2>1, SendTold
  <2>2. CASE prompt /\ (Poll \/ Compress \/ Handle)
    <3>1. ~Receive("GARBAGE") /\ ~Receive("MCCPFATALERROR")
      BY <2>2, HeadTold DEF Receive, Deserved
    <3>2. ~HandleGarbage /\ ~HandleFatal
      BY <3>1 DEF HandleGarbage, HandleFatal
    <3> QED
      BY <2>2, <3>2, PollTold, CompressTold, ProcessTold, InflatedTold, StartCompressTold
         DEF Handle
  <2>3. CASE ~prompt /\ (Poll \/ Compress \/ Handle)
    <3>1. UNCHANGED <<sent, prompt>>
      BY <2>3, OthersKeep
    <3> QED
      BY <2>3, <3>1 DEF SInv, InOrderInv
  <2>4. CASE UNCHANGED vars
    <3>1. UNCHANGED <<sent, prompt, garbled, mCorrupted, inbox, mailbox, shown, cuts, got,
                      mCompressed, inflater>>
      BY <2>4 DEF vars, pumpVars, history
    <3> QED
      BY <3>1 DEF SInv, InOrderInv, InTurn, Settled, Upto, UpToDate, Deserved,
                  ToShow, ToInflate, Idle
  <2> QED
    BY <2>1, <2>2, <2>3, <2>4, Zenon DEF Next
<1> QED
  BY <1>1, <1>2, Correct, PTL DEF Spec

\* With a handler that answers before the next poll, only text reaches the window,
\* and the inflater is fed nothing but its stream: no error is ever reported.
THEOREM OnlyTextShown == Spec => []OnlyText
<1>1. SInv => OnlyText
  BY DEF SInv, InOrderInv, OnlyText
<1> QED
  BY <1>1, InTheirTurn, PTL

\* With such a handler, once all is handled, the text missing from the window is
\* what the call that met the end of a compressed stream had inflated, and no more.
THEOREM LossIsLastCall == Spec => []LossIsTheLastCall
<1>1. SInv => LossIsTheLastCall
  <2> SUFFICES ASSUME SInv, prompt, Quiet, NEW i \in 1 .. Len(sent)
               PROVE  (\E k \in DOMAIN shown : shown[k] = i)
                        <=> sent[i] \in {"text", "z"} /\ ~InLastCall(i)
    BY DEF LossIsTheLastCall
  <2>1. got = Len(sent) /\ Upto = Len(sent)
    BY DEF Quiet, Upto
  <2>2. Showing(shown, i) <=> Kept(sent, cuts, i, Len(sent))
    BY <2>1 DEF SInv, InOrderInv, Told
  <2>3. InLastCall(i) <=> LostIn(sent, cuts, i, Len(sent))
    BY Zenon DEF InLastCall, LostIn
  <2> QED
    BY <2>2, <2>3, Zenon DEF Showing, Kept
<1> QED
  BY <1>1, InTheirTurn, PTL
================================================================================
