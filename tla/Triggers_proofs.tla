---------------------------- MODULE Triggers_proofs ----------------------------
(***************************************************************************)
(* Proofs about Triggers: the lines of a chunk and the trigger table, for  *)
(* any number of triggers, chunks of any length and any number of edits.   *)
(***************************************************************************)
EXTENDS Triggers, NaturalsInduction, FiniteSetTheorems, SequenceTheorems, TLAPS

(***************************************************************************)
(* The table.  TableFresh is inductive as it stands.                       *)
(***************************************************************************)
\* A responder that changes which triggers are on marks the table as old.
LEMMA RespondMarks ==
  ASSUME NEW r \in {Work, Advance}, NEW t
  PROVE  Respond(r, t).dirty = TRUE
         \/ (Respond(r, t).enabled = enabled /\ Respond(r, t).dirty = triggersDirty)
<1> DEFINE g == IF t \in Gags THEN Gag(r) ELSE r
           s == IF t \in Switches THEN Switch(g) ELSE g
           Same(q) == q.enabled = enabled /\ q.dirty = triggersDirty
           Domain(q) == DOMAIN q = DOMAIN Work
<1>1. Same(r) /\ Domain(r)
  BY DEF Work, Advance
<1>2. Same(g) /\ Domain(g)
  BY <1>1 DEF Gag, Work
<1>3. s.dirty = TRUE \/ Same(s)
  BY <1>2 DEF Switch, Work
<1>4. Domain(s)
  BY <1>2 DEF Switch, Work
<1>5. t \in Deletes => Delete(s).dirty = TRUE
  BY <1>4 DEF Delete, Work
<1>6. Respond(r, t) = IF t \in Deletes THEN Delete(s) ELSE s
  BY DEF Respond
<1> QED
  BY <1>3, <1>5, <1>6

LEMMA TableStep == TableFresh /\ [Next]_vars => TableFresh'
<1> SUFFICES ASSUME TableFresh, [Next]_vars PROVE TableFresh'
  OBVIOUS
<1>1. CASE UNCHANGED config /\ UNCHANGED swept
  BY <1>1 DEF config, TableFresh
<1>2. ASSUME NEW s, dispatch(s) PROVE TableFresh'
  BY <1>2 DEF dispatch, TableFresh
<1>3. CASE Find
  BY <1>1, <1>3 DEF Find, Finish, history, config
<1>4. CASE FireLost
  BY <1>1, <1>4 DEF FireLost, Throw, Skip, history
<1>5. CASE Fire
  <2>1. CASE Skip
    BY <1>1, <2>1 DEF Skip, history
  <2>2. CASE ~Skip
    <3> DEFINE t == text[pos].char
               r == IF t \in enabled THEN Respond(Advance, t) ELSE Advance
    <3>1. /\ enabled' = r.enabled /\ triggersDirty' = r.dirty
          /\ sorted' = sorted /\ table' = table /\ swept' = swept
      BY <1>5, <2>2 DEF Fire
    <3>2. r.dirty = TRUE \/ (r.enabled = enabled /\ r.dirty = triggersDirty)
      BY RespondMarks DEF Advance, Work
    <3> QED
      BY <3>1, <3>2 DEF TableFresh
  <2> QED
    BY <2>1, <2>2
<1>6. CASE Rebuild
  <2>1. CASE UNCHANGED <<config, swept>>
    BY <1>1, <2>1
  <2>2. CASE table' = Build(sorted, enabled) /\ UNCHANGED <<sorted, enabled>>
    BY <2>2 DEF TableFresh
  <2> QED
    BY <1>6, <2>1, <2>2 DEF Rebuild
<1>7. CASE Script
  <2>1. PICK r \in {Switch(Work), Delete(Work)} :
          /\ enabled' = r.enabled /\ triggersDirty' = r.dirty
          /\ UNCHANGED <<sorted, table, swept>>
    BY <1>7 DEF Script, history
  <2>2. r.dirty = TRUE \/ (r.enabled = enabled /\ r.dirty = triggersDirty)
    <3>1. Work.enabled = enabled /\ Work.dirty = triggersDirty
      BY DEF Work
    <3>2. CASE r = Switch(Work)
      BY <3>1, <3>2 DEF Switch, Work
    <3>3. CASE r = Delete(Work)
      BY <3>3 DEF Delete, Work
    <3> QED
      BY <3>2, <3>3
  <2> QED
    BY <2>1, <2>2 DEF TableFresh
<1>8. CASE OtherConnection
  BY <1>8 DEF OtherConnection, TableFresh
<1>9. CASE Edited
  BY <1>9 DEF Edited, TableFresh
<1>10. CASE UNCHANGED vars
  BY <1>1, <1>10 DEF vars, history
<1> QED
  BY <1>2, <1>3, <1>4, <1>5, <1>6, <1>7, <1>8, <1>9, <1>10
  DEF Next, Dispatch, setTriggerEnabled, deleteTrigger, newTrigger

\* The table is built from the triggers as they are, or marked as old, or another
\* connection has taken the mark away.
THEOREM TableStaysFresh == Spec => []TableFresh
<1>1. Init => TableFresh
  BY DEF Init, TableFresh
<1> QED
  BY <1>1, TableStep, PTL DEF Spec
(***************************************************************************)
(* The lines.  f are the lines finished, oldest first, w those at work,    *)
(* newest first; of n lines those in g have been gagged.                   *)
(***************************************************************************)
Falls(w)    == \A i, j \in 1 .. Len(w) : i < j => w[j] < w[i]
Rises(f)    == \A i, j \in 1 .. Len(f) : i < j => f[i] < f[j]
Before(f, w) == \A i \in 1 .. Len(f), j \in 1 .. Len(w) : f[i] < w[j]
Holds(q, k) == \E i \in 1 .. Len(q) : q[i] = k

Kept(f, w, n, g) ==
    /\ Rises(f) /\ Falls(w) /\ Before(f, w)
    /\ \A k \in Nat : Holds(f, k) \/ Holds(w, k) <=> k \in 1 .. n /\ k \notin g

LEMMA AnySeq ==
  ASSUME NEW S, NEW n \in Nat, NEW q \in [1 .. n -> S]
  PROVE  q \in Seq(S) /\ Len(q) = n
  OBVIOUS

LEMMA KeptAtFirst ==
  ASSUME NEW n \in Nat
  PROVE  Countdown(n) \in Seq(Nat) /\ Kept(<<>>, Countdown(n), n, {})
<1> DEFINE w == Countdown(n)
<1>1. w \in Seq(Nat) /\ Len(w) = n /\ \A i \in 1 .. n : w[i] = n + 1 - i
  BY DEF Countdown
<1>2. Rises(<<>>) /\ Falls(w) /\ Before(<<>>, w)
  BY <1>1 DEF Rises, Falls, Before
<1>3. ASSUME NEW k \in Nat PROVE Holds(<<>>, k) \/ Holds(w, k) <=> k \in 1 .. n
  <2>1. ~Holds(<<>>, k)
    BY DEF Holds
  <2>2. k \in 1 .. n => n + 1 - k \in 1 .. n /\ w[n + 1 - k] = k
    BY <1>1
  <2>3. Holds(w, k) => k \in 1 .. n
    BY <1>1 DEF Holds
  <2>4. k \in 1 .. n => Holds(w, k)
    BY <1>1, <2>2 DEF Holds
  <2> QED
    BY <2>1, <2>3, <2>4
<1> QED
  BY <1>1, <1>2, <1>3 DEF Kept

\* The older lines are moved over, in their order.
LEMMA KeptWhenMoved ==
  ASSUME NEW f \in Seq(Nat), NEW w \in Seq(Nat), NEW n, NEW g, Kept(f, w, n, g),
         NEW k \in 0 .. Len(w)
  PROVE  LET ff == f \o Reverse(SubSeq(w, k + 1, Len(w)))
             ww == SubSeq(w, 1, k)
         IN  ff \in Seq(Nat) /\ ww \in Seq(Nat) /\ Kept(ff, ww, n, g)
<1> DEFINE t  == SubSeq(w, k + 1, Len(w))
           ff == f \o Reverse(t)
           ww == SubSeq(w, 1, k)
           L  == Len(w)
           F  == Len(f)
<1>1. L \in Nat /\ F \in Nat /\ k \in 0 .. L /\ \A i \in 1 .. L : w[i] \in Nat
  OBVIOUS
<1>2. t \in Seq(Nat) /\ Len(t) = L - k /\ \A i \in 1 .. L - k : t[i] = w[k + i]
  BY <1>1
<1>3. /\ Reverse(t) \in Seq(Nat) /\ Len(Reverse(t)) = L - k
      /\ \A i \in 1 .. L - k : Reverse(t)[i] = w[L - i + 1]
  <2>1. \A i \in 1 .. L - k : (L - k) - i + 1 \in 1 .. L - k /\ k + ((L - k) - i + 1) = L - i + 1
    BY <1>1
  <2>2. Reverse(t) = [i \in 1 .. L - k |-> t[(L - k) - i + 1]]
    BY <1>2 DEF Reverse
  <2>3. \A i \in 1 .. L - k : Reverse(t)[i] = w[L - i + 1]
    BY <1>2, <2>1, <2>2
  <2>4. L - k \in Nat
    BY <1>1
  <2>5. \A i \in 1 .. L - k : t[(L - k) - i + 1] \in Nat
    BY <1>1, <1>2, <2>1
  <2>6. Reverse(t) \in [1 .. L - k -> Nat]
    BY <2>2, <2>5
  <2>7. Reverse(t) \in Seq(Nat) /\ Len(Reverse(t)) = L - k
    BY <2>4, <2>6, AnySeq
  <2> QED
    BY <2>3, <2>7
<1>4. ww \in Seq(Nat) /\ Len(ww) = k /\ \A i \in 1 .. k : ww[i] = w[i]
  BY <1>1
<1>5. /\ ff \in Seq(Nat) /\ Len(ff) = F + (L - k)
      /\ \A i \in 1 .. F : ff[i] = f[i]
      /\ \A i \in F + 1 .. F + (L - k) : ff[i] = w[L - (i - F) + 1]
  <2> HIDE DEF t
  <2>0. /\ ff \in Seq(Nat) /\ Len(ff) = F + Len(Reverse(t))
        /\ \A i \in 1 .. F + Len(Reverse(t)) :
             ff[i] = IF i <= F THEN f[i] ELSE Reverse(t)[i - F]
    BY <1>3, ConcatProperties
  <2>1. ff \in Seq(Nat) /\ Len(ff) = F + (L - k)
    BY <1>3, <2>0
  <2> HIDE DEF ff
  <2>2. \A i \in 1 .. F : ff[i] = f[i]
    BY <1>1, <1>3, <2>0
  <2>3. \A i \in F + 1 .. F + (L - k) : i - F \in 1 .. L - k /\ ff[i] = Reverse(t)[i - F]
    BY <1>1, <1>3, <2>0
  <2> QED
    BY <1>3, <2>1, <2>2, <2>3
<1> HIDE DEF t, ff, ww
<1>0. /\ \A i, j \in 1 .. F : i < j => f[i] < f[j]
      /\ \A i, j \in 1 .. L : i < j => w[j] < w[i]
      /\ \A i \in 1 .. F, j \in 1 .. L : f[i] < w[j]
  BY DEF Kept, Rises, Falls, Before
<1> HIDE DEF L, F
<1>6. Rises(ff)
  <2> SUFFICES ASSUME NEW i \in 1 .. Len(ff), NEW j \in 1 .. Len(ff), i < j
               PROVE  ff[i] < ff[j]
    BY DEF Rises
  <2>1. CASE j \in 1 .. F
    <3>1. i \in 1 .. F /\ j \in 1 .. F
      BY <1>1, <1>5, <2>1
    <3>2. ff[i] = f[i] /\ ff[j] = f[j] /\ f[i] < f[j]
      BY <1>0, <1>5, <3>1
    <3> QED
      BY <3>2
  <2>2. CASE i \in 1 .. F /\ j \in F + 1 .. F + (L - k)
    <3>1. L - (j - F) + 1 \in 1 .. L
      BY <1>1, <2>2
    <3> QED
      BY <1>0, <1>5, <2>2, <3>1
  <2>3. CASE i \in F + 1 .. F + (L - k) /\ j \in F + 1 .. F + (L - k)
    <3>1. /\ L - (j - F) + 1 \in 1 .. L /\ L - (i - F) + 1 \in 1 .. L
          /\ L - (j - F) + 1 < L - (i - F) + 1
      BY <1>1, <2>3
    <3>2. ff[i] = w[L - (i - F) + 1] /\ ff[j] = w[L - (j - F) + 1]
      BY <1>5, <2>3
    <3>3. w[L - (i - F) + 1] < w[L - (j - F) + 1]
      BY <1>0, <3>1
    <3> QED
      BY <3>2, <3>3
  <2> QED
    BY <1>1, <1>5, <2>1, <2>2, <2>3
<1>7. Falls(ww)
  <2> SUFFICES ASSUME NEW i \in 1 .. Len(ww), NEW j \in 1 .. Len(ww), i < j
               PROVE  ww[j] < ww[i]
    BY DEF Falls
  <2>1. /\ i \in 1 .. k /\ j \in 1 .. k /\ i \in 1 .. L /\ j \in 1 .. L
    BY <1>1, <1>4
  <2>2. ww[i] = w[i] /\ ww[j] = w[j] /\ w[j] < w[i]
    BY <1>0, <1>4, <2>1
  <2> QED
    BY <2>2
<1>8. Before(ff, ww)
  <2> SUFFICES ASSUME NEW i \in 1 .. Len(ff), NEW j \in 1 .. Len(ww)
               PROVE  ff[i] < ww[j]
    BY DEF Before
  <2>1. j \in 1 .. L /\ ww[j] = w[j] /\ j <= k
    BY <1>1, <1>4
  <2>2. CASE i \in 1 .. F
    BY <1>0, <1>5, <2>1, <2>2
  <2>3. CASE i \in F + 1 .. F + (L - k)
    <3>1. L - (i - F) + 1 \in 1 .. L /\ j < L - (i - F) + 1
      BY <1>1, <2>1, <2>3
    <3>2. w[L - (i - F) + 1] < w[j]
      BY <1>0, <2>1, <3>1
    <3> QED
      BY <1>5, <2>1, <2>3, <3>2
  <2> QED
    BY <1>1, <1>5, <2>2, <2>3
<1>9. ASSUME NEW m \in Nat PROVE Holds(ff, m) \/ Holds(ww, m) <=> Holds(f, m) \/ Holds(w, m)
  <2>0. /\ Holds(f, m) <=> \E i \in 1 .. F : f[i] = m
        /\ Holds(w, m) <=> \E i \in 1 .. L : w[i] = m
    BY DEF Holds, F, L
  <2>1. Holds(f, m) => Holds(ff, m)
    <3> SUFFICES ASSUME NEW i \in 1 .. F, f[i] = m PROVE Holds(ff, m)
      BY <2>0
    <3>1. i \in 1 .. Len(ff) /\ ff[i] = m
      BY <1>1, <1>5
    <3> QED
      BY <3>1 DEF Holds
  <2>2. ASSUME NEW i \in 1 .. L, w[i] = m PROVE Holds(ff, m) \/ Holds(ww, m)
    <3>1. CASE i <= k
      <4>1. i \in 1 .. Len(ww) /\ ww[i] = m
        BY <1>1, <1>4, <2>2, <3>1
      <4> QED
        BY <4>1 DEF Holds
    <3>2. CASE i > k
      <4>1. F + (L - i + 1) \in F + 1 .. F + (L - k) /\ L - ((F + (L - i + 1)) - F) + 1 = i
        BY <1>1, <3>2
      <4>2. ff[F + (L - i + 1)] = m
        BY <1>5, <2>2, <4>1
      <4>3. F + (L - i + 1) \in 1 .. Len(ff)
        BY <1>1, <1>5, <4>1
      <4> QED
        BY <4>2, <4>3 DEF Holds
    <3> QED
      BY <1>1, <3>1, <3>2
  <2>3. Holds(ww, m) => Holds(w, m)
    <3> SUFFICES ASSUME NEW i \in 1 .. Len(ww), ww[i] = m PROVE Holds(w, m)
      BY DEF Holds
    <3>1. i \in 1 .. L /\ w[i] = m
      BY <1>1, <1>4
    <3> QED
      BY <2>0, <3>1
  <2>4. ASSUME NEW i \in 1 .. Len(ff), ff[i] = m PROVE Holds(f, m) \/ Holds(w, m)
    <3>1. CASE i \in 1 .. F
      BY <1>5, <2>0, <2>4, <3>1
    <3>2. CASE i \in F + 1 .. F + (L - k)
      <4>1. L - (i - F) + 1 \in 1 .. L
        BY <1>1, <3>2
      <4> QED
        BY <1>5, <2>0, <2>4, <3>2, <4>1
    <3> QED
      BY <1>1, <1>5, <3>1, <3>2
  <2> QED
    BY <2>0, <2>1, <2>2, <2>3, <2>4 DEF Holds
<1> QED
  BY <1>4, <1>5, <1>6, <1>7, <1>8, <1>9 DEF Kept, ff, ww, t, L, F

LEMMA Removed ==
  ASSUME NEW w \in Seq(Nat), NEW k \in 1 .. Len(w)
  PROVE  /\ RemoveAt(w, k) \in Seq(Nat) /\ Len(RemoveAt(w, k)) = Len(w) - 1
         /\ \A i \in 1 .. Len(w) - 1 : RemoveAt(w, k)[i] = w[IF i < k THEN i ELSE i + 1]
<1> DEFINE L == Len(w)
           a == SubSeq(w, 1, k - 1)
           b == SubSeq(w, k + 1, L)
           r == RemoveAt(w, k)
           At(i) == IF i < k THEN i ELSE i + 1
<1>1. L \in Nat /\ k \in 1 .. L /\ \A i \in 1 .. L : w[i] \in Nat
  OBVIOUS
<1>2. a \in Seq(Nat) /\ Len(a) = k - 1 /\ \A i \in 1 .. k - 1 : a[i] = w[i]
  BY <1>1
<1>3. b \in Seq(Nat) /\ Len(b) = L - k /\ \A i \in 1 .. L - k : b[i] = w[k + i]
  BY <1>1
<1>4. r \in Seq(Nat) /\ Len(r) = L - 1 /\ \A i \in 1 .. L - 1 : r[i] = w[At(i)]
  <2>1. r = a \o b
    BY DEF RemoveAt
  <2> HIDE DEF a, b, r
  <2>0. /\ r \in Seq(Nat) /\ Len(r) = Len(a) + Len(b)
        /\ \A i \in 1 .. Len(a) + Len(b) : r[i] = IF i <= Len(a) THEN a[i] ELSE b[i - Len(a)]
    BY <1>2, <1>3, <2>1, ConcatProperties
  <2> HIDE DEF L
  <2>2. r \in Seq(Nat) /\ Len(r) = L - 1
    BY <1>1, <1>2, <1>3, <2>0
  <2>3. \A i \in 1 .. k - 1 : r[i] = w[i]
    BY <1>1, <1>2, <1>3, <2>0
  <2>4. ASSUME NEW i \in k .. L - 1 PROVE r[i] = w[i + 1]
    <3>1. i - (k - 1) \in 1 .. L - k /\ k + (i - (k - 1)) = i + 1
      BY <1>1
    <3>2. r[i] = b[i - (k - 1)]
      BY <1>1, <1>2, <1>3, <2>0
    <3> QED
      BY <1>3, <3>1, <3>2
  <2> QED
    BY <1>1, <2>2, <2>3, <2>4
<1> QED
  BY <1>4

\* A line at work is gagged.
LEMMA KeptWhenGagged ==
  ASSUME NEW f \in Seq(Nat), NEW w \in Seq(Nat), NEW n, NEW g, Kept(f, w, n, g),
         NEW k \in 1 .. Len(w)
  PROVE  RemoveAt(w, k) \in Seq(Nat) /\ Kept(f, RemoveAt(w, k), n, g \cup {w[k]})
<1> DEFINE L == Len(w)
           r == RemoveAt(w, k)
           At(i) == IF i < k THEN i ELSE i + 1
<1>1. L \in Nat /\ k \in 1 .. L /\ \A i \in 1 .. L : w[i] \in Nat
  OBVIOUS
<1>4. r \in Seq(Nat) /\ Len(r) = L - 1 /\ \A i \in 1 .. L - 1 : r[i] = w[At(i)]
  BY Removed
<1>5. /\ \A i \in 1 .. L - 1 : At(i) \in 1 .. L /\ At(i) # k
      /\ \A i, j \in 1 .. L - 1 : i < j => At(i) < At(j)
  BY <1>1
<1>6. \A i \in 1 .. L : i # k => \E j \in 1 .. L - 1 : At(j) = i
  <2> SUFFICES ASSUME NEW i \in 1 .. L, i # k PROVE \E j \in 1 .. L - 1 : At(j) = i
    OBVIOUS
  <2>1. CASE i < k
    <3>1. i \in 1 .. L - 1 /\ At(i) = i
      BY <1>1, <2>1
    <3> QED
      BY <3>1
  <2>2. CASE i > k
    <3>1. i - 1 \in 1 .. L - 1 /\ At(i - 1) = i
      BY <1>1, <2>2
    <3> QED
      BY <3>1
  <2> QED
    BY <1>1, <2>1, <2>2
<1> HIDE DEF r, At
<1>7. Falls(r)
  BY <1>4, <1>5 DEF Kept, Falls
<1>8. Before(f, r)
  BY <1>4, <1>5 DEF Kept, Before
<1>9. \A i \in 1 .. L : i # k => w[i] # w[k]
  BY <1>1 DEF Kept, Falls
<1>10. \A i \in 1 .. Len(f) : f[i] # w[k]
  <2>1. \A i \in 1 .. Len(f) : f[i] \in Nat /\ f[i] < w[k]
    BY <1>1 DEF Kept, Before
  <2> QED
    BY <1>1, <2>1
<1>11. ASSUME NEW m \in Nat
       PROVE  Holds(f, m) \/ Holds(r, m) <=> (Holds(f, m) \/ Holds(w, m)) /\ m # w[k]
  <2>1. ASSUME NEW i \in 1 .. L, w[i] = m, m # w[k] PROVE Holds(r, m)
    <3>1. PICK j \in 1 .. L - 1 : At(j) = i
      BY <1>6, <2>1
    <3> QED
      BY <1>4, <2>1, <3>1 DEF Holds
  <2>2. ASSUME NEW i \in 1 .. Len(r), r[i] = m PROVE Holds(w, m) /\ m # w[k]
    BY <1>4, <1>5, <1>9, <2>2 DEF Holds
  <2> QED
    BY <1>10, <2>1, <2>2 DEF Holds
<1> QED
  BY <1>4, <1>7, <1>8, <1>11 DEF Kept, r

\* Kept is what LinesKept says.
LEMMA KeptIsShown ==
  ASSUME finished \in Seq(Nat), working \in Seq(Nat), sent \in Nat,
         Kept(finished, working, sent, gone)
  PROVE  LinesKept
<1> DEFINE all == finished \o Reverse(working)
<1>1. Len(working) \in Nat /\ 0 \in 0 .. Len(working)
  OBVIOUS
<1>2. SubSeq(working, 0 + 1, Len(working)) = working
  BY <1>1
<1>3. all \in Seq(Nat) /\ Kept(all, SubSeq(working, 1, 0), sent, gone)
  BY <1>1, <1>2, KeptWhenMoved
<1>4. Len(SubSeq(working, 1, 0)) = 0
  BY <1>1
<1> HIDE DEF all
<1>5. \A k \in Nat : ~Holds(SubSeq(working, 1, 0), k)
  BY <1>4 DEF Holds
<1>6. ToSet(all) = (1 .. sent) \ gone
  <2>1. \A k \in Nat : Holds(all, k) <=> k \in 1 .. sent /\ k \notin gone
    BY <1>3, <1>5 DEF Kept
  <2>2. \A k : k \in ToSet(all) <=> k \in Nat /\ Holds(all, k)
    BY <1>3 DEF ToSet, Holds
  <2>3. \A k : k \in 1 .. sent => k \in Nat
    OBVIOUS
  <2> QED
    BY <2>1, <2>2, <2>3
<1>7. \A i \in 1 .. Len(all) - 1 : all[i] < all[i + 1]
  <2>1. \A i \in 1 .. Len(all) - 1 : i \in 1 .. Len(all) /\ i + 1 \in 1 .. Len(all) /\ i < i + 1
    BY <1>3
  <2> QED
    BY <1>3, <2>1 DEF Kept, Rises
<1> QED
  BY <1>6, <1>7 DEF LinesKept, all
(***************************************************************************)
(* The inductive invariant: the lines, and the types the steps rely on.    *)
(***************************************************************************)
Typed ==
    /\ text \in Seq([char : Nat, line : Nat]) /\ pos \in Nat
    /\ first \in Int /\ lineNumber \in Int /\ sent \in Nat
    /\ working \in Seq(Nat) /\ finished \in Seq(Nat)

LinesInv == Typed /\ Kept(finished, working, sent, gone)

LEMMA MinIsLeast ==
  ASSUME NEW S \in SUBSET Nat, S # {}
  PROVE  Min(S) \in S /\ \A k \in S : Min(S) <= k
<1>1. PICK m \in S : \A k \in S : ~(<<k, m>> \in OpToRel(<, Nat))
  BY NatLessThanWellFounded, WFMin
<1>2. \A k \in S : m <= k
  <2> TAKE k \in S
  <2>1. ~(<<k, m>> \in {e \in Nat \X Nat : e[1] < e[2]})
    BY <1>1, Zenon DEF OpToRel
  <2> QED
    BY <2>1
<1> QED
  BY <1>2 DEF Min

LEMMA NumberIsNat ==
  ASSUME NEW n \in Nat, NEW s, DOMAIN s = 1 .. n, NEW i
  PROVE  Number(s, i) \in Nat
<1> DEFINE J == {j \in Newlines(s) : j < i}
<1>1. IsFiniteSet(1 .. n)
  BY FS_Interval
<1>2. J \subseteq 1 .. n
  BY DEF Newlines
<1>3. IsFiniteSet(J)
  BY <1>1, <1>2, FS_Subset
<1>4. Cardinality(J) \in Nat
  BY <1>3, FS_CardinalityType
<1> QED
  BY <1>4 DEF Number

LEMMA CharsType ==
  ASSUME Typed
  PROVE  DOMAIN Chars = 1 .. Len(text) /\ Len(text) \in Nat /\ MatchLine \in Int
<1>1. DOMAIN Chars = 1 .. Len(text) /\ Len(text) \in Nat
  BY DEF Typed, Chars
<1>2. Number(Chars, pos) \in Nat
  BY <1>1, NumberIsNat
<1> QED
  BY <1>1, <1>2 DEF MatchLine, Typed

\* Of the responders only a gag changes the lines, and it takes one away.
LEMMA RespondKeeps ==
  ASSUME LinesInv, NEW r \in {Work, Advance}, NEW t
  PROVE  /\ Respond(r, t).working \in Seq(Nat) /\ Respond(r, t).lineNumber \in Int
         /\ Kept(finished, Respond(r, t).working, sent, Respond(r, t).gone)
<1> DEFINE g == IF t \in Gags THEN Gag(r) ELSE r
           s == IF t \in Switches THEN Switch(g) ELSE g
           d == IF t \in Deletes THEN Delete(s) ELSE s
           Good(q) == /\ q.working \in Seq(Nat) /\ q.lineNumber \in Int
                      /\ Kept(finished, q.working, sent, q.gone)
           Same(p, q) == /\ p.working = q.working /\ p.lineNumber = q.lineNumber
                         /\ p.gone = q.gone /\ DOMAIN p = DOMAIN Work
<1>1. Good(Work)
  BY DEF LinesInv, Typed, Work
<1>2. Good(r) /\ DOMAIN r = DOMAIN Work
  <2>1. CASE r = Work
    BY <1>1, <2>1
  <2>2. CASE r = Advance
    <3>1. MatchLine \in Int
      BY CharsType DEF LinesInv
    <3>2. /\ Advance.working = working /\ Advance.gone = gone
          /\ Advance.lineNumber \in {lineNumber, MatchLine} /\ DOMAIN Advance = DOMAIN Work
      BY DEF Advance, Work
    <3> QED
      BY <2>2, <3>1, <3>2 DEF LinesInv, Typed
  <2> QED
    BY <2>1, <2>2
<1>3. Good(g) /\ DOMAIN g = DOMAIN Work
  <2>1. CASE ~OnLine(r)
    <3>1. Gag(r) = [r EXCEPT !.gagged = TRUE]
      BY <2>1 DEF Gag
    <3>2. Same(Gag(r), r)
      BY <1>2, <3>1 DEF Work
    <3> QED
      BY <1>2, <3>2
  <2>2. CASE OnLine(r)
    <3> DEFINE k == r.lineNumber + 1
    <3>1. k \in 1 .. Len(r.working)
      BY <1>2, <2>2 DEF OnLine
    <3>2. /\ RemoveAt(r.working, k) \in Seq(Nat)
          /\ Kept(finished, RemoveAt(r.working, k), sent, r.gone \cup {r.working[k]})
      BY <1>2, <3>1, KeptWhenGagged DEF LinesInv, Typed
    <3>3. /\ Gag(r).working = RemoveAt(r.working, k) /\ Gag(r).gone = r.gone \cup {r.working[k]}
          /\ Gag(r).lineNumber = r.lineNumber - 1 /\ DOMAIN Gag(r) = DOMAIN Work
      BY <1>2, <2>2 DEF Gag, Work
    <3>4. Gag(r).lineNumber \in Int
      BY <1>2, <3>3
    <3> QED
      BY <1>2, <3>2, <3>3, <3>4
  <2> QED
    BY <2>1, <2>2
<1> HIDE DEF g
<1>4. Same(s, g)
  BY <1>3 DEF Switch, Work
<1>5. Good(s) /\ DOMAIN s = DOMAIN Work
  BY <1>3, <1>4
<1> HIDE DEF s
<1>6. Same(d, s)
  BY <1>5 DEF Delete, Work
<1>7. Good(d)
  BY <1>5, <1>6
<1> QED
  BY <1>7 DEF Respond, g, s

LEMMA LinesAtDispatch ==
  ASSUME NEW s \in Chunks, dispatch(s)
  PROVE  LinesInv'
<1>1. PICK n \in 1 .. MaxText : s \in [1 .. n -> Trigs \cup {Newline}]
  BY DEF Chunks
<1>2. n \in Nat /\ DOMAIN s = 1 .. n /\ \A i \in 1 .. n : s[i] \in Nat
  BY <1>1, TriggersAssumption DEF Trigs, Newline
<1>3. Lines(s) \in Nat
  <2>1. Number(s, Len(s)) \in Nat
    BY <1>2, NumberIsNat
  <2> QED
    BY <2>1 DEF Lines
<1>4. Tagged(s) \in Seq([char : Nat, line : Nat])
  <2>1. \A i \in 1 .. n : Number(s, i) + 1 \in Nat
    BY <1>2, NumberIsNat
  <2>2. Tagged(s) \in [1 .. n -> [char : Nat, line : Nat]]
    BY <1>2, <2>1 DEF Tagged
  <2> QED
    BY <1>2, <2>2, AnySeq
<1>5. Countdown(Lines(s)) \in Seq(Nat) /\ Kept(<<>>, Countdown(Lines(s)), Lines(s), {})
  BY <1>3, KeptAtFirst
<1>6. /\ text' = Tagged(s) /\ pos' = 0 /\ first' = Lines(s) - 1 /\ lineNumber' = Lines(s) - 1
      /\ sent' = Lines(s) /\ working' = Countdown(Lines(s)) /\ finished' = <<>> /\ gone' = {}
  BY DEF dispatch
<1>7. Typed'
  BY <1>3, <1>4, <1>5, <1>6 DEF Typed
<1> QED
  BY <1>5, <1>6, <1>7 DEF LinesInv

\* The elements of the rest of a sequence.
LEMMA RestOf ==
  ASSUME NEW S, NEW s \in Seq(S), NEW d \in Nat
  PROVE  \A i \in d + 1 .. Len(s) : s[i] \in S
<1> TAKE i \in d + 1 .. Len(s)
<1>1. Len(s) \in Nat
  OBVIOUS
<1>2. i \in 1 .. Len(s)
  BY <1>1
<1> QED
  BY <1>2, ElementOfSeq

LEMMA LinesAtRebuild ==
  ASSUME LinesInv, Rebuild
  PROVE  LinesInv'
<1> USE DEF LinesInv, Typed
<1>1. CASE UNCHANGED <<config, pc, search, lines>>
  BY <1>1 DEF Rebuild, search, lines
<1>2. CASE ~UNCHANGED <<config, pc, search, lines>>
  <2> DEFINE left == Min({lineNumber + 1, Len(working)})
  <2>1. /\ matching /\ Dropped <= Len(text) /\ lineNumber >= -1
        /\ text' = SubSeq(text, Dropped + 1, Len(text)) /\ pos' = 0
        /\ finished' = finished \o Reverse(SubSeq(working, left + 1, Len(working)))
        /\ working' = SubSeq(working, 1, left)
        /\ first' = left - 1 /\ lineNumber' = left - 1 /\ sent' = sent /\ gone' = gone
    BY <1>2 DEF Rebuild
  <2>2. left \in 0 .. Len(working)
    <3>1. lineNumber + 1 \in Nat /\ Len(working) \in Nat
      BY <2>1
    <3>2. left \in {lineNumber + 1, Len(working)} /\ left <= Len(working)
      BY <3>1, MinIsLeast
    <3> HIDE DEF left
    <3>3. left \in Nat
      BY <3>1, <3>2
    <3> QED
      BY <3>1, <3>2, <3>3
  <2>3. finished' \in Seq(Nat) /\ working' \in Seq(Nat) /\ Kept(finished', working', sent', gone')
    BY <2>1, <2>2, KeptWhenMoved
  <2>4. Dropped \in Nat
    <3> DEFINE E == {i \in Newlines(Chars) : i >= pos} \cup {Len(text) + 1}
    <3>1. E \in SUBSET Nat /\ E # {}
      BY CharsType DEF Newlines
    <3>2. LineEnd \in Nat
      BY <3>1, MinIsLeast DEF LineEnd
    <3> QED
      BY <3>2 DEF Dropped
  <2>5. text' \in Seq([char : Nat, line : Nat])
    <3>1. \A i \in Dropped + 1 .. Len(text) : text[i] \in [char : Nat, line : Nat]
      <4>1. text \in Seq([char : Nat, line : Nat]) /\ Dropped \in Nat
        BY <2>4
      <4> QED
        BY <4>1, RestOf
    <3>2. Dropped + 1 \in Int /\ Len(text) \in Int
      BY <2>4
    <3> QED
      BY <2>1, <3>1, <3>2, SubSeqProperties
  <2>6. left - 1 \in Int
    BY <2>2
  <2> HIDE DEF left
  <2> QED
    BY <2>1, <2>3, <2>5, <2>6
<1> QED
  BY <1>1, <1>2

LEMMA LinesStep == LinesInv /\ [Next]_vars => LinesInv'
<1> SUFFICES ASSUME LinesInv, [Next]_vars PROVE LinesInv'
  OBVIOUS
<1>1. ASSUME UNCHANGED search, UNCHANGED lines, UNCHANGED <<sent, gone>> PROVE LinesInv'
  BY <1>1 DEF LinesInv, Typed, search, lines
<1>2. ASSUME NEW s \in Chunks, dispatch(s) PROVE LinesInv'
  BY <1>2, LinesAtDispatch
<1>3. CASE Find
  <2>1. CASE Finish
    <3>1. /\ finished' = finished \o Reverse(working) /\ working' = <<>>
          /\ UNCHANGED <<text, pos, first, lineNumber, sent, gone>>
      BY <2>1 DEF Finish, search, history
    <3>2. working \in Seq(Nat) /\ finished \in Seq(Nat) /\ Kept(finished, working, sent, gone)
      BY DEF LinesInv, Typed
    <3>3. 0 \in 0 .. Len(working) /\ SubSeq(working, 1, 0) = <<>>
      BY <3>2
    <3>4. SubSeq(working, 0 + 1, Len(working)) = working
      BY <3>2
    <3>5. finished' \in Seq(Nat) /\ working' \in Seq(Nat) /\ Kept(finished', working', sent, gone)
      BY <3>1, <3>2, <3>3, <3>4, KeptWhenMoved
    <3> QED
      BY <3>1, <3>5 DEF LinesInv, Typed
  <2>2. CASE Hits # {} /\ pos' = Min(Hits) /\ UNCHANGED <<text, first, lines, sent, gone>>
    <3>1. Hits \in SUBSET Nat
      BY DEF Hits, LinesInv, Typed
    <3>2. pos' \in Nat
      BY <2>2, <3>1, MinIsLeast
    <3> QED
      BY <2>2, <3>2 DEF LinesInv, Typed, lines
  <2> QED
    BY <1>3, <2>1, <2>2 DEF Find, history
<1>4. CASE FireLost
  BY <1>1, <1>4 DEF FireLost, Throw, Skip, history
<1>5. CASE Fire
  <2>1. CASE Skip
    BY <1>1, <2>1 DEF Skip, history
  <2>2. CASE ~Skip
    <3> DEFINE t == text[pos].char
               r == IF t \in enabled THEN Respond(Advance, t) ELSE Advance
    <3>1. /\ working' = r.working /\ lineNumber' = r.lineNumber /\ gone' = r.gone
          /\ UNCHANGED <<text, pos, first, finished, sent>>
      BY <1>5, <2>2 DEF Fire, search
    <3>2. /\ Advance.working = working /\ Advance.gone = gone
          /\ Advance.lineNumber \in {lineNumber, MatchLine}
      BY DEF Advance, Work
    <3>3. MatchLine \in Int
      BY CharsType DEF LinesInv
    <3>4. /\ r.working \in Seq(Nat) /\ r.lineNumber \in Int
          /\ Kept(finished, r.working, sent, r.gone)
      BY <3>2, <3>3, RespondKeeps DEF LinesInv, Typed
    <3> QED
      BY <3>1, <3>4 DEF LinesInv, Typed
  <2> QED
    BY <2>1, <2>2
<1>6. CASE Rebuild
  BY <1>6, LinesAtRebuild
<1>7. CASE Script
  BY <1>1, <1>7 DEF Script, history
<1>8. CASE OtherConnection
  BY <1>1, <1>8 DEF OtherConnection
<1>9. CASE Edited
  BY <1>9 DEF Edited, LinesInv, Typed, lines
<1>10. CASE UNCHANGED vars
  BY <1>1, <1>10 DEF vars, history
<1> QED
  BY <1>2, <1>3, <1>4, <1>5, <1>6, <1>7, <1>8, <1>9, <1>10
  DEF Next, Dispatch, setTriggerEnabled, deleteTrigger, newTrigger

LEMMA LinesInit == Init => LinesInv
<1> SUFFICES ASSUME Init PROVE LinesInv
  OBVIOUS
<1>1. Typed
  BY DEF Init, Typed
<1>2. Kept(<<>>, <<>>, 0, {})
  BY DEF Kept, Rises, Falls, Before, Holds
<1> QED
  BY <1>1, <1>2 DEF LinesInv, Init

\* Whatever is gagged, moved on or rebuilt, every line of a chunk is gagged or shown,
\* once, and the lines stay in order.
THEOREM LinesAreKept == Spec => []LinesKept
<1>1. LinesInv => LinesKept
  BY KeptIsShown DEF LinesInv, Typed
<1> QED
  BY <1>1, LinesInit, LinesStep, PTL DEF Spec

(***************************************************************************)
(* The line of a match.  Until the table is rebuilt, what is at work up to *)
(* lineNumber are the newest lines, none of them missing: gags have only   *)
(* taken older ones away.                                                  *)
(***************************************************************************)
Newest(w, k) == \A i \in 1 .. Len(w) : i <= k + 1 => w[i] = sent + 1 - i
Reaches(w, k) == k < Len(w)

Facing ==
    /\ first = sent - 1 /\ Newest(working, lineNumber) /\ Reaches(working, lineNumber)
    /\ \A i \in 1 .. Len(text) : text[i].line = Number(Chars, i) + 1
    /\ pc = "fire" => pos \in 1 .. Len(text)

RightInv == ~rebuilt => ~wrong /\ (pc # "idle" => Facing)

LEMMA RespondFaces ==
  ASSUME Typed, NEW r, DOMAIN r = DOMAIN Work, r.working = working, r.lineNumber \in Int,
         Newest(working, r.lineNumber), Reaches(working, r.lineNumber), NEW t
  PROVE  /\ Newest(Respond(r, t).working, Respond(r, t).lineNumber)
         /\ Reaches(Respond(r, t).working, Respond(r, t).lineNumber)
<1> DEFINE g == IF t \in Gags THEN Gag(r) ELSE r
           s == IF t \in Switches THEN Switch(g) ELSE g
           d == IF t \in Deletes THEN Delete(s) ELSE s
           Good(q) == Newest(q.working, q.lineNumber) /\ Reaches(q.working, q.lineNumber)
           Same(p, q) == /\ p.working = q.working /\ p.lineNumber = q.lineNumber
                         /\ DOMAIN p = DOMAIN Work
<1>1. Good(g) /\ DOMAIN g = DOMAIN Work
  <2>1. CASE ~OnLine(r)
    <3>1. Gag(r) = [r EXCEPT !.gagged = TRUE]
      BY <2>1 DEF Gag
    <3>2. Same(Gag(r), r)
      BY <3>1 DEF Work
    <3> QED
      BY <3>2
  <2>2. CASE OnLine(r)
    <3> DEFINE k == r.lineNumber + 1
               w == RemoveAt(working, k)
    <3>1. k \in 1 .. Len(working) /\ working \in Seq(Nat) /\ Len(working) \in Nat
      BY <2>2 DEF OnLine, Typed
    <3>2. Len(w) = Len(working) - 1 /\ \A i \in 1 .. Len(w) : i < k => w[i] = working[i]
      BY <3>1, Removed
    <3>3. /\ Gag(r).working = w /\ Gag(r).lineNumber = r.lineNumber - 1
          /\ DOMAIN Gag(r) = DOMAIN Work
      BY <2>2 DEF Gag, Work
    <3> HIDE DEF w
    <3>4. Newest(w, r.lineNumber - 1)
      <4> SUFFICES ASSUME NEW i \in 1 .. Len(w), i <= (r.lineNumber - 1) + 1
                   PROVE  w[i] = sent + 1 - i
        BY DEF Newest
      <4>1. i < k /\ i \in 1 .. Len(working) /\ i <= r.lineNumber + 1
        BY <3>1, <3>2
      <4> QED
        BY <3>2, <4>1 DEF Newest
    <3>5. Reaches(w, r.lineNumber - 1)
      BY <3>1, <3>2 DEF Reaches
    <3> QED
      BY <3>3, <3>4, <3>5
  <2> QED
    BY <2>1, <2>2
<1> HIDE DEF g
<1>2. Same(s, g)
  BY <1>1 DEF Switch, Work
<1> HIDE DEF s
<1>3. Same(d, s)
  BY <1>2 DEF Delete, Work
<1>4. Good(d)
  BY <1>1, <1>2, <1>3
<1> QED
  BY <1>4 DEF Respond, g, s

\* Steps that leave the lines and the text alone.
LEMMA RightKept ==
  ASSUME RightInv, UNCHANGED <<text, first, working, lineNumber, sent, rebuilt, wrong>>,
         pc' # "idle" => pc # "idle", pc' = "fire" => pos' \in 1 .. Len(text)
  PROVE  RightInv'
<1> SUFFICES ASSUME ~rebuilt, pc' # "idle" PROVE ~wrong' /\ Facing'
  BY DEF RightInv
<1>1. ~wrong /\ Facing
  BY DEF RightInv
<1>2. Chars' = Chars
  BY DEF Chars
<1> QED
  BY <1>1, <1>2 DEF Facing, Newest, Reaches, Number, Newlines

LEMMA RightAtDispatch ==
  ASSUME NEW s \in Chunks, dispatch(s)
  PROVE  RightInv'
<1>1. PICK n \in 1 .. MaxText : s \in [1 .. n -> Trigs \cup {Newline}]
  BY DEF Chunks
<1>2. n \in Nat /\ DOMAIN s = 1 .. n
  BY <1>1, TriggersAssumption
<1>3. Lines(s) \in Nat
  <2>1. Number(s, Len(s)) \in Nat
    BY <1>2, NumberIsNat
  <2> QED
    BY <2>1 DEF Lines
<1>4. /\ text' = Tagged(s) /\ first' = Lines(s) - 1 /\ lineNumber' = Lines(s) - 1
      /\ sent' = Lines(s) /\ working' = Countdown(Lines(s)) /\ pc' = "find" /\ wrong' = FALSE
  BY DEF dispatch
<1>5. text' = [i \in 1 .. n |-> [char |-> s[i], line |-> Number(s, i) + 1]] /\ Len(text') = n
  BY <1>2, <1>4 DEF Tagged
<1>6. Chars' = s
  <2>1. Chars' = [i \in 1 .. n |-> s[i]]
    BY <1>5 DEF Chars
  <2> QED
    BY <1>1, <2>1
<1>7. \A i \in 1 .. Len(text') : text'[i].line = Number(Chars', i) + 1
  BY <1>5, <1>6
<1>8. Len(working') = sent' /\ \A i \in 1 .. Len(working') : working'[i] = sent' + 1 - i
  BY <1>3, <1>4 DEF Countdown
<1>9. Newest(working, lineNumber)' /\ Reaches(working, lineNumber)'
  BY <1>3, <1>4, <1>8 DEF Newest, Reaches
<1>10. Facing'
  BY <1>4, <1>7, <1>9 DEF Facing, Number, Newlines
<1> QED
  BY <1>4, <1>10 DEF RightInv

LEMMA RightAtFire ==
  ASSUME Typed, RightInv, Fire, ~rebuilt, MatchLine <= lineNumber, ~Skip
  PROVE  RightInv'
<1> DEFINE t == text[pos].char
           r == IF t \in enabled THEN Respond(Advance, t) ELSE Advance
<1>1. /\ pc = "fire" /\ pc' # "fire" /\ working' = r.working /\ lineNumber' = r.lineNumber
      /\ wrong' = (wrong \/ (/\ t \in enabled /\ OnLine(Advance)
                            /\ working[Advance.lineNumber + 1] # text[pos].line))
      /\ UNCHANGED <<text, pos, first, sent, rebuilt>>
  BY DEF Fire, search
<1>2. Facing /\ ~wrong
  BY <1>1 DEF RightInv
<1>3. MatchLine \in Int /\ lineNumber \in Int /\ sent \in Nat /\ working \in Seq(Nat)
  BY CharsType DEF Typed
<1>4. /\ Advance.working = working /\ DOMAIN Advance = DOMAIN Work
      /\ Advance.lineNumber = MatchLine
  <2>1. IF lineNumber > MatchLine THEN MatchLine = MatchLine ELSE lineNumber = MatchLine
    BY <1>3
  <2> QED
    BY <2>1 DEF Advance, Work
<1>5. Newest(working, MatchLine) /\ Reaches(working, MatchLine)
  <2>1. Newest(working, lineNumber) /\ Reaches(working, lineNumber) /\ Len(working) \in Nat
    BY <1>2, <1>3 DEF Facing
  <2> QED
    BY <1>3, <2>1 DEF Newest, Reaches
<1>6. ~wrong'
  <2> SUFFICES ASSUME OnLine(Advance) PROVE working[MatchLine + 1] = text[pos].line
    BY <1>1, <1>2, <1>4
  <2>1. MatchLine + 1 \in 1 .. Len(working)
    BY <1>3, <1>4 DEF OnLine
  <2>2. working[MatchLine + 1] = sent + 1 - (MatchLine + 1)
    BY <1>3, <1>5, <2>1 DEF Newest
  <2>3. text[pos].line = Number(Chars, pos) + 1 /\ first = sent - 1
    BY <1>1, <1>2 DEF Facing
  <2>4. Number(Chars, pos) \in Nat
    BY CharsType, NumberIsNat
  <2> QED
    BY <1>3, <2>2, <2>3, <2>4 DEF MatchLine
<1>7. Newest(r.working, r.lineNumber) /\ Reaches(r.working, r.lineNumber)
  BY <1>3, <1>4, <1>5, RespondFaces
<1>8. Newest(working, lineNumber)' /\ Reaches(working, lineNumber)'
  BY <1>1, <1>7 DEF Newest, Reaches
<1>9. Chars' = Chars
  BY <1>1 DEF Chars
<1>10. Facing'
  BY <1>1, <1>2, <1>8, <1>9 DEF Facing, Number, Newlines
<1> QED
  BY <1>6, <1>10 DEF RightInv

LEMMA RightStep == LinesInv /\ RightInv /\ [Next]_vars => RightInv'
<1> SUFFICES ASSUME LinesInv, RightInv, [Next]_vars PROVE RightInv'
  OBVIOUS
<1>0. Typed
  BY DEF LinesInv
<1>1. ASSUME UNCHANGED search, UNCHANGED lines, UNCHANGED <<pc, sent, rebuilt, wrong>>
      PROVE  RightInv'
  <2>1. ~rebuilt /\ pc = "fire" => pos \in 1 .. Len(text)
    BY DEF RightInv, Facing
  <2>2. CASE rebuilt
    BY <1>1, <2>2 DEF RightInv
  <2>3. CASE ~rebuilt
    BY <1>1, <2>1, <2>3, RightKept DEF search, lines
  <2> QED
    BY <2>2, <2>3
<1>2. ASSUME NEW s \in Chunks, dispatch(s) PROVE RightInv'
  BY <1>2, RightAtDispatch
<1>3. ASSUME Skip, pc = "fire" PROVE RightInv'
  BY <1>3, RightKept DEF Skip, search, lines, history
<1>4. CASE Find
  <2>1. CASE Finish
    BY <2>1 DEF Finish, history, RightInv
  <2>2. CASE /\ Hits # {} /\ pos' = Min(Hits) /\ pc = "find"
             /\ UNCHANGED <<text, first, lines, sent, rebuilt, wrong>>
    <3>1. Hits \in SUBSET Nat /\ Hits \subseteq 1 .. Len(text)
      BY <1>0 DEF Hits, Typed
    <3>2. pos' \in 1 .. Len(text)
      BY <2>2, <3>1, MinIsLeast
    <3> QED
      BY <2>2, <3>2, RightKept DEF lines
  <2> QED
    BY <1>4, <2>1, <2>2 DEF Find, history
<1>5. CASE FireLost
  BY <1>1, <1>3, <1>5 DEF FireLost, Throw, history
<1>6. CASE Fire
  <2>1. CASE Skip
    BY <1>3, <1>6, <2>1 DEF Fire
  <2>2. CASE ~Skip
    <3>1. MatchLine <= lineNumber /\ rebuilt' = rebuilt
      BY <1>6, <2>2 DEF Fire
    <3>2. CASE rebuilt
      BY <3>1, <3>2 DEF RightInv
    <3>3. CASE ~rebuilt
      BY <1>0, <1>6, <2>2, <3>1, <3>3, RightAtFire
    <3> QED
      BY <3>2, <3>3
  <2> QED
    BY <2>1, <2>2
<1>7. CASE Rebuild
  BY <1>7 DEF Rebuild, RightInv
<1>8. CASE Script
  BY <1>1, <1>8 DEF Script, history
<1>9. CASE OtherConnection
  BY <1>1, <1>9 DEF OtherConnection
<1>10. CASE Edited
  <2>1. UNCHANGED <<text, pos, first, lines, pc, sent, rebuilt, wrong>>
    BY <1>10 DEF Edited
  <2>2. ~rebuilt /\ pc = "fire" => pos \in 1 .. Len(text)
    BY DEF RightInv, Facing
  <2>3. CASE rebuilt
    BY <2>1, <2>3 DEF RightInv
  <2>4. CASE ~rebuilt
    BY <2>1, <2>2, <2>4, RightKept DEF lines
  <2> QED
    BY <2>3, <2>4
<1>11. CASE UNCHANGED vars
  BY <1>1, <1>11 DEF vars, history
<1> QED
  BY <1>2, <1>4, <1>5, <1>6, <1>7, <1>8, <1>9, <1>10, <1>11
  DEF Next, Dispatch, setTriggerEnabled, deleteTrigger, newTrigger

\* A responder works on the line its trigger matched in, until a responder of the
\* dispatch has changed the triggers.
THEOREM LineIsRight == Spec => []RightLine
<1>1. Init => LinesInv /\ RightInv
  <2> SUFFICES ASSUME Init PROVE LinesInv /\ RightInv
    OBVIOUS
  <2>1. LinesInv
    BY LinesInit
  <2>2. RightInv
    BY DEF Init, RightInv
  <2> QED
    BY <2>1, <2>2
<1>2. LinesInv /\ RightInv /\ [Next]_vars => (LinesInv /\ RightInv)'
  BY LinesStep, RightStep
<1>3. RightInv => RightLine
  BY DEF RightInv, RightLine
<1> QED
  BY <1>1, <1>2, <1>3, PTL DEF Spec

(***************************************************************************)
(* The types.  Most of them say how far numbers go: no line of a chunk is  *)
(* numbered below the length of the text, whatever is cut off it or gagged *)
(* on the way, and what is shown or gagged are lines of the chunk, which   *)
(* LinesInv gives.                                                         *)
(***************************************************************************)
LEMMA LinesTyped ==
  ASSUME NEW f \in Seq(Nat), NEW w \in Seq(Nat), NEW n \in 0 .. MaxText, NEW g,
         Kept(f, w, n, g)
  PROVE  f \in Seq(1 .. MaxText) /\ w \in Seq(1 .. MaxText)
<1>1. MaxText \in Nat
  BY TriggersAssumption
<1>2. ASSUME NEW q \in {f, w}, NEW i \in 1 .. Len(q) PROVE q[i] \in 1 .. MaxText
  <2>1. q \in Seq(Nat)
    OBVIOUS
  <2>2. q[i] \in Nat
    BY <2>1, ElementOfSeq
  <2>3. Holds(f, q[i]) \/ Holds(w, q[i])
    BY <2>1 DEF Holds
  <2>4. q[i] \in 1 .. n
    BY <2>2, <2>3, Zenon DEF Kept
  <2> QED
    BY <1>1, <2>4
<1>3. ASSUME NEW q \in {f, w} PROVE q \in Seq(1 .. MaxText)
  <2>1. Len(q) \in Nat /\ q = [i \in 1 .. Len(q) |-> q[i]]
    OBVIOUS
  <2>2. q \in [1 .. Len(q) -> 1 .. MaxText]
    BY <1>2, <2>1
  <2> QED
    BY <2>1, <2>2, AnySeq
<1> QED
  BY <1>3

\* No more newlines lie before a character than characters.
LEMMA NumberBound ==
  ASSUME NEW n \in Nat, NEW s, DOMAIN s = 1 .. n, NEW i \in 1 .. n
  PROVE  Number(s, i) \in 0 .. i - 1
<1> DEFINE J == {j \in Newlines(s) : j < i}
<1>1. J \subseteq 1 .. i - 1
  BY DEF Newlines
<1>2. IsFiniteSet(1 .. i - 1) /\ Cardinality(1 .. i - 1) = i - 1
  <2>1. 1 \in Int /\ i - 1 \in Int
    OBVIOUS
  <2>2. Cardinality(1 .. i - 1) = IF 1 > i - 1 THEN 0 ELSE (i - 1) - 1 + 1
    BY <2>1, FS_Interval
  <2>3. IsFiniteSet(1 .. i - 1)
    BY <2>1, FS_Interval
  <2> QED
    BY <2>2, <2>3
<1>3. Cardinality(J) \in Nat /\ Cardinality(J) <= i - 1
  <2>1. IsFiniteSet(J) /\ Cardinality(J) <= Cardinality(1 .. i - 1)
    BY <1>1, <1>2, FS_Subset
  <2>2. Cardinality(J) \in Nat
    BY <2>1, FS_CardinalityType
  <2> QED
    BY <1>2, <2>1, <2>2
<1> HIDE DEF J
<1>4. Number(s, i) = Cardinality(J)
  BY DEF Number, J
<1> QED
  BY <1>3, <1>4

LEMMA BuildTyped ==
  ASSUME NEW list \in SUBSET Trigs, NEW on
  PROVE  Build(list, on) \in [list : SUBSET Trigs, blank : BOOLEAN]
BY DEF Build

LEMMA SortTyped ==
  ASSUME NEW all \in SUBSET Trigs, sorted \in SUBSET Trigs, NEW t
  PROVE  Sort(all, t) \in SUBSET Trigs
BY DEF Sort

LEMMA TypeInit == Init => TypeOK
<1> SUFFICES ASSUME Init PROVE TypeOK
  OBVIOUS
<1>1. table \in [list : SUBSET Trigs, blank : BOOLEAN]
  <2>1. Trigs \in SUBSET Trigs /\ table = Build(Trigs, enabled)
    BY DEF Init
  <2> QED
    BY <2>1, BuildTyped
<1>2. triggers \subseteq Trigs /\ enabled \subseteq Trigs /\ sorted \subseteq Trigs
  BY DEF Init
<1>3. <<>> \in Seq([char : Trigs \cup {Newline}, line : 1 .. MaxText]) /\ <<>> \in Seq(1 .. MaxText)
  OBVIOUS
<1>4. MaxText \in Nat \ {0} /\ MaxOps \in Nat
  BY TriggersAssumption
<1>5. /\ text \in Seq([char : Trigs \cup {Newline}, line : 1 .. MaxText])
      /\ working \in Seq(1 .. MaxText) /\ finished \in Seq(1 .. MaxText)
      /\ Len(text) = 0 /\ pos = 0 /\ gone = {}
  BY <1>3 DEF Init
<1>6. /\ first \in -1 .. MaxText - 1 /\ lineNumber \in -MaxText .. MaxText - 1
      /\ ops \in 0 .. MaxOps /\ sent \in 0 .. MaxText
  BY <1>4 DEF Init
<1>7. /\ triggersDirty = FALSE /\ pc = "idle" /\ matching = FALSE
      /\ keepEvaluating = FALSE /\ replaceGagged = FALSE /\ fault = FALSE
      /\ rebuilt = FALSE /\ edge = FALSE /\ edited = FALSE /\ wrong = FALSE /\ swept = FALSE
  BY DEF Init
<1>8. Len(text) <= MaxText /\ pos \in 0 .. Len(text)
  BY <1>4, <1>5
<1> QED
  BY <1>1, <1>2, <1>5, <1>6, <1>7, <1>8 DEF TypeOK

\* A chunk has no more lines than characters.
LEMMA TypeAtDispatch ==
  ASSUME TypeOK, LinesInv', NEW s \in Chunks, dispatch(s)
  PROVE  TypeOK'
<1>1. PICK n \in 1 .. MaxText : s \in [1 .. n -> Trigs \cup {Newline}]
  BY DEF Chunks
<1>2. MaxText \in Nat /\ n \in Nat /\ DOMAIN s = 1 .. n /\ Len(s) = n /\ n \in 1 .. n
  <2>1. MaxText \in Nat
    BY TriggersAssumption
  <2>2. n \in Nat
    BY <2>1
  <2>3. s \in Seq(Trigs \cup {Newline}) /\ Len(s) = n
    BY <1>1, <2>2, AnySeq
  <2> QED
    BY <1>1, <2>1, <2>2, <2>3
<1>3. Lines(s) \in 1 .. MaxText
  <2>1. Number(s, Len(s)) \in 0 .. n - 1
    BY <1>2, NumberBound
  <2> QED
    BY <1>2, <2>1 DEF Lines
<1>4. /\ Tagged(s) \in Seq([char : Trigs \cup {Newline}, line : 1 .. MaxText])
      /\ Len(Tagged(s)) = n
  <2>1. \A i \in 1 .. n : Number(s, i) + 1 \in 1 .. MaxText
    <3> TAKE i \in 1 .. n
    <3>1. Number(s, i) \in 0 .. i - 1
      BY <1>2, NumberBound
    <3> QED
      BY <1>2, <3>1
  <2>2. Tagged(s) \in [1 .. n -> [char : Trigs \cup {Newline}, line : 1 .. MaxText]]
    BY <1>1, <1>2, <2>1 DEF Tagged
  <2> QED
    BY <1>2, <2>2, AnySeq
<1>5. /\ text' = Tagged(s) /\ pos' = 0 /\ first' = Lines(s) - 1 /\ lineNumber' = Lines(s) - 1
      /\ sent' = Lines(s) /\ gone' = {} /\ pc' = "find" /\ matching' = TRUE
      /\ keepEvaluating' = TRUE /\ replaceGagged' = FALSE /\ triggersDirty' = FALSE
      /\ rebuilt' = FALSE /\ edge' = FALSE /\ edited' = FALSE /\ wrong' = FALSE
      /\ UNCHANGED <<triggers, enabled, sorted, fault>>
  BY DEF dispatch
<1>6. swept' \in BOOLEAN /\ ops' \in 0 .. MaxOps
  <2>1. swept' = (swept /\ ~triggersDirty) /\ ops > 0 /\ ops' = ops - 1
    BY DEF dispatch, Op
  <2>2. swept' \in BOOLEAN
    BY <2>1
  <2>3. ops \in 0 .. MaxOps /\ MaxOps \in Nat
    BY TriggersAssumption DEF TypeOK
  <2> QED
    BY <2>1, <2>2, <2>3
<1>7. table' \in [list : SUBSET Trigs, blank : BOOLEAN]
  <2>1. table' \in {Build(sorted, enabled), table}
    BY DEF dispatch
  <2>2. sorted \in SUBSET Trigs /\ table \in [list : SUBSET Trigs, blank : BOOLEAN]
    BY DEF TypeOK
  <2>3. Build(sorted, enabled) \in [list : SUBSET Trigs, blank : BOOLEAN]
    BY <2>2, BuildTyped
  <2> QED
    BY <2>1, <2>2, <2>3
<1>8. working' \in Seq(1 .. MaxText) /\ finished' \in Seq(1 .. MaxText)
  BY <1>2, <1>3, <1>5, LinesTyped DEF LinesInv, Typed
<1>9. /\ sent' \in 0 .. MaxText /\ first' \in -1 .. MaxText - 1
      /\ lineNumber' \in -MaxText .. MaxText - 1 /\ pos' \in 0 .. Len(text') /\ Len(text') <= MaxText
  BY <1>2, <1>3, <1>4, <1>5
<1>10. text' \in Seq([char : Trigs \cup {Newline}, line : 1 .. MaxText])
  BY <1>4, <1>5
<1>11. triggers' \subseteq Trigs /\ enabled' \subseteq Trigs /\ sorted' \subseteq Trigs /\ fault' \in BOOLEAN
  BY <1>5 DEF TypeOK
<1> QED
  BY <1>5, <1>6, <1>7, <1>8, <1>9, <1>10, <1>11 DEF TypeOK

\* Of the responders a gag steps back at most to the line before the newest.
Ranged(q) ==
    /\ q.triggers \subseteq Trigs /\ q.enabled \subseteq Trigs /\ q.dirty \in BOOLEAN
    /\ q.keep \in BOOLEAN /\ q.gagged \in BOOLEAN /\ q.gone \subseteq 1 .. MaxText
    /\ q.lineNumber \in -MaxText .. MaxText - 1

LEMMA SwitchRanged ==
  ASSUME NEW q, Ranged(q), DOMAIN q = DOMAIN Work
  PROVE  Ranged(Switch(q)) /\ DOMAIN Switch(q) = DOMAIN Work
<1>1. Target \in Trigs
  BY TriggersAssumption DEF Trigs
<1>2. CASE Target \notin q.triggers
  BY <1>2 DEF Switch
<1>3. CASE Target \in q.triggers
  <2>1. Switch(q) = [q EXCEPT !.enabled = (@ \ {Target}) \cup ({Target} \ @),
                              !.dirty = TRUE, !.keep = FALSE]
    BY <1>3 DEF Switch
  <2>2. /\ Switch(q).enabled = (q.enabled \ {Target}) \cup ({Target} \ q.enabled)
        /\ Switch(q).dirty = TRUE /\ Switch(q).keep = FALSE
        /\ Switch(q).triggers = q.triggers /\ Switch(q).gagged = q.gagged
        /\ Switch(q).gone = q.gone /\ Switch(q).lineNumber = q.lineNumber
        /\ DOMAIN Switch(q) = DOMAIN Work
    BY <2>1 DEF Work
  <2> QED
    BY <1>1, <2>2 DEF Ranged
<1> QED
  BY <1>2, <1>3

LEMMA DeleteRanged ==
  ASSUME NEW q, Ranged(q), DOMAIN q = DOMAIN Work
  PROVE  Ranged(Delete(q))
<1>1. /\ Delete(q).triggers = q.triggers \ {Target} /\ Delete(q).dirty = TRUE
      /\ Delete(q).keep = FALSE /\ Delete(q).enabled = q.enabled /\ Delete(q).gagged = q.gagged
      /\ Delete(q).gone = q.gone /\ Delete(q).lineNumber = q.lineNumber
  BY DEF Delete, Work
<1> QED
  BY <1>1 DEF Ranged

LEMMA GagRanged ==
  ASSUME NEW q, Ranged(q), DOMAIN q = DOMAIN Work, q.working \in Seq(1 .. MaxText)
  PROVE  Ranged(Gag(q)) /\ DOMAIN Gag(q) = DOMAIN Work
<1>1. CASE ~OnLine(q)
  <2>1. Gag(q) = [q EXCEPT !.gagged = TRUE]
    BY <1>1 DEF Gag
  <2>2. /\ Gag(q).gagged = TRUE /\ Gag(q).triggers = q.triggers /\ Gag(q).enabled = q.enabled
        /\ Gag(q).dirty = q.dirty /\ Gag(q).keep = q.keep /\ Gag(q).gone = q.gone
        /\ Gag(q).lineNumber = q.lineNumber /\ DOMAIN Gag(q) = DOMAIN Work
    BY <2>1 DEF Work
  <2> QED
    BY <2>2 DEF Ranged
<1>2. CASE OnLine(q)
  <2> DEFINE k == q.lineNumber + 1
  <2>1. MaxText \in Nat /\ q.lineNumber \in -MaxText .. MaxText - 1
    BY TriggersAssumption DEF Ranged
  <2>2. q.lineNumber >= 0 /\ k \in 1 .. Len(q.working)
    BY <1>2, <2>1 DEF OnLine
  <2>3. q.working[k] \in 1 .. MaxText
    BY <2>2, ElementOfSeq
  <2>4. Gag(q) = [q EXCEPT !.gagged = TRUE, !.gone = @ \cup {q.working[k]},
                           !.working = RemoveAt(@, k),
                           !.lineNumber = @ - 1, !.keep = @ /\ q.lineNumber > 0]
    BY <1>2 DEF Gag
  <2> HIDE DEF k
  <2>5. /\ Gag(q).gagged = TRUE /\ Gag(q).triggers = q.triggers /\ Gag(q).enabled = q.enabled
        /\ Gag(q).dirty = q.dirty /\ Gag(q).gone = q.gone \cup {q.working[k]}
        /\ Gag(q).lineNumber = q.lineNumber - 1 /\ DOMAIN Gag(q) = DOMAIN Work
    BY <2>4 DEF Work
  <2>6. Gag(q).keep \in BOOLEAN
    <3>1. Gag(q).keep = (q.keep /\ q.lineNumber > 0)
      BY <2>4 DEF Work
    <3> QED
      BY <3>1
  <2>7. q.lineNumber - 1 \in -MaxText .. MaxText - 1
    BY <2>1, <2>2, TriggersAssumption
  <2> QED
    BY <2>3, <2>5, <2>6, <2>7 DEF Ranged
<1> QED
  BY <1>1, <1>2

LEMMA RespondRanged ==
  ASSUME NEW q, Ranged(q), DOMAIN q = DOMAIN Work, q.working \in Seq(1 .. MaxText), NEW t
  PROVE  Ranged(Respond(q, t))
<1> DEFINE g == IF t \in Gags THEN Gag(q) ELSE q
           s == IF t \in Switches THEN Switch(g) ELSE g
<1>1. Ranged(g) /\ DOMAIN g = DOMAIN Work
  BY GagRanged
<1> HIDE DEF g
<1>2. Ranged(s) /\ DOMAIN s = DOMAIN Work
  BY <1>1, SwitchRanged
<1> HIDE DEF s
<1>3. t \in Deletes => Ranged(Delete(s))
  BY <1>2, DeleteRanged
<1>4. Respond(q, t) = IF t \in Deletes THEN Delete(s) ELSE s
  BY DEF Respond, g, s
<1> QED
  BY <1>2, <1>3, <1>4

LEMMA WorkRanged ==
  ASSUME TypeOK, LinesInv
  PROVE  /\ Ranged(Work) /\ Ranged(Advance) /\ DOMAIN Advance = DOMAIN Work
         /\ Work.working = working /\ Advance.working = working
<1>1. Ranged(Work) /\ Work.working = working
  BY DEF Work, Ranged, TypeOK
<1>2. /\ Advance.triggers = triggers /\ Advance.enabled = enabled /\ Advance.dirty = triggersDirty
      /\ Advance.keep = keepEvaluating /\ Advance.gagged = replaceGagged /\ Advance.gone = gone
      /\ Advance.working = working /\ DOMAIN Advance = DOMAIN Work
      /\ Advance.lineNumber = IF lineNumber > MatchLine THEN MatchLine ELSE lineNumber
  BY DEF Advance, Work
<1>3. Advance.lineNumber \in -MaxText .. MaxText - 1
  <2>1. /\ MaxText \in Nat /\ lineNumber \in -MaxText .. MaxText - 1 /\ first \in -1 .. MaxText - 1
        /\ Len(text) \in Nat /\ Len(text) <= MaxText /\ pos \in 0 .. Len(text)
    BY TriggersAssumption DEF TypeOK
  <2>2. Number(Chars, pos) \in Nat /\ -1 - Number(Chars, pos) >= -MaxText
    <3>1. DOMAIN Chars = 1 .. Len(text)
      BY <2>1 DEF Chars, TypeOK
    <3>2. CASE pos \in 1 .. Len(text)
      <4>1. Number(Chars, pos) \in 0 .. pos - 1
        BY <2>1, <3>1, <3>2, NumberBound
      <4> QED
        BY <2>1, <3>2, <4>1
    <3>3. CASE pos = 0
      <4>1. {j \in Newlines(Chars) : j < pos} = {}
        BY <2>1, <3>1, <3>3 DEF Newlines
      <4>2. Number(Chars, pos) = 0
        BY <4>1, FS_EmptySet DEF Number
      <4> QED
        BY <2>1, <4>2, TriggersAssumption
    <3> QED
      BY <2>1, <3>2, <3>3
  <2>3. MatchLine \in Int /\ MatchLine >= -MaxText
    BY <2>1, <2>2 DEF MatchLine
  <2> QED
    BY <1>2, <2>1, <2>3
<1>4. Ranged(Advance)
  BY <1>2, <1>3 DEF Ranged, TypeOK
<1> QED
  BY <1>1, <1>2, <1>4

LEMMA TypeAtFire ==
  ASSUME TypeOK, LinesInv, LinesInv', Fire
  PROVE  TypeOK'
<1>1. CASE Skip
  BY <1>1 DEF Skip, config, search, lines, history, TypeOK
<1>2. CASE ~Skip
  <2> DEFINE t == text[pos].char
             r == IF t \in enabled THEN Respond(Advance, t) ELSE Advance
             right == /\ t \in enabled /\ OnLine(Advance)
                      /\ working[Advance.lineNumber + 1] # text[pos].line
  <2>1. /\ triggers' = r.triggers /\ enabled' = r.enabled /\ triggersDirty' = r.dirty
        /\ lineNumber' = r.lineNumber /\ keepEvaluating' = r.keep /\ replaceGagged' = r.gagged
        /\ gone' = r.gone /\ pc' \in {"rebuild", "find"}
        /\ UNCHANGED <<sorted, table, search, finished, fault, ops, sent, rebuilt, edge, edited, swept>>
    BY <1>2 DEF Fire
  <2>2. wrong' = (wrong \/ right)
    BY <1>2 DEF Fire
  <2>3. wrong' \in BOOLEAN
    <3> HIDE DEF right
    <3> QED
      BY <2>2
  <2>4. Ranged(r)
    <3>1. working \in Seq(1 .. MaxText)
      BY DEF TypeOK
    <3>2. Ranged(Advance) /\ DOMAIN Advance = DOMAIN Work /\ Advance.working = working
      BY WorkRanged
    <3>3. Ranged(Respond(Advance, t))
      BY <3>1, <3>2, RespondRanged
    <3> QED
      BY <3>2, <3>3
  <2> HIDE DEF r, right
  <2>5. working' \in Seq(1 .. MaxText)
    <3>1. sent' = sent /\ sent \in 0 .. MaxText
      BY <2>1 DEF TypeOK
    <3> QED
      BY <3>1, LinesTyped DEF LinesInv, Typed
  <2>6. /\ triggers' \subseteq Trigs /\ enabled' \subseteq Trigs /\ triggersDirty' \in BOOLEAN
        /\ keepEvaluating' \in BOOLEAN /\ replaceGagged' \in BOOLEAN /\ gone' \subseteq 1 .. MaxText
        /\ lineNumber' \in -MaxText .. MaxText - 1
    BY <2>1, <2>4 DEF Ranged
  <2> QED
    BY <2>1, <2>3, <2>5, <2>6 DEF TypeOK, search
<1> QED
  BY <1>1, <1>2

LEMMA TypeAtRebuild ==
  ASSUME TypeOK, LinesInv, LinesInv', Rebuild
  PROVE  TypeOK'
<1>1. rebuilt' = TRUE /\ edge' \in BOOLEAN /\ UNCHANGED <<ops, sent, gone, edited, wrong>>
  <2>1. edge' = (edge \/ LineEnd > Len(text))
    BY DEF Rebuild
  <2>2. edge' \in BOOLEAN
    BY <2>1
  <2> QED
    BY <2>2 DEF Rebuild
<1>2. CASE fault' = TRUE /\ UNCHANGED <<config, pc, search, lines, keepEvaluating, replaceGagged, swept>>
  BY <1>1, <1>2 DEF config, search, lines, TypeOK
<1>3. CASE ~(fault' = TRUE /\ UNCHANGED <<config, pc, search, lines, keepEvaluating, replaceGagged, swept>>)
  <2> DEFINE left == Min({lineNumber + 1, Len(working)})
             C    == [char : Trigs \cup {Newline}, line : 1 .. MaxText]
  <2>1. /\ matching /\ Dropped <= Len(text) /\ lineNumber >= -1
        /\ text' = SubSeq(text, Dropped + 1, Len(text)) /\ pos' = 0
        /\ table' = Build(sorted, enabled) /\ triggersDirty' = FALSE
        /\ first' = left - 1 /\ lineNumber' = left - 1
        /\ matching' = TRUE /\ replaceGagged' = FALSE /\ pc' = "find" /\ swept' = FALSE
        /\ UNCHANGED <<triggers, enabled, sorted, fault>>
    BY <1>3 DEF Rebuild
  <2>2. keepEvaluating' \in BOOLEAN
    <3>1. keepEvaluating' = (left > 0)
      BY <1>3 DEF Rebuild
    <3> HIDE DEF left
    <3> QED
      BY <3>1
  <2>3. /\ text \in Seq(C) /\ Len(text) \in Nat /\ Len(text) <= MaxText /\ MaxText \in Nat
        /\ lineNumber \in -MaxText .. MaxText - 1
    BY TriggersAssumption DEF TypeOK
  <2>4. left \in 0 .. lineNumber + 1
    <3>1. lineNumber + 1 \in Nat /\ Len(working) \in Nat
      BY <2>1, <2>3 DEF TypeOK
    <3>2. left \in {lineNumber + 1, Len(working)} /\ left <= lineNumber + 1
      BY <3>1, MinIsLeast
    <3> HIDE DEF left
    <3> QED
      BY <3>1, <3>2
  <2>5. Dropped \in Nat
    <3> DEFINE E == {i \in Newlines(Chars) : i >= pos} \cup {Len(text) + 1}
    <3>1. E \in SUBSET Nat /\ E # {}
      BY CharsType DEF Newlines, LinesInv
    <3>2. LineEnd \in Nat
      BY <3>1, MinIsLeast DEF LineEnd
    <3> QED
      BY <3>2 DEF Dropped, TypeOK
  <2>6. text' \in Seq(C) /\ Len(text') \in 0 .. Len(text)
    <3>1. \A i \in Dropped + 1 .. Len(text) : text[i] \in C
      BY <2>3, <2>5, RestOf
    <3>2. Dropped + 1 \in Int /\ Len(text) \in Int
      BY <2>3, <2>5
    <3> HIDE DEF C
    <3>3. /\ text' \in Seq(C)
          /\ Len(text') = IF Dropped + 1 <= Len(text) THEN Len(text) - (Dropped + 1) + 1 ELSE 0
      BY <2>1, <3>1, <3>2, SubSeqProperties
    <3> QED
      BY <2>3, <2>5, <3>3
  <2>7. table' \in [list : SUBSET Trigs, blank : BOOLEAN]
    <3>1. sorted \in SUBSET Trigs
      BY DEF TypeOK
    <3> QED
      BY <2>1, <3>1, BuildTyped
  <2> HIDE DEF left
  <2>8. first' \in -1 .. MaxText - 1 /\ lineNumber' \in -MaxText .. MaxText - 1
    BY <2>1, <2>3, <2>4, TriggersAssumption
  <2>9. Len(text') <= MaxText /\ pos' \in 0 .. Len(text')
    BY <2>1, <2>3, <2>6
  <2>10. working' \in Seq(1 .. MaxText) /\ finished' \in Seq(1 .. MaxText)
    <3>1. sent' = sent /\ sent \in 0 .. MaxText
      BY <1>1 DEF TypeOK
    <3> QED
      BY <3>1, LinesTyped DEF LinesInv, Typed
  <2>11. /\ triggers' \subseteq Trigs /\ enabled' \subseteq Trigs /\ sorted' \subseteq Trigs
         /\ fault' \in BOOLEAN /\ ops' \in 0 .. MaxOps /\ sent' \in 0 .. MaxText
         /\ gone' \subseteq 1 .. MaxText /\ edited' \in BOOLEAN /\ wrong' \in BOOLEAN
    BY <1>1, <2>1 DEF TypeOK
  <2> QED
    BY <1>1, <2>1, <2>2, <2>6, <2>7, <2>8, <2>9, <2>10, <2>11 DEF TypeOK
<1> QED
  BY <1>2, <1>3

\* An edit changes the triggers and the table, and nothing of what is searched.
LEMMA TypeAtEdit ==
  ASSUME TypeOK, Edited, Op,
         triggers' \subseteq Trigs, enabled' \subseteq Trigs, sorted' \subseteq Trigs
  PROVE  TypeOK'
<1>1. table' \in [list : SUBSET Trigs, blank : BOOLEAN]
  <2>1. table' = Build(sorted', enabled') /\ sorted' \in SUBSET Trigs
    BY DEF Edited
  <2> QED
    BY <2>1, BuildTyped
<1>2. ops' \in 0 .. MaxOps
  BY TriggersAssumption DEF Op, TypeOK
<1>3. /\ triggersDirty' = FALSE /\ matching' = FALSE /\ edited' = TRUE /\ swept' = FALSE
      /\ UNCHANGED <<pc, text, pos, first, working, finished, lineNumber, keepEvaluating,
                     replaceGagged, fault, sent, gone, rebuilt, edge, wrong>>
  BY DEF Edited, lines
<1> QED
  BY <1>1, <1>2, <1>3 DEF TypeOK

LEMMA TypeStep == TypeOK /\ LinesInv /\ LinesInv' /\ [Next]_vars => TypeOK'
<1> SUFFICES ASSUME TypeOK, LinesInv, LinesInv', [Next]_vars PROVE TypeOK'
  OBVIOUS
<1>1. ASSUME NEW s \in Chunks, dispatch(s) PROVE TypeOK'
  BY <1>1, TypeAtDispatch
<1>2. CASE Find
  <2>1. CASE Finish
    <3>1. sent' = sent /\ sent \in 0 .. MaxText
      BY <2>1 DEF Finish, history, TypeOK
    <3>2. working' \in Seq(1 .. MaxText) /\ finished' \in Seq(1 .. MaxText)
      BY <3>1, LinesTyped DEF LinesInv, Typed
    <3> QED
      BY <2>1, <3>2 DEF Finish, config, search, history, TypeOK
  <2>2. CASE /\ Hits # {} /\ pos' = Min(Hits) /\ pc' = "fire"
             /\ UNCHANGED <<config, matching, text, first, lines, keepEvaluating, replaceGagged,
                            fault, ops, history>>
    <3>1. Hits \in SUBSET Nat /\ pos \in Nat /\ Len(text) \in Nat
      BY DEF Hits, LinesInv, Typed
    <3>2. Min(Hits) \in Hits
      BY <2>2, <3>1, MinIsLeast
    <3>3. pos' \in 0 .. Len(text')
      BY <2>2, <3>1, <3>2 DEF Hits
    <3> QED
      BY <2>2, <3>3 DEF config, lines, history, TypeOK
  <2> QED
    BY <1>2, <2>1, <2>2 DEF Find
<1>3. CASE FireLost
  BY <1>3 DEF FireLost, Throw, Skip, config, search, lines, history, TypeOK
<1>4. CASE Fire
  BY <1>4, TypeAtFire
<1>5. CASE Rebuild
  BY <1>5, TypeAtRebuild
<1>6. CASE Script
  <2>1. PICK r \in {Switch(Work), Delete(Work)} :
          triggers' = r.triggers /\ enabled' = r.enabled /\ triggersDirty' = r.dirty
    BY <1>6 DEF Script
  <2>2. Ranged(r)
    BY WorkRanged, SwitchRanged, DeleteRanged
  <2>3. ops' \in 0 .. MaxOps
    BY <1>6, TriggersAssumption DEF Script, Op, TypeOK
  <2>4. triggers' \subseteq Trigs /\ enabled' \subseteq Trigs /\ triggersDirty' \in BOOLEAN
    BY <2>1, <2>2 DEF Ranged
  <2> QED
    BY <1>6, <2>3, <2>4 DEF Script, search, lines, history, TypeOK
<1>7. CASE OtherConnection
  BY <1>7 DEF OtherConnection, search, lines, TypeOK
<1>8. ASSUME NEW t \in Trigs, setTriggerEnabled(t) PROVE TypeOK'
  <2>1. /\ Op /\ Edited /\ enabled' = (enabled \ {t}) \cup ({t} \ enabled)
        /\ triggers' = triggers /\ sorted' = sorted
    BY <1>8 DEF setTriggerEnabled
  <2>2. triggers' \subseteq Trigs /\ enabled' \subseteq Trigs /\ sorted' \subseteq Trigs
    BY <2>1 DEF TypeOK
  <2> QED
    BY <2>1, <2>2, TypeAtEdit
<1>9. ASSUME NEW t \in Trigs, deleteTrigger(t) PROVE TypeOK'
  <2>1. /\ Op /\ Edited /\ triggers' = triggers \ {t} /\ sorted' = Sort(triggers', t)
        /\ enabled' = enabled
    BY <1>9 DEF deleteTrigger
  <2>2. triggers' \in SUBSET Trigs /\ enabled' \subseteq Trigs /\ sorted \in SUBSET Trigs
    BY <2>1 DEF TypeOK
  <2>3. sorted' \subseteq Trigs
    BY <2>1, <2>2, SortTyped
  <2> QED
    BY <2>1, <2>2, <2>3, TypeAtEdit
<1>10. ASSUME NEW t \in Trigs, newTrigger(t) PROVE TypeOK'
  <2>1. /\ Op /\ Edited /\ triggers' = triggers \cup {t} /\ sorted' = Sort(triggers', t)
        /\ enabled' = enabled \cup {t}
    BY <1>10 DEF newTrigger
  <2>2. triggers' \in SUBSET Trigs /\ enabled' \subseteq Trigs /\ sorted \in SUBSET Trigs
    BY <2>1 DEF TypeOK
  <2>3. sorted' \subseteq Trigs
    BY <2>1, <2>2, SortTyped
  <2> QED
    BY <2>1, <2>2, <2>3, TypeAtEdit
<1>11. CASE UNCHANGED vars
  BY <1>11 DEF vars, config, search, lines, history, TypeOK
<1> QED
  BY <1>1, <1>2, <1>3, <1>4, <1>5, <1>6, <1>7, <1>8, <1>9, <1>10, <1>11 DEF Next, Dispatch

\* Every variable keeps its type: no line is numbered beyond the chunk, the match lies
\* in the text, and what is at work, finished or gagged are lines of the chunk.
THEOREM TypesHold == Spec => []TypeOK
<1>1. Init => LinesInv /\ TypeOK
  BY LinesInit, TypeInit
<1>2. LinesInv /\ TypeOK /\ [Next]_vars => (LinesInv /\ TypeOK)'
  BY LinesStep, TypeStep
<1> QED
  BY <1>1, <1>2, PTL DEF Spec
=============================================================================
