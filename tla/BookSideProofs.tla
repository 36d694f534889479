--------------------------- MODULE BookSideProofs ---------------------------
(***************************************************************************)
(* Proofs about module BookSide for every number of orders, prices and      *)
(* lots: the list stays in price order, the pointers between list and        *)
(* levels lead where they should, the levels sum their orders, and the whole *)
(* is a first-come first-served queue for each price (module PriceTime).     *)
(***************************************************************************)
EXTENDS BookSide, FoldProofs

----------------------------------------------------------------------------
(* Sequences and numbers.                                                  *)

\* t is s with e put in at position p.
Inserted(s, t, p, e) ==
  /\ p \in 1 .. Len(s) + 1
  /\ Len(t) = Len(s) + 1
  /\ \A i \in 1 .. Len(t) :
       t[i] = IF i < p THEN s[i] ELSE IF i = p THEN e ELSE s[i - 1]

\* InsertAt puts its element where it says (SequencesExt).
LEMMA InsertAtInserts ==
  ASSUME NEW S, NEW s \in Seq(S), NEW p \in 1 .. Len(s), NEW e \in S
  PROVE  InsertAt(s, p, e) \in Seq(S) /\ Inserted(s, InsertAt(s, p, e), p, e)
BY DEF InsertAt, Inserted

\* Append puts it last.
LEMMA AppendInserts ==
  ASSUME NEW S, NEW s \in Seq(S), NEW e \in S
  PROVE  Append(s, e) \in Seq(S) /\ Inserted(s, Append(s, e), Len(s) + 1, e)
BY DEF Inserted

\* Two sequences end to end.
LEMMA ConcatParts ==
  ASSUME NEW S, NEW r \in Seq(S), NEW t \in Seq(S)
  PROVE  /\ r \o t \in Seq(S) /\ Len(r \o t) = Len(r) + Len(t)
         /\ \A i \in 1 .. Len(r) : (r \o t)[i] = r[i]
         /\ \A i \in 1 .. Len(t) : (r \o t)[Len(r) + i] = t[i]
OBVIOUS

\* RemoveAt closes the gap it leaves (SequencesExt).
LEMMA RemoveAtRemoves ==
  ASSUME NEW S, NEW s \in Seq(S), NEW p \in 1 .. Len(s)
  PROVE  /\ RemoveAt(s, p) \in Seq(S)
         /\ Len(RemoveAt(s, p)) = Len(s) - 1
         /\ \A i \in 1 .. Len(s) - 1 :
              RemoveAt(s, p)[i] = IF i < p THEN s[i] ELSE s[i + 1]
<1> DEFINE a == SubSeq(s, 1, p - 1)
           b == SubSeq(s, p + 1, Len(s))
<1>1. /\ a \in Seq(S) /\ Len(a) = p - 1
      /\ \A i \in 1 .. p - 1 : a[i] = s[i]
  OBVIOUS
<1>2. /\ b \in Seq(S) /\ Len(b) = Len(s) - p
      /\ \A i \in 1 .. Len(s) - p : b[i] = s[p + i]
  OBVIOUS
<1>3. RemoveAt(s, p) = a \o b
  BY DEF RemoveAt
<1> HIDE DEF a, b
<1>4. /\ a \o b \in Seq(S) /\ Len(a \o b) = Len(a) + Len(b)
      /\ \A i \in 1 .. Len(a) : (a \o b)[i] = a[i]
      /\ \A i \in 1 .. Len(b) : (a \o b)[Len(a) + i] = b[i]
  <2>1. a \in Seq(S) /\ b \in Seq(S)
    BY <1>1, <1>2
  <2> QED BY <2>1, ConcatParts
<1>5. ASSUME NEW i \in 1 .. Len(s) - 1
      PROVE  (a \o b)[i] = IF i < p THEN s[i] ELSE s[i + 1]
  <2>1. CASE i < p
    BY <1>1, <1>4, <2>1
  <2>2. CASE ~ (i < p)
    <3>1. PICK j \in 1 .. Len(s) - p : i = (p - 1) + j
      <4>1. i - (p - 1) \in 1 .. Len(s) - p
        BY <2>2
      <4> QED BY <4>1
    <3>2. (a \o b)[(p - 1) + j] = b[j]
      BY <1>1, <1>2, <1>4
    <3> QED BY <1>2, <2>2, <3>1, <3>2
  <2> QED BY <2>1, <2>2
<1>6. Len(a \o b) = Len(s) - 1
  BY <1>1, <1>2, <1>4
<1> QED BY <1>3, <1>4, <1>5, <1>6

\* A sequence that lacks an element.
LEMMA SeqWithout ==
  ASSUME NEW S, NEW s \in Seq(S), NEW e, \A i \in 1 .. Len(s) : s[i] # e
  PROVE  s \in Seq(S \ {e})
<1>1. Len(s) \in Nat /\ s \in [1 .. Len(s) -> S] /\ DOMAIN s = 1 .. Len(s)
  BY LenProperties
<1>2. s \in [1 .. Len(s) -> S \ {e}]
  BY <1>1
<1> QED BY <1>1, <1>2, SeqDef

\* A sequence falls into what is before a position and what is not.
Splits(s, p, a, b) ==
  /\ s = a \o b /\ Len(a) = p - 1 /\ Len(b) = Len(s) - (p - 1)
  /\ \A i \in 1 .. Len(a) : a[i] = s[i]
  /\ \A i \in 1 .. Len(b) : b[i] = s[(p - 1) + i]

LEMMA SplitAt ==
  ASSUME NEW S, NEW s \in Seq(S), NEW p \in 1 .. Len(s) + 1
  PROVE  \E a \in Seq(S), b \in Seq(S) : Splits(s, p, a, b)
<1> DEFINE a == SubSeq(s, 1, p - 1)
           b == SubSeq(s, p, Len(s))
<1>1. /\ a \in Seq(S) /\ Len(a) = p - 1
      /\ \A i \in 1 .. Len(a) : a[i] = s[i]
  OBVIOUS
<1>2. /\ b \in Seq(S) /\ Len(b) = Len(s) - (p - 1)
      /\ \A i \in 1 .. Len(b) : b[i] = s[(p - 1) + i]
  OBVIOUS
<1>3. s = a \o b
  <2>1. /\ 1 \in 1 .. Len(s) + 1 /\ p - 1 \in 0 .. Len(s) /\ Len(s) \in p - 1 .. Len(s)
        /\ (p - 1) + 1 = p /\ 1 - 1 = 0
    OBVIOUS
  <2>2. SubSeq(s, 1, p - 1) \o SubSeq(s, (p - 1) + 1, Len(s)) = SubSeq(s, 1, Len(s))
    BY <2>1, ConcatAdjacentSubSeq
  <2>3. SubSeq(s, 1, Len(s)) = s
    BY SubSeqFull
  <2> QED BY <2>1, <2>2, <2>3
<1> HIDE DEF a, b
<1>4. Splits(s, p, a, b)
  BY <1>1, <1>2, <1>3 DEF Splits
<1> QED BY <1>1, <1>2, <1>4

\* One element between two sequences.
LEMMA Between ==
  ASSUME NEW S, NEW a \in Seq(S), NEW b \in Seq(S), NEW e \in S
  PROVE  /\ (a \o <<e>>) \o b \in Seq(S)
         /\ Len((a \o <<e>>) \o b) = Len(a) + 1 + Len(b)
         /\ \A i \in 1 .. Len(a) : ((a \o <<e>>) \o b)[i] = a[i]
         /\ ((a \o <<e>>) \o b)[Len(a) + 1] = e
         /\ \A i \in 1 .. Len(b) : ((a \o <<e>>) \o b)[Len(a) + 1 + i] = b[i]
<1>1. PICK m \in Seq(S) : m = Append(a, e) /\ m = a \o <<e>>
  <2>1. Append(a, e) \in Seq(S) /\ Append(a, e) = a \o <<e>>
    BY AppendProperties, AppendIsConcat
  <2> QED BY <2>1
<1>2. /\ Len(m) = Len(a) + 1 /\ m[Len(a) + 1] = e
      /\ \A i \in 1 .. Len(a) : m[i] = a[i]
  BY <1>1, AppendProperties
<1>3. /\ m \o b \in Seq(S) /\ Len(m \o b) = Len(m) + Len(b)
      /\ \A i \in 1 .. Len(m) : (m \o b)[i] = m[i]
      /\ \A i \in 1 .. Len(b) : (m \o b)[Len(m) + i] = b[i]
  BY ConcatParts
<1>4. Len(a) \in Nat
  OBVIOUS
<1> QED BY <1>1, <1>2, <1>3, <1>4

\* The insertion of an element and its removal.
Surround(s, t, p, e, a, b) == Splits(s, p, a, b) /\ t = (a \o <<e>>) \o b

LEMMA InsertedBetween ==
  ASSUME NEW S, NEW s \in Seq(S), NEW t \in Seq(S), NEW e \in S, NEW p \in 1 .. Len(s) + 1,
         Inserted(s, t, p, e)
  PROVE  \E a \in Seq(S), b \in Seq(S) : Surround(s, t, p, e, a, b)
<1>1. PICK a \in Seq(S), b \in Seq(S) : Splits(s, p, a, b)
  BY SplitAt
<1> DEFINE u == (a \o <<e>>) \o b
<1>2. /\ u \in Seq(S) /\ Len(u) = Len(a) + 1 + Len(b)
      /\ \A i \in 1 .. Len(a) : u[i] = a[i]
      /\ u[Len(a) + 1] = e
      /\ \A i \in 1 .. Len(b) : u[Len(a) + 1 + i] = b[i]
  BY Between
<1> HIDE DEF u
<1>3. PICK m \in Nat : m = Len(s)
  OBVIOUS
<1>4. p \in 1 .. m + 1 /\ Len(a) = p - 1 /\ Len(b) = m - (p - 1) /\ p \in Nat
  BY <1>1, <1>3 DEF Splits
<1>5. /\ \A i \in 1 .. p - 1 : u[i] = s[i]
      /\ u[p] = e
      /\ \A i \in 1 .. m - (p - 1) : u[p + i] = s[(p - 1) + i]
      /\ Len(u) = m + 1
  <2>1. (p - 1) + 1 = p /\ (p - 1) + 1 + (m - (p - 1)) = m + 1
    BY <1>4
  <2>2. \A i \in 1 .. p - 1 : u[i] = s[i]
    BY <1>1, <1>2, <1>4 DEF Splits
  <2>3. \A i \in 1 .. m - (p - 1) : u[p + i] = s[(p - 1) + i]
    BY <1>1, <1>2, <1>4, <2>1 DEF Splits
  <2> QED BY <1>2, <1>4, <2>1, <2>2, <2>3
<1>6. /\ Len(t) = m + 1
      /\ \A i \in 1 .. m + 1 : t[i] = IF i < p THEN s[i] ELSE IF i = p THEN e ELSE s[i - 1]
  BY <1>3 DEF Inserted
<1>7. ASSUME NEW i \in 1 .. m + 1 PROVE t[i] = u[i]
  <2>1. CASE i < p
    <3>1. i \in 1 .. p - 1
      BY <1>4, <2>1
    <3> QED BY <1>5, <1>6, <2>1, <3>1
  <2>2. CASE i = p
    <3>1. ~ (i < p)
      BY <1>4, <2>2
    <3> QED BY <1>5, <1>6, <2>2, <3>1
  <2>3. CASE p < i
    <3>1. PICK j \in 1 .. m - (p - 1) : i = p + j
      <4>1. i - p \in 1 .. m - (p - 1) /\ i = p + (i - p)
        BY <1>4, <2>3
      <4> QED BY <4>1
    <3>2. i - 1 = (p - 1) + j /\ ~ (i < p) /\ i # p
      BY <1>4, <3>1
    <3>3. t[i] = s[i - 1]
      BY <1>6, <3>2
    <3>4. u[p + j] = s[(p - 1) + j]
      BY <1>5
    <3> QED BY <3>1, <3>2, <3>3, <3>4
  <2> QED BY <1>4, <2>1, <2>2, <2>3
<1>8. t = u
  <2>1. Len(t) = Len(u) /\ \A i \in 1 .. Len(t) : t[i] = u[i]
    BY <1>5, <1>6, <1>7
  <2> QED BY <1>2, <2>1, SeqEqual
<1> QED BY <1>1, <1>8 DEF u, Surround

LEMMA RemovedBetween ==
  ASSUME NEW S, NEW s \in Seq(S), NEW p \in 1 .. Len(s)
  PROVE  \E a \in Seq(S), b \in Seq(S) :
           Surround(RemoveAt(s, p), s, p, s[p], a, b)
<1>1. PICK m \in Nat : m = Len(s) /\ p \in 1 .. m /\ s[p] \in S
  OBVIOUS
<1> DEFINE t == RemoveAt(s, p)
<1>2. /\ t \in Seq(S) /\ Len(t) = m - 1
      /\ \A i \in 1 .. m - 1 : t[i] = IF i < p THEN s[i] ELSE s[i + 1]
  BY <1>1, RemoveAtRemoves
<1> HIDE DEF t
<1>3. p \in 1 .. Len(t) + 1 /\ Len(s) = Len(t) + 1
  BY <1>1, <1>2
<1>4. ASSUME NEW i \in 1 .. m
      PROVE  s[i] = IF i < p THEN t[i] ELSE IF i = p THEN s[p] ELSE t[i - 1]
  <2>1. CASE i < p
    <3>1. i \in 1 .. m - 1
      BY <1>1, <2>1
    <3> QED BY <1>2, <2>1, <3>1
  <2>2. CASE i = p
    <3>1. ~ (i < p)
      BY <1>1, <2>2
    <3> QED BY <2>2, <3>1
  <2>3. CASE p < i
    <3>1. i - 1 \in 1 .. m - 1 /\ ~ (i - 1 < p) /\ (i - 1) + 1 = i /\ ~ (i < p) /\ i # p
      BY <1>1, <2>3
    <3>2. t[i - 1] = s[(i - 1) + 1]
      BY <1>2, <3>1
    <3> QED BY <3>1, <3>2
  <2> QED BY <1>1, <2>1, <2>2, <2>3
<1>5. Inserted(t, s, p, s[p])
  BY <1>1, <1>3, <1>4 DEF Inserted
<1>6. \E a \in Seq(S), b \in Seq(S) : Surround(t, s, p, s[p], a, b)
  <2>1. PICK e \in S, u \in Seq(S) : e = s[p] /\ u = t
    BY <1>1, <1>2
  <2>2. p \in 1 .. Len(u) + 1 /\ Inserted(u, s, p, e)
    BY <1>3, <1>5, <2>1
  <2>3. \E a \in Seq(S), b \in Seq(S) : Surround(u, s, p, e, a, b)
    BY <2>2, InsertedBetween
  <2> QED BY <2>1, <2>3
<1> QED BY <1>6 DEF t

\* The removal of an element from between two sequences.
LEMMA RemoveAround ==
  ASSUME NEW S, NEW u \in Seq(S), NEW w \in Seq(S), NEW e \in S
  PROVE  /\ Append(u, e) \o w \in Seq(S)
         /\ Len(u) + 1 \in 1 .. Len(Append(u, e) \o w)
         /\ (Append(u, e) \o w)[Len(u) + 1] = e
         /\ RemoveAt(Append(u, e) \o w, Len(u) + 1) = u \o w
<1>1. PICK m \in Seq(S) : m = Append(u, e) /\ m = u \o <<e>>
  <2>1. Append(u, e) \in Seq(S) /\ Append(u, e) = u \o <<e>>
    BY AppendProperties, AppendIsConcat
  <2> QED BY <2>1
<1>2. PICK t \in Seq(S) : t = m \o w
  BY ConcatParts
<1>3. PICK n \in Nat, l \in Nat : n = Len(u) /\ l = Len(w)
  BY LenProperties
<1>4. /\ Len(t) = n + 1 + l
      /\ \A i \in 1 .. n : t[i] = u[i]
      /\ t[n + 1] = e
      /\ \A i \in 1 .. l : t[n + 1 + i] = w[i]
  <2>1. t = (u \o <<e>>) \o w
    BY <1>1, <1>2
  <2> QED BY <1>3, <2>1, Between
<1>5. n + 1 \in 1 .. Len(t)
  BY <1>3, <1>4
<1>6. PICK r \in Seq(S) :
        /\ r = RemoveAt(t, n + 1) /\ Len(r) = Len(t) - 1
        /\ \A i \in 1 .. Len(t) - 1 : r[i] = IF i < n + 1 THEN t[i] ELSE t[i + 1]
  BY <1>5, RemoveAtRemoves
<1>7. PICK v \in Seq(S) :
        /\ v = u \o w /\ Len(v) = n + l
        /\ \A i \in 1 .. n : v[i] = u[i]
        /\ \A i \in 1 .. l : v[n + i] = w[i]
  <2>1. /\ u \o w \in Seq(S) /\ Len(u \o w) = Len(u) + Len(w)
        /\ \A i \in 1 .. Len(u) : (u \o w)[i] = u[i]
        /\ \A i \in 1 .. Len(w) : (u \o w)[Len(u) + i] = w[i]
    BY ConcatParts
  <2> QED BY <1>3, <2>1
<1>8. Len(r) = n + l /\ Len(t) - 1 = n + l
  BY <1>3, <1>4, <1>6
<1>9. ASSUME NEW i \in 1 .. n + l PROVE r[i] = v[i]
  <2>1. CASE i < n + 1
    <3>1. i \in 1 .. n
      BY <1>3, <2>1
    <3> QED BY <1>4, <1>6, <1>7, <1>8, <2>1, <3>1
  <2>2. CASE ~ (i < n + 1)
    <3>1. PICK j \in 1 .. l : i = n + j /\ i + 1 = n + 1 + j
      <4>1. i - n \in 1 .. l /\ i = n + (i - n) /\ i + 1 = n + 1 + (i - n)
        BY <1>3, <2>2
      <4> QED BY <4>1
    <3> QED BY <1>4, <1>6, <1>7, <1>8, <2>2, <3>1
  <2> QED BY <2>1, <2>2
<1>10. r = v
  BY <1>7, <1>8, <1>9, SeqEqual
<1> QED BY <1>1, <1>2, <1>3, <1>4, <1>5, <1>6, <1>7, <1>10

----------------------------------------------------------------------------
(* Parts of a sequence: the elements that are in a set, in their order.    *)

\* The function that Only defines, along its sequence.
IsOnly(f, s, K) ==
  f = [n \in 0 .. Len(s) |->
         IF n = 0 THEN << >>
         ELSE IF s[n] \in K THEN Append(f[n - 1], s[n]) ELSE f[n - 1]]

\* There is one, up to every length.
LEMMA OnlyFunction ==
  ASSUME NEW S, NEW s \in Seq(S), NEW K
  PROVE  \E f : IsOnly(f, s, K) /\ Only(s, K) = f[Len(s)]
<1> DEFINE after(chosen, n) == IF s[n] \in K THEN Append(chosen, s[n]) ELSE chosen
           has(n) == \E f : f = [i \in 0 .. n |-> IF i = 0 THEN << >> ELSE after(f[i - 1], i)]
           G == {n \in Nat : has(n)}
<1>1. 0 \in G
  <2> DEFINE f == [i \in 0 .. 0 |-> << >>]
  <2>1. f = [i \in 0 .. 0 |-> IF i = 0 THEN << >> ELSE after(f[i - 1], i)]
    <3> HIDE DEF after
    <3> QED OBVIOUS
  <2>2. has(0)
    <3> HIDE DEF f, after
    <3> QED BY <2>1
  <2> HIDE DEF has
  <2> QED BY <2>2
<1>2. ASSUME NEW n \in G PROVE n + 1 \in G
  <2> HIDE DEF after
  <2>1. PICK f : f = [i \in 0 .. n |-> IF i = 0 THEN << >> ELSE after(f[i - 1], i)]
    OBVIOUS
  <2> DEFINE g == [i \in 0 .. n + 1 |-> IF i = n + 1 THEN after(f[n], n + 1) ELSE f[i]]
  <2>2. n \in Nat /\ n + 1 \in Nat
    OBVIOUS
  <2>3. ASSUME NEW i \in 0 .. n + 1
        PROVE  g[i] = IF i = 0 THEN << >> ELSE after(g[i - 1], i)
    <3>1. CASE i = n + 1
      <4>1. i # 0 /\ i - 1 = n /\ n \in 0 .. n + 1 /\ n # n + 1
        BY <2>2, <3>1
      <4>2. g[n] = f[n] /\ g[i] = after(f[n], n + 1)
        BY <3>1, <4>1
      <4> HIDE DEF g
      <4> QED BY <3>1, <4>1, <4>2
    <3>2. CASE i # n + 1
      <4>1. i \in 0 .. n /\ g[i] = f[i]
        BY <2>2, <3>2
      <4>2. f[i] = IF i = 0 THEN << >> ELSE after(f[i - 1], i)
        BY <2>1, <4>1
      <4>3. i # 0 => g[i - 1] = f[i - 1]
        <5>1. i # 0 => i - 1 \in 0 .. n + 1 /\ i - 1 # n + 1
          BY <2>2, <4>1
        <5> QED BY <5>1
      <4> HIDE DEF g
      <4> QED BY <4>1, <4>2, <4>3
    <3> QED BY <3>1, <3>2
  <2>4. g = [i \in 0 .. n + 1 |-> IF i = 0 THEN << >> ELSE after(g[i - 1], i)]
    <3>1. \E h : h = g /\ \A i \in 0 .. n + 1 : h[i] = IF i = 0 THEN << >> ELSE after(h[i - 1], i)
      <4>1. \A i \in 0 .. n + 1 : g[i] = IF i = 0 THEN << >> ELSE after(g[i - 1], i)
        BY <2>3
      <4> HIDE DEF g
      <4> QED BY <4>1
    <3>2. DOMAIN g = 0 .. n + 1 /\ g = [i \in DOMAIN g |-> g[i]]
      OBVIOUS
    <3> HIDE DEF g
    <3> QED BY <3>1, <3>2
  <2>5. has(n + 1)
    <3> HIDE DEF g
    <3> QED BY <2>4
  <2> HIDE DEF has
  <2> QED BY <2>2, <2>5
<1>3. G = Nat
  <2> HIDE DEF G
  <2>1. G \in SUBSET Nat
    BY DEF G
  <2> QED BY <1>1, <1>2, <2>1, Induction
<1>4. \E f : IsOnly(f, s, K)
  <2>1. Len(s) \in G
    BY <1>3
  <2>2. has(Len(s))
    <3> HIDE DEF has
    <3> QED BY <2>1
  <2> QED BY <2>2 DEF IsOnly
<1>5. Only(s, K) = (CHOOSE f : IsOnly(f, s, K))[Len(s)]
  BY Zenon DEF Only, IsOnly
<1>6. IsOnly(CHOOSE f : IsOnly(f, s, K), s, K)
  BY <1>4
<1> QED BY <1>5, <1>6

LEMMA OnlyPrefix ==
  ASSUME NEW S, NEW s \in Seq(S), NEW K, NEW f, IsOnly(f, s, K)
  PROVE  /\ f[0] = << >>
         /\ \A n \in Nat : n + 1 <= Len(s) =>
              f[n + 1] = IF s[n + 1] \in K THEN Append(f[n], s[n + 1]) ELSE f[n]
<1>1. Len(s) \in Nat
  OBVIOUS
<1>2. f[0] = << >>
  BY <1>1 DEF IsOnly
<1>3. ASSUME NEW n \in Nat, n + 1 <= Len(s)
      PROVE  f[n + 1] = IF s[n + 1] \in K THEN Append(f[n], s[n + 1]) ELSE f[n]
  <2>1. n + 1 \in 0 .. Len(s) /\ n + 1 # 0 /\ (n + 1) - 1 = n
    BY <1>1, <1>3
  <2> DEFINE i == n + 1
  <2>2. f[i] = IF s[i] \in K THEN Append(f[i - 1], s[i]) ELSE f[i - 1]
    <3> HIDE DEF i
    <3> QED BY <2>1 DEF IsOnly, i
  <2> QED BY <2>1, <2>2
<1> QED BY <1>2, <1>3

\* Only takes a sequence element by element.
LEMMA OnlyEmpty == ASSUME NEW K PROVE Only(<< >>, K) = << >>
<1> DEFINE E == << >>
<1>1. PICK S : S = {}
  OBVIOUS
<1>2. E \in Seq(S) /\ Len(E) = 0
  OBVIOUS
<1> HIDE DEF E
<1>3. PICK f : IsOnly(f, E, K) /\ Only(E, K) = f[Len(E)]
  BY <1>2, OnlyFunction
<1>4. f[0] = << >>
  BY <1>2, <1>3 DEF IsOnly
<1>5. Only(E, K) = << >>
  BY <1>2, <1>3, <1>4
<1> QED BY <1>5 DEF E

LEMMA OnlyAppend ==
  ASSUME NEW S, NEW s \in Seq(S), NEW e \in S, NEW K
  PROVE  Only(Append(s, e), K) = IF e \in K THEN Append(Only(s, K), e) ELSE Only(s, K)
<1> DEFINE t == Append(s, e)
           m == Len(s)
<1>1. /\ t \in Seq(S) /\ Len(t) = m + 1 /\ m \in Nat
      /\ t[m + 1] = e /\ \A i \in 1 .. m : t[i] = s[i]
  OBVIOUS
<1>2. PICK f : IsOnly(f, s, K) /\ Only(s, K) = f[m]
  BY OnlyFunction
<1>3. PICK g : IsOnly(g, t, K) /\ Only(t, K) = g[m + 1]
  BY <1>1, OnlyFunction
<1> HIDE DEF t, m
<1>4. /\ f[0] = << >>
      /\ \A n \in Nat : n + 1 <= m =>
           f[n + 1] = IF s[n + 1] \in K THEN Append(f[n], s[n + 1]) ELSE f[n]
  BY <1>2, OnlyPrefix DEF m
<1>5. /\ g[0] = << >>
      /\ \A n \in Nat : n + 1 <= m + 1 =>
           g[n + 1] = IF t[n + 1] \in K THEN Append(g[n], t[n + 1]) ELSE g[n]
  BY <1>1, <1>3, OnlyPrefix
<1> DEFINE G == {n \in Nat : n <= m => f[n] = g[n]}
<1>6. 0 \in G
  BY <1>4, <1>5
<1>7. ASSUME NEW n \in G PROVE n + 1 \in G
  <2> SUFFICES ASSUME n + 1 <= m PROVE f[n + 1] = g[n + 1]
    OBVIOUS
  <2>1. n \in Nat /\ n <= m /\ n + 1 <= m + 1 /\ n + 1 \in 1 .. m
    BY <1>1
  <2>2. f[n] = g[n] /\ t[n + 1] = s[n + 1]
    BY <1>1, <2>1
  <2> QED BY <1>4, <1>5, <2>1, <2>2
<1>8. G = Nat
  <2> HIDE DEF G
  <2>1. G \in SUBSET Nat
    BY DEF G
  <2> QED BY <1>6, <1>7, <2>1, Induction
<1>9. f[m] = g[m]
  BY <1>1, <1>8
<1>10. g[m + 1] = IF e \in K THEN Append(g[m], e) ELSE g[m]
  BY <1>1, <1>5
<1> QED BY <1>1, <1>2, <1>3, <1>9, <1>10 DEF t

LEMMA OnlyType ==
  ASSUME NEW S, NEW s \in Seq(S), NEW K
  PROVE  Only(s, K) \in Seq(S \cap K)
<1> DEFINE G == {t \in Seq(S) : Only(t, K) \in Seq(S \cap K)}
<1>1. << >> \in G
  <2>1. << >> \in Seq(S) /\ << >> \in Seq(S \cap K)
    BY EmptySeq
  <2> QED BY <2>1, OnlyEmpty
<1>2. ASSUME NEW t \in G, NEW e \in S PROVE Append(t, e) \in G
  <2>1. t \in Seq(S) /\ Only(t, K) \in Seq(S \cap K) /\ Append(t, e) \in Seq(S)
    BY AppendProperties
  <2>2. Only(Append(t, e), K) = IF e \in K THEN Append(Only(t, K), e) ELSE Only(t, K)
    BY <2>1, OnlyAppend
  <2>3. e \in K => Append(Only(t, K), e) \in Seq(S \cap K)
    BY <2>1, AppendProperties
  <2> QED BY <2>1, <2>2, <2>3
<1>3. G = Seq(S)
  <2> HIDE DEF G
  <2>1. G \in SUBSET Seq(S)
    BY DEF G
  <2> QED BY <1>1, <1>2, <2>1, SequenceInduction
<1> QED BY <1>3

Joins(s, t, K) == Only(s \o t, K) = Only(s, K) \o Only(t, K)

LEMMA OnlyConcat ==
  ASSUME NEW S, NEW s \in Seq(S), NEW t \in Seq(S), NEW K
  PROVE  Joins(s, t, K)
<1> SUFFICES Only(s \o t, K) = Only(s, K) \o Only(t, K)
  BY DEF Joins
<1> DEFINE G == {u \in Seq(S) : Only(s \o u, K) = Only(s, K) \o Only(u, K)}
<1>0. Only(s, K) \in Seq(S)
  <2>1. Only(s, K) \in Seq(S \cap K)
    BY OnlyType
  <2> QED BY <2>1
<1>1. << >> \in G
  <2>1. Only(s, K) \o << >> = Only(s, K) /\ s \o << >> = s /\ << >> \in Seq(S)
    BY <1>0, ConcatEmptySeq, EmptySeq
  <2> QED BY <2>1, OnlyEmpty
<1>2. ASSUME NEW u \in G, NEW e \in S PROVE Append(u, e) \in G
  <2>0. u \in Seq(S) /\ Only(s \o u, K) = Only(s, K) \o Only(u, K)
    OBVIOUS
  <2>1. s \o Append(u, e) = Append(s \o u, e) /\ s \o u \in Seq(S) /\ Append(u, e) \in Seq(S)
    BY <2>0
  <2>2. Only(u, K) \in Seq(S)
    <3>1. Only(u, K) \in Seq(S \cap K)
      BY <2>0, OnlyType
    <3> QED BY <3>1
  <2>3. Only(s, K) \o Append(Only(u, K), e) = Append(Only(s, K) \o Only(u, K), e)
    BY <1>0, <2>2
  <2>4. Only(Append(s \o u, e), K)
          = IF e \in K THEN Append(Only(s \o u, K), e) ELSE Only(s \o u, K)
    <3>1. PICK w \in Seq(S) : w = s \o u
      BY <2>1
    <3>2. Only(Append(w, e), K) = IF e \in K THEN Append(Only(w, K), e) ELSE Only(w, K)
      BY OnlyAppend
    <3> QED BY <3>1, <3>2
  <2>5. Only(Append(u, e), K) = IF e \in K THEN Append(Only(u, K), e) ELSE Only(u, K)
    BY <2>0, OnlyAppend
  <2>6. Only(s \o Append(u, e), K) = Only(s, K) \o Only(Append(u, e), K)
    BY <2>0, <2>1, <2>3, <2>4, <2>5
  <2> QED BY <2>1, <2>6
<1>3. G = Seq(S)
  <2> HIDE DEF G
  <2>1. G \in SUBSET Seq(S)
    BY DEF G
  <2> QED BY <1>1, <1>2, <2>1, SequenceInduction
<1> QED BY <1>3

LEMMA OnlySame ==
  ASSUME NEW S, NEW s \in Seq(S), NEW K, NEW L, \A i \in 1 .. Len(s) : s[i] \in K <=> s[i] \in L
  PROVE  Only(s, K) = Only(s, L)
<1> DEFINE same(t) == \A i \in 1 .. Len(t) : t[i] \in K <=> t[i] \in L
           G == {t \in Seq(S) : same(t) => Only(t, K) = Only(t, L)}
<1>1. << >> \in G
  BY OnlyEmpty
<1>2. ASSUME NEW t \in G, NEW e \in S PROVE Append(t, e) \in G
  <2>1. /\ t \in Seq(S) /\ Len(Append(t, e)) = Len(t) + 1 /\ Len(t) \in Nat
        /\ Append(t, e)[Len(t) + 1] = e
        /\ \A i \in 1 .. Len(t) : Append(t, e)[i] = t[i]
        /\ Append(t, e) \in Seq(S)
    OBVIOUS
  <2>2. ASSUME same(Append(t, e)) PROVE Only(Append(t, e), K) = Only(Append(t, e), L)
    <3>1. e \in K <=> e \in L
      BY <2>1, <2>2
    <3>2. same(t)
      BY <2>1, <2>2
    <3>3. Only(t, K) = Only(t, L)
      <4> HIDE DEF same
      <4> QED BY <3>2
    <3>4. Only(Append(t, e), K) = IF e \in K THEN Append(Only(t, K), e) ELSE Only(t, K)
      BY <2>1, OnlyAppend
    <3>5. Only(Append(t, e), L) = IF e \in L THEN Append(Only(t, L), e) ELSE Only(t, L)
      BY <2>1, OnlyAppend
    <3> QED BY <3>1, <3>3, <3>4, <3>5
  <2> HIDE DEF same
  <2> QED BY <2>1, <2>2
<1>3. G = Seq(S)
  <2> HIDE DEF G
  <2>1. G \in SUBSET Seq(S)
    BY DEF G
  <2> QED BY <1>1, <1>2, <2>1, SequenceInduction
<1>4. s \in G
  BY <1>3
<1>5. same(s)
  OBVIOUS
<1> HIDE DEF same
<1> QED BY <1>4, <1>5

LEMMA OnlyNone ==
  ASSUME NEW S, NEW s \in Seq(S)
  PROVE  Only(s, {}) = << >>
<1>1. Only(s, {}) \in Seq(S \cap {})
  BY OnlyType
<1>2. \A t \in Seq({}) : t = << >>
  OBVIOUS
<1>3. S \cap {} = {}
  OBVIOUS
<1> QED BY <1>1, <1>2, <1>3

----------------------------------------------------------------------------
(* Sums over a sequence.                                                   *)

\* The residuals of the orders of a sequence, which rec tells.
Total(rec, seq) == FoldLeft(LAMBDA sum, e : sum + rec[e].resd, 0, seq)

\* Total is a fold over the indices of its sequence.
IsTotal(f, rec, s) ==
  f = [T \in SUBSET DOMAIN s |->
         IF T = {} THEN 0 ELSE f[T \ {Max(T)}] + rec[s[Max(T)]].resd]

HaveResd(rec, S) == \A e \in S : rec[e].resd \in Int

LEMMA TotalFold ==
  ASSUME NEW S, NEW s \in Seq(S), NEW rec, HaveResd(rec, S)
  PROVE  \E f : IsTotal(f, rec, s) /\ Total(rec, s) = f[DOMAIN s]
<1>1. Total(rec, s) = (CHOOSE f : IsTotal(f, rec, s))[DOMAIN s]
  BY Zenon DEF Total, FoldLeft, MapThenFoldSet, IsTotal
<1>2. \E f : IsTotal(f, rec, s)
  <2> DEFINE m == Len(s)
             step == [i \in 1 .. m |-> [a \in Int |-> a + rec[s[i]].resd]]
  <2>1. m \in Nat /\ DOMAIN s = 1 .. m /\ \A i \in 1 .. m : s[i] \in S
    OBVIOUS
  <2>2. step \in [1 .. m -> [Int -> Int]]
    BY <2>1 DEF HaveResd
  <2>3. 0 \in Int
    OBVIOUS
  <2>4. PICK f \in [SUBSET (1 .. m) -> Int] : FoldsOver(f, 0, step, m)
    <3> HIDE DEF step, m
    <3> QED BY <2>1, <2>2, <2>3, FoldExists
  <2>5. ASSUME NEW T \in SUBSET (1 .. m), T # {}
        PROVE  f[T] = f[T \ {Max(T)}] + rec[s[Max(T)]].resd
    <3>1. Max(T) \in 1 .. m
      <4> HIDE DEF m
      <4> QED BY <2>1, <2>5, MaxIn
    <3>2. f[T] = step[Max(T)][f[T \ {Max(T)}]] /\ f[T \ {Max(T)}] \in Int
      BY <2>4, <2>5 DEF FoldsOver
    <3> HIDE DEF m
    <3> QED BY <3>1, <3>2
  <2>6. f[{}] = 0
    BY <2>4 DEF FoldsOver
  <2>7. IsTotal(f, rec, s)
    <3> HIDE DEF m
    <3>1. \A T \in SUBSET (1 .. m) :
            f[T] = IF T = {} THEN 0 ELSE f[T \ {Max(T)}] + rec[s[Max(T)]].resd
      BY <2>5, <2>6
    <3> QED BY <2>1, <3>1 DEF IsTotal
  <2> QED BY <2>7
<1>3. IsTotal(CHOOSE f : IsTotal(f, rec, s), rec, s)
  BY <1>2
<1> QED BY <1>1, <1>3

LEMMA TotalPrefix ==
  ASSUME NEW S, NEW s \in Seq(S), NEW rec, NEW f, IsTotal(f, rec, s)
  PROVE  /\ f[1 .. 0] = 0
         /\ \A n \in Nat : n + 1 <= Len(s) =>
              f[1 .. n + 1] = f[1 .. n] + rec[s[n + 1]].resd
<1>1. DOMAIN s = 1 .. Len(s) /\ Len(s) \in Nat
  OBVIOUS
<1>2. f[1 .. 0] = 0
  <2>1. 1 .. 0 = {} /\ {} \in SUBSET DOMAIN s
    OBVIOUS
  <2> QED BY <2>1 DEF IsTotal
<1>3. ASSUME NEW n \in Nat, n + 1 <= Len(s)
      PROVE  f[1 .. n + 1] = f[1 .. n] + rec[s[n + 1]].resd
  <2>1. 1 .. n + 1 \in SUBSET DOMAIN s
    BY <1>1, <1>3
  <2>2. /\ 1 .. n + 1 # {} /\ Max(1 .. n + 1) = n + 1 /\ (1 .. n + 1) \ {n + 1} = 1 .. n
    BY Upto
  <2> DEFINE T == 1 .. n + 1
  <2>3. f[T] = f[T \ {Max(T)}] + rec[s[Max(T)]].resd
    <3> HIDE DEF T
    <3> QED BY <2>1, <2>2 DEF IsTotal, T
  <2> QED BY <2>2, <2>3
<1> QED BY <1>2, <1>3

LEMMA TotalEmpty == ASSUME NEW rec PROVE Total(rec, << >>) = 0
<1> DEFINE E == << >>
<1>1. PICK S : S = {}
  OBVIOUS
<1>2. E \in Seq(S) /\ DOMAIN E = {} /\ HaveResd(rec, S)
  BY <1>1 DEF HaveResd
<1> HIDE DEF E
<1>3. PICK f : IsTotal(f, rec, E) /\ Total(rec, E) = f[DOMAIN E]
  BY <1>2, TotalFold
<1>4. f[{}] = 0
  <2>1. {} \in SUBSET DOMAIN E
    OBVIOUS
  <2> QED BY <1>3, <2>1 DEF IsTotal
<1>5. Total(rec, E) = 0
  BY <1>2, <1>3, <1>4
<1> QED BY <1>5 DEF E

LEMMA TotalAppend ==
  ASSUME NEW S, NEW s \in Seq(S), NEW e \in S, NEW rec, HaveResd(rec, S)
  PROVE  Total(rec, Append(s, e)) = Total(rec, s) + rec[e].resd
<1> DEFINE t == Append(s, e)
           m == Len(s)
<1>1. /\ t \in Seq(S) /\ Len(t) = m + 1 /\ m \in Nat
      /\ DOMAIN s = 1 .. m /\ DOMAIN t = 1 .. m + 1
      /\ t[m + 1] = e /\ \A i \in 1 .. m : t[i] = s[i]
  OBVIOUS
<1>2. PICK f : IsTotal(f, rec, s) /\ Total(rec, s) = f[DOMAIN s]
  BY TotalFold
<1>3. PICK g : IsTotal(g, rec, t) /\ Total(rec, t) = g[DOMAIN t]
  BY <1>1, TotalFold
<1> HIDE DEF t, m
<1>4. /\ f[1 .. 0] = 0
      /\ \A n \in Nat : n + 1 <= m => f[1 .. n + 1] = f[1 .. n] + rec[s[n + 1]].resd
  BY <1>2, TotalPrefix DEF m
<1>5. /\ g[1 .. 0] = 0
      /\ \A n \in Nat : n + 1 <= m + 1 => g[1 .. n + 1] = g[1 .. n] + rec[t[n + 1]].resd
  BY <1>1, <1>3, TotalPrefix
<1> DEFINE G == {n \in Nat : n <= m => f[1 .. n] = g[1 .. n]}
<1>6. 0 \in G
  BY <1>4, <1>5
<1>7. ASSUME NEW n \in G PROVE n + 1 \in G
  <2> SUFFICES ASSUME n + 1 <= m PROVE f[1 .. n + 1] = g[1 .. n + 1]
    OBVIOUS
  <2>1. n \in Nat /\ n <= m /\ n + 1 <= m + 1 /\ n + 1 \in 1 .. m
    BY <1>1
  <2>2. f[1 .. n] = g[1 .. n] /\ t[n + 1] = s[n + 1]
    BY <1>1, <2>1
  <2> QED BY <1>4, <1>5, <2>1, <2>2
<1>8. G = Nat
  <2> HIDE DEF G
  <2>1. G \in SUBSET Nat
    BY DEF G
  <2> QED BY <1>6, <1>7, <2>1, Induction
<1>9. f[1 .. m] = g[1 .. m]
  BY <1>1, <1>8
<1>10. g[1 .. m + 1] = g[1 .. m] + rec[e].resd
  BY <1>1, <1>5
<1> QED BY <1>1, <1>2, <1>3, <1>9, <1>10 DEF t

LEMMA TotalType ==
  ASSUME NEW S, NEW s \in Seq(S), NEW rec, HaveResd(rec, S)
  PROVE  Total(rec, s) \in Int
<1> DEFINE G == {t \in Seq(S) : Total(rec, t) \in Int}
<1>1. << >> \in G
  BY TotalEmpty, EmptySeq
<1>2. ASSUME NEW t \in G, NEW e \in S PROVE Append(t, e) \in G
  <2>1. t \in Seq(S) /\ Total(rec, t) \in Int /\ Append(t, e) \in Seq(S)
    BY AppendProperties
  <2>2. Total(rec, Append(t, e)) = Total(rec, t) + rec[e].resd /\ rec[e].resd \in Int
    BY <2>1, TotalAppend DEF HaveResd
  <2> QED BY <2>1, <2>2
<1>3. G = Seq(S)
  <2> HIDE DEF G
  <2>1. G \in SUBSET Seq(S)
    BY DEF G
  <2> QED BY <1>1, <1>2, <2>1, SequenceInduction
<1> QED BY <1>3

Sums(rec, s, t) == Total(rec, s \o t) = Total(rec, s) + Total(rec, t)

LEMMA TotalConcat ==
  ASSUME NEW S, NEW s \in Seq(S), NEW t \in Seq(S), NEW rec, HaveResd(rec, S)
  PROVE  Sums(rec, s, t)
<1> SUFFICES Total(rec, s \o t) = Total(rec, s) + Total(rec, t)
  BY DEF Sums
<1> DEFINE G == {u \in Seq(S) : Total(rec, s \o u) = Total(rec, s) + Total(rec, u)}
<1>0. Total(rec, s) \in Int
  BY TotalType
<1>1. << >> \in G
  <2>1. s \o << >> = s /\ << >> \in Seq(S)
    BY ConcatEmptySeq, EmptySeq
  <2> QED BY <1>0, <2>1, TotalEmpty
<1>2. ASSUME NEW u \in G, NEW e \in S PROVE Append(u, e) \in G
  <2>0. u \in Seq(S) /\ Total(rec, s \o u) = Total(rec, s) + Total(rec, u)
    OBVIOUS
  <2>1. s \o Append(u, e) = Append(s \o u, e) /\ s \o u \in Seq(S) /\ Append(u, e) \in Seq(S)
    BY <2>0
  <2>2. Total(rec, u) \in Int /\ rec[e].resd \in Int
    BY <2>0, TotalType DEF HaveResd
  <2>3. Total(rec, Append(s \o u, e)) = Total(rec, s \o u) + rec[e].resd
    <3>1. PICK w \in Seq(S) : w = s \o u
      BY <2>1
    <3>2. Total(rec, Append(w, e)) = Total(rec, w) + rec[e].resd
      BY TotalAppend
    <3> QED BY <3>1, <3>2
  <2>4. Total(rec, Append(u, e)) = Total(rec, u) + rec[e].resd
    BY <2>0, TotalAppend
  <2>5. Total(rec, s \o Append(u, e)) = Total(rec, s) + Total(rec, Append(u, e))
    BY <1>0, <2>0, <2>1, <2>2, <2>3, <2>4
  <2> QED BY <2>1, <2>5
<1>3. G = Seq(S)
  <2> HIDE DEF G
  <2>1. G \in SUBSET Seq(S)
    BY DEF G
  <2> QED BY <1>1, <1>2, <2>1, SequenceInduction
<1> QED BY <1>3

SameResd(new, rec, S) == \A e \in S : new[e].resd = rec[e].resd

LEMMA TotalSame ==
  ASSUME NEW S, NEW s \in Seq(S), NEW rec, NEW new, HaveResd(rec, S), SameResd(new, rec, S)
  PROVE  Total(new, s) = Total(rec, s)
<1> DEFINE G == {t \in Seq(S) : Total(new, t) = Total(rec, t)}
<1>0. HaveResd(new, S)
  BY DEF HaveResd, SameResd
<1>1. << >> \in G
  BY TotalEmpty, EmptySeq
<1>2. ASSUME NEW t \in G, NEW e \in S PROVE Append(t, e) \in G
  <2>1. t \in Seq(S) /\ Total(new, t) = Total(rec, t) /\ Append(t, e) \in Seq(S)
    BY AppendProperties
  <2>2. Total(new, Append(t, e)) = Total(new, t) + new[e].resd
    BY <1>0, <2>1, TotalAppend
  <2>3. Total(rec, Append(t, e)) = Total(rec, t) + rec[e].resd
    BY <2>1, TotalAppend
  <2>4. Total(new, Append(t, e)) = Total(rec, Append(t, e))
    BY <2>1, <2>2, <2>3 DEF SameResd
  <2> QED BY <2>1, <2>4
<1>3. G = Seq(S)
  <2> HIDE DEF G
  <2>1. G \in SUBSET Seq(S)
    BY DEF G
  <2> QED BY <1>1, <1>2, <2>1, SequenceInduction
<1> QED BY <1>3

\* What an element between two sequences adds to a part.
Adds(s, t, e, a, b, K) ==
  /\ Only(s, K) = Only(a, K) \o Only(b, K)
  /\ e \in K => Only(t, K) = Append(Only(a, K), e) \o Only(b, K)
  /\ e \notin K => Only(t, K) = Only(s, K)

LEMMA OnlySurround ==
  ASSUME NEW S, NEW s \in Seq(S), NEW t \in Seq(S), NEW e \in S, NEW p,
         NEW a \in Seq(S), NEW b \in Seq(S), Surround(s, t, p, e, a, b), NEW K
  PROVE  Adds(s, t, e, a, b, K)
<1>1. PICK m \in Seq(S) : m = Append(a, e) /\ m = a \o <<e>>
  <2>1. Append(a, e) \in Seq(S) /\ Append(a, e) = a \o <<e>>
    BY AppendProperties, AppendIsConcat
  <2> QED BY <2>1
<1>2. s = a \o b /\ t = m \o b
  BY <1>1 DEF Surround, Splits
<1>3. Only(m, K) = IF e \in K THEN Append(Only(a, K), e) ELSE Only(a, K)
  <2>1. Only(Append(a, e), K) = IF e \in K THEN Append(Only(a, K), e) ELSE Only(a, K)
    BY OnlyAppend
  <2> QED BY <1>1, <2>1
<1>4. Only(s, K) = Only(a, K) \o Only(b, K)
  <2>1. Joins(a, b, K)
    BY OnlyConcat
  <2> QED BY <1>2, <2>1 DEF Joins
<1>5. Only(t, K) = Only(m, K) \o Only(b, K)
  <2>1. Joins(m, b, K)
    BY OnlyConcat
  <2> QED BY <1>2, <2>1 DEF Joins
<1> QED BY <1>3, <1>4, <1>5 DEF Adds

\* A part is within its sequence.
LEMMA OnlyIn ==
  ASSUME NEW S, NEW s \in Seq(S), NEW K
  PROVE  Only(s, K) \in Seq(S)
<1>1. Only(s, K) \in Seq(S \cap K)
  BY OnlyType
<1>2. S \cap K \subseteq S
  OBVIOUS
<1> QED BY <1>1, <1>2

\* A part for which there is no element.
LEMMA OnlyOthers ==
  ASSUME NEW S, NEW s \in Seq(S), NEW K, \A i \in 1 .. Len(s) : s[i] \notin K
  PROVE  Only(s, K) = << >>
<1>1. \A i \in 1 .. Len(s) : s[i] \in K <=> s[i] \in {}
  OBVIOUS
<1>2. Only(s, K) = Only(s, {})
  BY <1>1, OnlySame
<1> QED BY <1>2, OnlyNone

\* A sum of something is more than nothing.
LEMMA TotalPositive ==
  ASSUME NEW S, NEW s \in Seq(S), NEW rec, \A e \in S : rec[e].resd \in Int /\ rec[e].resd > 0,
         Len(s) > 0
  PROVE  Total(rec, s) > 0
<1> DEFINE G == {t \in Seq(S) : Total(rec, t) \in Nat /\ (Len(t) > 0 => Total(rec, t) > 0)}
<1>0. HaveResd(rec, S)
  BY DEF HaveResd
<1>1. << >> \in G
  <2>1. 0 \in Nat /\ Len(<< >>) = 0
    OBVIOUS
  <2> QED BY <2>1, TotalEmpty, EmptySeq
<1>2. ASSUME NEW t \in G, NEW e \in S PROVE Append(t, e) \in G
  <2>1. t \in Seq(S) /\ Total(rec, t) \in Nat /\ Append(t, e) \in Seq(S)
    BY AppendProperties
  <2>2. Total(rec, Append(t, e)) = Total(rec, t) + rec[e].resd
    BY <1>0, <2>1, TotalAppend
  <2>3. rec[e].resd \in Int /\ rec[e].resd > 0
    OBVIOUS
  <2>4. Total(rec, t) + rec[e].resd \in Nat /\ Total(rec, t) + rec[e].resd > 0
    BY <2>1, <2>3
  <2> QED BY <2>1, <2>2, <2>4
<1>3. G = Seq(S)
  <2> HIDE DEF G
  <2>1. G \in SUBSET Seq(S)
    BY DEF G
  <2> QED BY <1>1, <1>2, <2>1, SequenceInduction
<1> QED BY <1>3

\* Sums and lengths of a sequence with an element in it, and without it.
LEMMA TotalAround ==
  ASSUME NEW S, NEW u \in Seq(S), NEW w \in Seq(S), NEW e \in S, NEW rec, HaveResd(rec, S)
  PROVE  /\ Total(rec, Append(u, e) \o w) = (Total(rec, u) + Total(rec, w)) + rec[e].resd
         /\ Len(Append(u, e) \o w) = (Len(u) + Len(w)) + 1
         /\ Total(rec, u \o w) = Total(rec, u) + Total(rec, w)
         /\ Len(u \o w) = Len(u) + Len(w)
<1>1. PICK m \in Seq(S) : m = Append(u, e) /\ Len(m) = Len(u) + 1
  BY AppendProperties
<1>2. Total(rec, m) = Total(rec, u) + rec[e].resd
  <2>1. Total(rec, Append(u, e)) = Total(rec, u) + rec[e].resd
    BY TotalAppend
  <2> QED BY <1>1, <2>1
<1>3. Sums(rec, m, w) /\ Sums(rec, u, w)
  BY TotalConcat
<1>4. Len(m \o w) = Len(m) + Len(w) /\ Len(u \o w) = Len(u) + Len(w)
  BY ConcatParts
<1>5. /\ Total(rec, u) \in Int /\ Total(rec, w) \in Int /\ rec[e].resd \in Int
      /\ Len(u) \in Nat /\ Len(w) \in Nat
  BY TotalType DEF HaveResd
<1>6. Total(rec, m \o w) = (Total(rec, u) + rec[e].resd) + Total(rec, w)
  BY <1>2, <1>3 DEF Sums
<1>7. Total(rec, u \o w) = Total(rec, u) + Total(rec, w)
  BY <1>3 DEF Sums
<1>8. (Total(rec, u) + rec[e].resd) + Total(rec, w) = (Total(rec, u) + Total(rec, w)) + rec[e].resd
  BY <1>5
<1>9. (Len(u) + 1) + Len(w) = (Len(u) + Len(w)) + 1
  BY <1>5
<1> QED BY <1>1, <1>4, <1>6, <1>7, <1>8, <1>9

----------------------------------------------------------------------------
(* The invariant.                                                          *)

USE BookSideAssumption

OrderRec == [ticks : Ticks, lots : Int, resd : Int, exec : Int, level : Int \cup {NoLevel}]

LevelRec == [first : Orders, ticks : Int, resd : Int, count : Int]

TypeOK ==
  /\ side \in {"Buy", "Sell"}
  /\ order \in [Orders -> OrderRec]
  /\ list \in Seq(Orders)
  /\ levels \in [DOMAIN levels -> LevelRec]

\* The key of an order's level, and the orders that point to it.
Key(o) == ComposeKey(order[o].ticks)
Holds(k) == {o \in Orders : Level(o) = k}

\* The list is sorted by key; no order is in it twice.
Sorted ==
  /\ \A i, j \in 1 .. Len(list) : i < j => Key(list[i]) <= Key(list[j])
  /\ \A i, j \in 1 .. Len(list) : list[i] = list[j] => i = j

\* An order points to the level of its key when it is in the list.
Pointing ==
  /\ \A i \in 1 .. Len(list) : Level(list[i]) = Key(list[i])
  /\ \A o \in Orders :
       Level(o) # NoLevel => \E i \in 1 .. Len(list) : list[i] = o

\* There is a level for each key, and no other.
Covered ==
  /\ \A i \in 1 .. Len(list) : Key(list[i]) \in DOMAIN levels
  /\ \A k \in DOMAIN levels : \E i \in 1 .. Len(list) : Key(list[i]) = k

\* It counts the orders that point to it: the last one to go takes it along.
Counted ==
  \A k \in DOMAIN levels :
    IsFiniteSet(Holds(k)) /\ levels[k].count = Cardinality(Holds(k))

\* Its first order is the first of its key.
IsFirst(o, k) ==
  \E i \in 1 .. Len(list) :
    /\ list[i] = o
    /\ Key(list[i]) = k
    /\ \A j \in 1 .. i - 1 : Key(list[j]) # k

FirstLive == \A k \in DOMAIN levels : IsFirst(levels[k].first, k)

Inv == TypeOK /\ Sorted /\ Pointing /\ Covered /\ Counted /\ FirstLive

LEMMA KeyType ==
  ASSUME TypeOK, NEW o \in Orders
  PROVE  Key(o) \in Int /\ Key(o) # NoLevel
BY DEF TypeOK, OrderRec, Key, ComposeKey

LEMMA InitInv == Init => Inv
<1> SUFFICES ASSUME Init PROVE Inv
  OBVIOUS
<1>1. TypeOK
  <2>1. \A t \in Ticks, n \in 1 .. MaxLots : NewOrder(t, n) \in OrderRec
    BY DEF NewOrder, OrderRec
  <2> QED BY <2>1 DEF Init, TypeOK
<1>2. \A o \in Orders : Level(o) = NoLevel
  BY DEF Init, Level, NewOrder
<1>3. Len(list) = 0 /\ DOMAIN levels = {}
  BY DEF Init
<1> QED BY <1>1, <1>2, <1>3 DEF Inv, Sorted, Pointing, Covered, Counted, FirstLive

\* What the run checks is what the invariant says.
LEMMA InvPointersLive == Inv => PointersLive
<1> SUFFICES ASSUME Inv PROVE PointersLive
  OBVIOUS
<1>1. DOMAIN list = 1 .. Len(list)
  BY DEF Inv, TypeOK
<1>2. IsInjective(list)
  BY <1>1 DEF Inv, Sorted, IsInjective
<1>3. ASSUME NEW k \in DOMAIN levels
      PROVE  \E i \in DOMAIN list :
               /\ list[i] = levels[k].first
               /\ ComposeKey(order[list[i]].ticks) = k
               /\ \A j \in 1 .. i - 1 : ComposeKey(order[list[j]].ticks) # k
  BY <1>1 DEF Inv, FirstLive, IsFirst, Key
<1>4. ASSUME NEW o \in Orders
      PROVE  Level(o) = IF Contains(list, o) THEN ComposeKey(order[o].ticks) ELSE NoLevel
  BY DEF Inv, Pointing, Contains, Key
<1>5. ASSUME NEW o \in ToSet(list) PROVE Level(o) \in DOMAIN levels
  BY <1>1 DEF Inv, Pointing, Covered, ToSet
<1> QED BY <1>2, <1>3, <1>4, <1>5 DEF PointersLive

LEMMA InvBestPriceFirst == Inv => BestPriceFirst
<1> SUFFICES ASSUME Inv, NEW i \in DOMAIN list, NEW j \in DOMAIN list, i < j
             PROVE  IF side = "Buy" THEN order[list[i]].ticks >= order[list[j]].ticks
                                    ELSE order[list[i]].ticks <= order[list[j]].ticks
  BY DEF BestPriceFirst
<1>1. i \in 1 .. Len(list) /\ j \in 1 .. Len(list) /\ list[i] \in Orders /\ list[j] \in Orders
  BY DEF Inv, TypeOK
<1>2. order[list[i]].ticks \in Int /\ order[list[j]].ticks \in Int
  BY <1>1 DEF Inv, TypeOK, OrderRec
<1>3. Key(list[i]) <= Key(list[j])
  BY <1>1 DEF Inv, Sorted
<1> QED BY <1>2, <1>3 DEF Key, ComposeKey

----------------------------------------------------------------------------
(* Insertion.                                                              *)

LEMMA PositionIs ==
  ASSUME Inv, NEW i \in 1 .. Len(list)
  PROVE  Position(list[i]) = i
<1>1. DOMAIN list = 1 .. Len(list)
  BY DEF Inv, TypeOK
<1>2. \A j \in DOMAIN list : list[j] = list[i] => j = i
  BY <1>1 DEF Inv, Sorted
<1> QED BY <1>1, <1>2 DEF Position

\* The next level's first order is the first order that has a greater key.
LEMMA NextLevel ==
  ASSUME Inv, NEW key \in Int, NextKeys(key) # {}
  PROVE  \E p \in 1 .. Len(list) :
           /\ Position(levels[Min(NextKeys(key))].first) = p
           /\ \A i \in 1 .. p - 1 : Key(list[i]) <= key
           /\ \A i \in p .. Len(list) : Key(list[i]) > key
<1> DEFINE G == {i \in 1 .. Len(list) : Key(list[i]) > key}
           min == Min(NextKeys(key))
<1>0. /\ Len(list) \in Nat
      /\ \A i \in 1 .. Len(list) : list[i] \in Orders /\ Key(list[i]) \in Int
  <2>1. Len(list) \in Nat /\ \A i \in 1 .. Len(list) : list[i] \in Orders
    BY DEF Inv, TypeOK
  <2> QED BY <2>1, KeyType DEF Inv
<1>1. \A k \in NextKeys(key) : \E i \in G : Key(list[i]) = k
  BY DEF NextKeys, Inv, Covered
<1>2. PICK x \in G : \A y \in G : x <= y
  <2>1. G \subseteq Nat /\ G # {}
    BY <1>1
  <2> HIDE DEF G
  <2> QED BY <2>1, LeastMember
<1>3. Key(list[x]) \in NextKeys(key)
  BY DEF NextKeys, Inv, Covered
<1>4. \A k \in NextKeys(key) : Key(list[x]) <= k
  <2> SUFFICES ASSUME NEW k \in NextKeys(key) PROVE Key(list[x]) <= k
    OBVIOUS
  <2>1. PICK i \in G : Key(list[i]) = k
    BY <1>1
  <2>2. x <= i
    BY <1>2
  <2>3. x = i \/ x < i
    BY <2>2
  <2> QED BY <1>0, <2>1, <2>3 DEF Inv, Sorted
<1>5. min \in NextKeys(key) /\ \A k \in NextKeys(key) : min <= k
  BY <1>3, <1>4 DEF Min
<1>6. min \in DOMAIN levels /\ min > key
  BY <1>5 DEF NextKeys
<1>7. PICK p \in 1 .. Len(list) :
        /\ list[p] = levels[min].first
        /\ Key(list[p]) = min
        /\ \A j \in 1 .. p - 1 : Key(list[j]) # min
  BY <1>6 DEF Inv, FirstLive, IsFirst
<1>8. Position(levels[min].first) = p
  BY <1>7, PositionIs
<1>9. ASSUME NEW i \in 1 .. p - 1 PROVE Key(list[i]) <= key
  <2>1. i \in 1 .. Len(list) /\ i < p
    OBVIOUS
  <2>2. Key(list[i]) <= min /\ Key(list[i]) # min
    BY <1>7, <2>1 DEF Inv, Sorted
  <2>3. Key(list[i]) > key => Key(list[i]) \in NextKeys(key)
    BY <2>1 DEF NextKeys, Inv, Covered
  <2>4. Key(list[i]) \in Int /\ min \in Int
    BY <1>0, <1>7, <2>1
  <2>5. Key(list[i]) > key => min <= Key(list[i])
    BY <1>5, <2>3
  <2> QED BY <2>2, <2>4, <2>5
<1>10. ASSUME NEW i \in p .. Len(list) PROVE Key(list[i]) > key
  <2>1. i \in 1 .. Len(list) /\ (i = p \/ p < i)
    OBVIOUS
  <2>2. min <= Key(list[i])
    BY <1>0, <1>7, <2>1 DEF Inv, Sorted
  <2>3. Key(list[i]) \in Int /\ min \in Int
    BY <1>0, <1>7, <2>1
  <2> QED BY <1>6, <2>2, <2>3
<1> QED BY <1>8, <1>9, <1>10

\* An order goes in behind every order of its key or of a smaller one.
LEMMA WhereInserted ==
  ASSUME Inv, NEW o \in Orders
  PROVE  /\ InsertList(o) \in Seq(Orders)
         /\ \E p \in 1 .. Len(list) + 1 :
              /\ Inserted(list, InsertList(o), p, o)
              /\ \A i \in 1 .. p - 1 : Key(list[i]) <= Key(o)
              /\ \A i \in p .. Len(list) : Key(list[i]) > Key(o)
<1>1. Key(o) \in Int /\ list \in Seq(Orders) /\ Len(list) \in Nat
  BY KeyType DEF Inv, TypeOK
<1>2. CASE NextKeys(Key(o)) = {}
  <2>1. InsertList(o) = Append(list, o)
    BY <1>2 DEF InsertList, Key
  <2>2. InsertList(o) \in Seq(Orders) /\ Inserted(list, InsertList(o), Len(list) + 1, o)
    BY <1>1, <2>1, AppendInserts
  <2>3. ASSUME NEW i \in 1 .. Len(list) PROVE Key(list[i]) <= Key(o)
    <3>1. Key(list[i]) \in DOMAIN levels
      BY DEF Inv, Covered
    <3>2. ~ (Key(list[i]) > Key(o))
      BY <1>2, <3>1 DEF NextKeys
    <3>3. list[i] \in Orders
      BY <1>1
    <3>4. Key(list[i]) \in Int
      BY <3>3, KeyType DEF Inv
    <3> QED BY <1>1, <3>2, <3>4
  <2> QED BY <1>1, <2>2, <2>3
<1>3. CASE NextKeys(Key(o)) # {}
  <2>1. PICK p \in 1 .. Len(list) :
          /\ Position(levels[Min(NextKeys(Key(o)))].first) = p
          /\ \A i \in 1 .. p - 1 : Key(list[i]) <= Key(o)
          /\ \A i \in p .. Len(list) : Key(list[i]) > Key(o)
    BY <1>1, <1>3, NextLevel
  <2>2. InsertList(o) = InsertAt(list, p, o)
    BY <1>3, <2>1 DEF InsertList, Key
  <2>3. InsertAt(list, p, o) \in Seq(Orders) /\ Inserted(list, InsertAt(list, p, o), p, o)
    BY <1>1, InsertAtInserts
  <2> QED BY <2>1, <2>2, <2>3
<1> QED BY <1>2, <1>3

\* Adding to a level and taking from it leave its first order.
LEMMA LevelSums ==
  ASSUME NEW level \in LevelRec, NEW n \in Int
  PROVE  /\ AddOrder(level, n) \in LevelRec
         /\ AddOrder(level, n).first = level.first
         /\ AddOrder(level, n).count = level.count + 1
         /\ AddOrder(level, n).resd = level.resd + n
         /\ AddOrder(level, n).ticks = level.ticks
         /\ SubOrder(level, n) \in LevelRec
         /\ SubOrder(level, n).first = level.first
         /\ SubOrder(level, n).count = level.count - 1
         /\ SubOrder(level, n).resd = level.resd - n
         /\ SubOrder(level, n).ticks = level.ticks
<1>1. level.resd + n \in Int /\ level.resd - n \in Int
      /\ level.count + 1 \in Int /\ level.count - 1 \in Int
  BY DEF LevelRec
<1>2. ASSUME NEW r \in Int, NEW c \in Int
      PROVE  [level EXCEPT !.resd = r, !.count = c] \in LevelRec
  BY Zenon DEF LevelRec
<1>3. /\ AddOrder(level, n) = [level EXCEPT !.resd = level.resd + n, !.count = level.count + 1]
      /\ SubOrder(level, n) = [level EXCEPT !.resd = level.resd - n, !.count = level.count - 1]
  BY DEF AddOrder, SubOrder
<1>4. AddOrder(level, n) \in LevelRec /\ SubOrder(level, n) \in LevelRec
  BY <1>1, <1>2, <1>3
<1>5. /\ AddOrder(level, n).first = level.first
      /\ AddOrder(level, n).count = level.count + 1
      /\ AddOrder(level, n).resd = level.resd + n
      /\ AddOrder(level, n).ticks = level.ticks
  BY DEF AddOrder, LevelRec
<1>6. /\ SubOrder(level, n).first = level.first
      /\ SubOrder(level, n).count = level.count - 1
      /\ SubOrder(level, n).resd = level.resd - n
      /\ SubOrder(level, n).ticks = level.ticks
  BY DEF SubOrder, LevelRec
<1> QED BY <1>4, <1>5, <1>6

\* What insertLevel leaves.
LEMMA InsertedLevel ==
  ASSUME Inv, NEW o \in Orders, NEW n \in Int
  PROVE  /\ InsertLevel(o, n) \in [DOMAIN levels \cup {Key(o)} -> LevelRec]
         /\ \A h \in DOMAIN levels \ {Key(o)} : InsertLevel(o, n)[h] = levels[h]
         /\ Key(o) \in DOMAIN levels =>
              /\ InsertLevel(o, n)[Key(o)].first = levels[Key(o)].first
              /\ InsertLevel(o, n)[Key(o)].count = levels[Key(o)].count + 1
              /\ InsertLevel(o, n)[Key(o)].resd = levels[Key(o)].resd + n
              /\ InsertLevel(o, n)[Key(o)].ticks = levels[Key(o)].ticks
         /\ Key(o) \notin DOMAIN levels =>
              /\ InsertLevel(o, n)[Key(o)].first = o /\ InsertLevel(o, n)[Key(o)].count = 1
              /\ InsertLevel(o, n)[Key(o)].resd = n
              /\ InsertLevel(o, n)[Key(o)].ticks = order[o].ticks
<1> DEFINE k == Key(o)
           after == InsertLevel(o, n)
           level == IF k \in DOMAIN levels THEN AddOrder(levels[k], n)
                                           ELSE [NewLevel(o) EXCEPT !.resd = n]
<1>1. after = [h \in DOMAIN levels \cup {k} |-> IF h # k THEN levels[h] ELSE level]
  BY DEF InsertLevel, Key
<1>2. \A h \in DOMAIN levels : levels[h] \in LevelRec
  BY DEF Inv, TypeOK
<1>3. CASE k \in DOMAIN levels
  <2>1. level = AddOrder(levels[k], n) /\ levels[k] \in LevelRec
    BY <1>2, <1>3
  <2>2. /\ level \in LevelRec /\ level.first = levels[k].first
        /\ level.count = levels[k].count + 1
        /\ level.resd = levels[k].resd + n /\ level.ticks = levels[k].ticks
    <3> HIDE DEF level, k
    <3> QED BY <2>1, LevelSums
  <2> HIDE DEF level
  <2> QED BY <1>1, <1>2, <1>3, <2>2
<1>4. CASE k \notin DOMAIN levels
  <2>1. order[o].ticks \in Int
    BY DEF Inv, TypeOK, OrderRec
  <2>2. level = [first |-> o, ticks |-> order[o].ticks, resd |-> n, count |-> 1]
    BY <1>4 DEF NewLevel
  <2>3. /\ level \in LevelRec /\ level.first = o /\ level.count = 1
        /\ level.resd = n /\ level.ticks = order[o].ticks
    BY <2>1, <2>2 DEF LevelRec
  <2> HIDE DEF level
  <2> QED BY <1>1, <1>2, <1>4, <2>3
<1> QED BY <1>3, <1>4

LEMMA InsertStep ==
  ASSUME Inv, NEW o \in Orders, Level(o) = NoLevel, NEW n \in Int,
         NEW rec \in OrderRec, rec.ticks = order[o].ticks, rec.level = Key(o),
         levels' = InsertLevel(o, n),
         list' = InsertList(o),
         order' = [order EXCEPT ![o] = rec],
         side' = side
  PROVE  Inv'
<1> DEFINE k == Key(o)
<1>1. /\ order' \in [Orders -> OrderRec] /\ order'[o] = rec
      /\ \A x \in Orders \ {o} : order'[x] = order[x]
  BY DEF Inv, TypeOK
<1>4. k \in Int /\ k # NoLevel
  BY KeyType DEF Inv
<1>5. /\ Len(list) \in Nat
      /\ \A i \in 1 .. Len(list) : list[i] \in Orders /\ Key(list[i]) \in Int
  <2>1. Len(list) \in Nat /\ \A i \in 1 .. Len(list) : list[i] \in Orders
    BY DEF Inv, TypeOK
  <2> QED BY <2>1, KeyType DEF Inv
<1>6. \A i \in 1 .. Len(list) : list[i] # o
  <2> SUFFICES ASSUME NEW i \in 1 .. Len(list), list[i] = o PROVE FALSE
    OBVIOUS
  <2>1. Level(list[i]) = Key(list[i])
    BY DEF Inv, Pointing
  <2> QED BY <1>4, <2>1
<1>7. PICK p \in 1 .. Len(list) + 1 :
        /\ Inserted(list, list', p, o)
        /\ \A i \in 1 .. p - 1 : Key(list[i]) <= k
        /\ \A i \in p .. Len(list) : Key(list[i]) > k
  BY WhereInserted
<1>8. list' \in Seq(Orders)
  BY WhereInserted
<1>9. /\ Len(list') = Len(list) + 1
      /\ \A i \in 1 .. Len(list') :
           list'[i] = IF i < p THEN list[i] ELSE IF i = p THEN o ELSE list[i - 1]
  BY <1>7 DEF Inserted
<1>10. /\ levels' \in [DOMAIN levels \cup {k} -> LevelRec]
       /\ \A h \in DOMAIN levels \ {k} : levels'[h] = levels[h]
       /\ k \in DOMAIN levels =>
            levels'[k].first = levels[k].first /\ levels'[k].count = levels[k].count + 1
       /\ k \notin DOMAIN levels => levels'[k].first = o /\ levels'[k].count = 1
  <2> HIDE DEF k
  <2>1. k = Key(o)
    BY DEF k
  <2>2. /\ InsertLevel(o, n) \in [DOMAIN levels \cup {Key(o)} -> LevelRec]
        /\ \A h \in DOMAIN levels \ {Key(o)} : InsertLevel(o, n)[h] = levels[h]
        /\ Key(o) \in DOMAIN levels =>
             /\ InsertLevel(o, n)[Key(o)].first = levels[Key(o)].first
             /\ InsertLevel(o, n)[Key(o)].count = levels[Key(o)].count + 1
        /\ Key(o) \notin DOMAIN levels =>
             InsertLevel(o, n)[Key(o)].first = o /\ InsertLevel(o, n)[Key(o)].count = 1
    BY InsertedLevel
  <2>3. levels' = InsertLevel(o, n)
    OBVIOUS
  <2> QED BY <2>1, <2>2, <2>3
<1>11. DOMAIN levels' = DOMAIN levels \cup {k}
  BY <1>10
<1> HIDE DEF k
<1>2. \A i \in 1 .. Len(list') : Key(list[i])' = Key(list'[i])
  <2> SUFFICES ASSUME NEW i \in 1 .. Len(list') PROVE Key(list[i])' = Key(list'[i])
    OBVIOUS
  <2>1. list'[i] \in Orders
    BY <1>8
  <2>2. order'[list'[i]].ticks = order[list'[i]].ticks
    BY <1>1, <2>1
  <2> QED BY <2>2 DEF Key, ComposeKey
<1>3. \A x \in Orders : order'[x].level = IF x = o THEN k ELSE order[x].level
  BY <1>1 DEF k
<1>12. TypeOK'
  BY <1>1, <1>8, <1>10, <1>11 DEF Inv, TypeOK
\* The key at each position of the new list.
<1>13. \A i \in 1 .. Len(list') :
         Key(list'[i]) = IF i < p THEN Key(list[i]) ELSE IF i = p THEN k ELSE Key(list[i - 1])
  <2> SUFFICES ASSUME NEW i \in 1 .. Len(list')
               PROVE Key(list'[i]) =
                       IF i < p THEN Key(list[i]) ELSE IF i = p THEN k ELSE Key(list[i - 1])
    OBVIOUS
  <2> QED BY <1>9 DEF k
<1>14. Sorted'
  <2>1. ASSUME NEW i \in 1 .. Len(list'), NEW j \in 1 .. Len(list'), i < j
        PROVE  Key(list'[i]) <= Key(list'[j])
    <3>1. \A a, b \in 1 .. Len(list) : a < b => Key(list[a]) <= Key(list[b])
      BY DEF Inv, Sorted
    <3>2. CASE j < p
      BY <1>5, <1>7, <1>9, <1>13, <2>1, <3>1, <3>2
    <3>3. CASE j = p
      BY <1>7, <1>9, <1>13, <2>1, <3>3
    <3>4. CASE p < j
      <4>1. Key(list'[j]) = Key(list[j - 1]) /\ j - 1 \in p .. Len(list)
        BY <1>7, <1>9, <1>13, <3>4
      <4>2. j - 1 \in 1 .. Len(list)
        BY <1>7, <4>1
      <4>3. CASE i < p
        BY <1>7, <1>9, <1>13, <2>1, <3>1, <3>4, <4>1, <4>2, <4>3
      <4>4. CASE i = p
        BY <1>4, <1>5, <1>7, <1>13, <4>1, <4>2, <4>4 DEF k
      <4>5. CASE p < i
        <5>1. Key(list'[i]) = Key(list[i - 1]) /\ i - 1 \in 1 .. Len(list)
          BY <1>7, <1>9, <1>13, <4>5
        <5>2. i - 1 < j - 1
          BY <2>1
        <5> QED BY <3>1, <4>1, <4>2, <5>1, <5>2
      <4> QED BY <1>7, <4>3, <4>4, <4>5
    <3> QED BY <1>7, <3>2, <3>3, <3>4
  <2>2. ASSUME NEW i \in 1 .. Len(list'), NEW j \in 1 .. Len(list'), list'[i] = list'[j]
        PROVE  i = j
    <3>1. \A a, b \in 1 .. Len(list) : list[a] = list[b] => a = b
      BY DEF Inv, Sorted
    <3> DEFINE old(x) == IF x < p THEN x ELSE x - 1
    <3>2. \A x \in 1 .. Len(list') :
            \/ x = p /\ list'[x] = o
            \/ x # p /\ list'[x] = list[old(x)] /\ old(x) \in 1 .. Len(list)
      BY <1>5, <1>7, <1>9
    <3>3. i = p <=> j = p
      BY <1>6, <2>2, <3>2
    <3>4. CASE i # p
      <4>1. old(i) = old(j)
        BY <2>2, <3>1, <3>2, <3>3, <3>4
      <4> QED BY <1>7, <3>3, <3>4, <4>1
    <3> QED BY <3>3, <3>4
  <2> QED BY <1>2, <2>1, <2>2 DEF Sorted
\* Every old position is found again.
<1>15. \A i \in 1 .. Len(list) : \E j \in 1 .. Len(list') : list'[j] = list[i]
  <2> SUFFICES ASSUME NEW i \in 1 .. Len(list)
               PROVE \E j \in 1 .. Len(list') : list'[j] = list[i]
    OBVIOUS
  <2>1. CASE i < p
    BY <1>5, <1>7, <1>9, <2>1
  <2>2. CASE p <= i
    <3>1. i + 1 \in 1 .. Len(list') /\ list'[i + 1] = list[i]
      BY <1>5, <1>7, <1>9, <2>2
    <3> QED BY <3>1
  <2> QED BY <1>7, <2>1, <2>2
<1>16. p \in 1 .. Len(list') /\ list'[p] = o
  BY <1>5, <1>7, <1>9
<1>17. \A i \in 1 .. Len(list') :
         list'[i] = o \/ \E j \in 1 .. Len(list) : list'[i] = list[j]
  <2> SUFFICES ASSUME NEW i \in 1 .. Len(list')
               PROVE list'[i] = o \/ \E j \in 1 .. Len(list) : list'[i] = list[j]
    OBVIOUS
  <2>1. CASE i < p
    BY <1>5, <1>7, <1>9, <2>1
  <2>2. CASE p < i
    <3>1. i - 1 \in 1 .. Len(list) /\ list'[i] = list[i - 1]
      BY <1>5, <1>7, <1>9, <2>2
    <3> QED BY <3>1
  <2> QED BY <1>7, <1>16, <2>1, <2>2
<1>18. Pointing'
  <2>1. ASSUME NEW i \in 1 .. Len(list') PROVE Level(list[i])' = Key(list[i])'
    <3>1. Level(list[i])' = order'[list'[i]].level
      BY DEF Level
    <3>2. list'[i] \in Orders
      BY <1>8
    <3>3. CASE list'[i] = o
      BY <1>2, <1>3, <3>1, <3>3 DEF k
    <3>4. CASE \E j \in 1 .. Len(list) : list'[i] = list[j]
      <4>1. PICK j \in 1 .. Len(list) : list'[i] = list[j]
        BY <3>4
      <4>2. Level(list[j]) = Key(list[j])
        BY DEF Inv, Pointing
      <4>3. order'[list[j]].level = order[list[j]].level
        BY <1>3, <1>5, <1>6
      <4> QED BY <1>2, <3>1, <4>1, <4>2, <4>3 DEF Level
    <3> QED BY <1>17, <3>3, <3>4
  <2>2. ASSUME NEW x \in Orders, order'[x].level # NoLevel
        PROVE  \E i \in 1 .. Len(list') : list'[i] = x
    <3>1. CASE x = o
      BY <1>16, <3>1
    <3>2. CASE x # o
      <4>1. Level(x) # NoLevel
        BY <1>3, <2>2, <3>2 DEF Level
      <4>2. PICK i \in 1 .. Len(list) : list[i] = x
        BY <4>1 DEF Inv, Pointing
      <4> QED BY <1>15, <4>2
    <3> QED BY <3>1, <3>2
  <2> QED BY <2>1, <2>2 DEF Pointing, Level
<1>19. Covered'
  <2>1. ASSUME NEW i \in 1 .. Len(list') PROVE Key(list'[i]) \in DOMAIN levels'
    <3>1. CASE list'[i] = o
      BY <1>11, <3>1 DEF k
    <3>2. CASE \E j \in 1 .. Len(list) : list'[i] = list[j]
      <4>1. PICK j \in 1 .. Len(list) : list'[i] = list[j]
        BY <3>2
      <4>2. Key(list'[i]) = Key(list[j])
        BY <4>1
      <4> QED BY <1>11, <4>2 DEF Inv, Covered
    <3> QED BY <1>17, <3>1, <3>2
  <2>2. ASSUME NEW h \in DOMAIN levels'
        PROVE  \E i \in 1 .. Len(list') : Key(list'[i]) = h
    <3>1. CASE h = k
      BY <1>16, <3>1 DEF k
    <3>2. CASE h \in DOMAIN levels
      <4>1. PICK i \in 1 .. Len(list) : Key(list[i]) = h
        BY <3>2 DEF Inv, Covered
      <4>2. PICK j \in 1 .. Len(list') : list'[j] = list[i]
        BY <1>15
      <4>3. Key(list'[j]) = h
        BY <4>1, <4>2
      <4> QED BY <4>3
    <3> QED BY <1>11, <3>1, <3>2
  <2> QED BY <1>2, <2>1, <2>2 DEF Covered
<1>20. Counted'
  <2> SUFFICES ASSUME NEW h \in DOMAIN levels'
               PROVE  IsFiniteSet(Holds(h)') /\ levels'[h].count = Cardinality(Holds(h)')
    BY DEF Counted
  <2>1. Holds(h)' = {x \in Orders : order'[x].level = h}
    BY DEF Holds, Level
  <2>2. CASE h # k
    <3>1. h \in DOMAIN levels /\ levels'[h] = levels[h]
      BY <1>10, <1>11, <2>2
    <3>2. h # NoLevel
      <4>1. PICK i \in 1 .. Len(list) : Key(list[i]) = h
        BY <3>1 DEF Inv, Covered
      <4>2. h \in Int
        BY <1>5, <4>1
      <4> QED BY <4>2
    <3>3. Holds(h)' = Holds(h)
      BY <1>3, <2>1, <2>2, <3>2 DEF Holds, Level
    <3> QED BY <3>1, <3>3 DEF Inv, Counted
  <2>3. CASE h = k
    <3>1. Holds(h)' = Holds(k) \cup {o} /\ o \notin Holds(k)
      BY <1>3, <1>4, <2>1, <2>3 DEF Holds, Level
    <3>2. CASE k \in DOMAIN levels
      <4>1. IsFiniteSet(Holds(k)) /\ levels[k].count = Cardinality(Holds(k))
        BY <3>2 DEF Inv, Counted
      <4> QED BY <1>10, <2>3, <3>1, <3>2, <4>1, FS_AddElement
    <3>3. CASE k \notin DOMAIN levels
      <4>1. Holds(k) = {}
        <5> SUFFICES ASSUME NEW x \in Orders, Level(x) = k PROVE FALSE
          BY DEF Holds
        <5>1. PICK i \in 1 .. Len(list) : list[i] = x
          BY <1>4 DEF Inv, Pointing
        <5>2. Key(list[i]) \in DOMAIN levels /\ Key(list[i]) = k
          BY <5>1 DEF Inv, Pointing, Covered
        <5> QED BY <3>3, <5>2
      <4>2. Holds(h)' = {o}
        BY <3>1, <4>1
      <4>3. IsFiniteSet({o}) /\ Cardinality({o}) = 1
        BY FS_Singleton
      <4> QED BY <1>10, <2>3, <3>3, <4>2, <4>3
    <3> QED BY <3>2, <3>3
  <2> QED BY <2>2, <2>3
<1>21. FirstLive'
  <2> SUFFICES ASSUME NEW h \in DOMAIN levels'
               PROVE  \E i \in 1 .. Len(list') :
                        /\ list'[i] = levels'[h].first
                        /\ Key(list'[i]) = h
                        /\ \A j \in 1 .. i - 1 : Key(list'[j]) # h
    <3>1. Len(list') \in Nat
      BY <1>5, <1>9
    <3>2. \A i \in 1 .. Len(list') : \A j \in 1 .. i - 1 : j \in 1 .. Len(list')
      BY <3>1
    <3> QED BY <1>2, <3>2 DEF FirstLive, IsFirst
  <2>1. CASE h \in DOMAIN levels
    <3>1. levels'[h].first = levels[h].first
      BY <1>10, <2>1
    <3>2. PICK i \in 1 .. Len(list) :
            /\ list[i] = levels[h].first
            /\ Key(list[i]) = h
            /\ \A j \in 1 .. i - 1 : Key(list[j]) # h
      BY <2>1 DEF Inv, FirstLive, IsFirst
    <3>3. CASE i < p
      <4>1. i \in 1 .. Len(list') /\ list'[i] = list[i] /\ Key(list'[i]) = h
        BY <1>5, <1>7, <1>9, <1>13, <3>2, <3>3
      <4>2. \A j \in 1 .. i - 1 : Key(list'[j]) # h
        BY <1>5, <1>7, <1>9, <1>13, <3>2, <3>3
      <4> QED BY <3>1, <3>2, <4>1, <4>2
    <3>4. CASE p <= i
      <4>1. /\ i + 1 \in 1 .. Len(list') /\ list'[i + 1] = list[i]
            /\ Key(list'[i + 1]) = h
        BY <1>5, <1>7, <1>9, <1>13, <3>2, <3>4
      <4>2. h > k
        BY <1>7, <3>2, <3>4
      <4>3. h # k
        BY <1>4, <1>5, <3>2, <4>2 DEF k
      <4>4. ASSUME NEW j \in 1 .. (i + 1) - 1 PROVE Key(list'[j]) # h
        <5>0. j \in 1 .. Len(list')
          BY <1>5, <1>9
        <5>1. CASE j < p
          <6>1. j \in 1 .. i - 1
            BY <1>5, <3>4, <5>1
          <6> QED BY <1>13, <3>2, <5>0, <5>1, <6>1
        <5>2. CASE j = p
          BY <1>13, <4>3, <5>0, <5>2
        <5>3. CASE p < j
          <6>1. j - 1 \in 1 .. i - 1 /\ ~ (j < p) /\ j # p
            BY <1>7, <5>3
          <6> QED BY <1>13, <3>2, <5>0, <6>1
        <5> QED BY <1>7, <5>1, <5>2, <5>3
      <4> QED BY <3>1, <3>2, <4>1, <4>4
    <3>5. i < p \/ p <= i
      BY <1>5
    <3> QED BY <3>3, <3>4, <3>5
  <2>2. CASE h \notin DOMAIN levels
    <3>1. h = k /\ levels'[h].first = o
      BY <1>10, <1>11, <2>2
    <3>2. Key(list'[p]) = h
      BY <1>13, <1>16, <3>1
    <3>3. \A i \in 1 .. Len(list) : Key(list[i]) # h
      BY <2>2 DEF Inv, Covered
    <3>4. ASSUME NEW j \in 1 .. p - 1 PROVE Key(list'[j]) # h
      <4>1. j \in 1 .. Len(list') /\ j \in 1 .. Len(list) /\ j < p
        BY <1>5, <1>7, <1>9
      <4> QED BY <1>13, <3>3, <4>1
    <3> QED BY <1>16, <3>1, <3>2, <3>4
  <2> QED BY <2>1, <2>2
<1> QED BY <1>12, <1>14, <1>18, <1>19, <1>20, <1>21 DEF Inv

----------------------------------------------------------------------------
(* Removal.                                                                *)

\* An order that points to a level is in the list; when its level counts another,
\* and the order is the level's first, the next one in the list is of that level.
LEMMA NextOfLevel ==
  ASSUME Inv, NEW o \in Orders, Level(o) # NoLevel
  PROVE  /\ Level(o) = Key(o) /\ Key(o) \in DOMAIN levels
         /\ \E p \in 1 .. Len(list) :
              /\ list[p] = o /\ Position(o) = p
              /\ levels[Key(o)].count - 1 = 0 => Holds(Key(o)) = {o}
              /\ levels[Key(o)].count - 1 # 0 =>
                   \E q \in 1 .. Len(list) : q # p /\ Key(list[q]) = Key(o)
              /\ levels[Key(o)].count - 1 # 0 /\ levels[Key(o)].first = o =>
                   p + 1 \in 1 .. Len(list) /\ Key(list[p + 1]) = Key(o)
<1>1. PICK p \in 1 .. Len(list) : list[p] = o
  BY DEF Inv, Pointing
<1>2. Position(o) = p /\ Level(o) = Key(o) /\ Key(o) \in DOMAIN levels
  BY <1>1, PositionIs DEF Inv, Pointing, Covered
<1>3. /\ IsFiniteSet(Holds(Key(o))) /\ o \in Holds(Key(o))
      /\ levels[Key(o)].count = Cardinality(Holds(Key(o)))
  BY <1>2 DEF Inv, Counted, Holds
<1>4. Cardinality(Holds(Key(o))) \in Nat
  BY <1>3, FS_CardinalityType
<1>5. ASSUME levels[Key(o)].count - 1 = 0 PROVE Holds(Key(o)) = {o}
  <2>1. Cardinality(Holds(Key(o))) = 1
    BY <1>3, <1>4, <1>5
  <2>2. \E x : Holds(Key(o)) = {x}
    BY <1>3, <2>1, FS_Singleton
  <2> QED BY <1>3, <2>2
<1>6. ASSUME levels[Key(o)].count - 1 # 0
      PROVE  \E q \in 1 .. Len(list) : q # p /\ Key(list[q]) = Key(o)
  <2>1. Holds(Key(o)) # {o}
    <3> SUFFICES ASSUME Holds(Key(o)) = {o} PROVE FALSE
      OBVIOUS
    <3>1. Cardinality({o}) = 1
      BY FS_Singleton
    <3>2. levels[Key(o)].count = 1
      BY <1>3, <3>1
    <3> QED BY <1>6, <3>2
  <2>2. PICK x \in Orders : x # o /\ Level(x) = Key(o)
    BY <1>3, <2>1 DEF Holds
  <2>3. Key(o) # NoLevel
    BY KeyType DEF Inv
  <2>4. PICK q \in 1 .. Len(list) : list[q] = x
    BY <2>2, <2>3 DEF Inv, Pointing
  <2> QED BY <1>1, <2>2, <2>4 DEF Inv, Pointing
<1>7. ASSUME levels[Key(o)].count - 1 # 0, levels[Key(o)].first = o
      PROVE  p + 1 \in 1 .. Len(list) /\ Key(list[p + 1]) = Key(o)
  <2>3. Len(list) \in Nat
    BY DEF Inv, TypeOK
  <2>5. PICK q \in 1 .. Len(list) : q # p /\ Key(list[q]) = Key(o)
    BY <1>6, <1>7
  <2>6. PICK i \in 1 .. Len(list) :
          list[i] = o /\ \A j \in 1 .. i - 1 : Key(list[j]) # Key(o)
    BY <1>2, <1>7 DEF Inv, FirstLive, IsFirst
  <2>7. i = p
    BY <1>1, <2>6 DEF Inv, Sorted
  <2>8. p < q
    BY <2>3, <2>5, <2>6, <2>7
  <2>9. p + 1 \in 1 .. Len(list) /\ p < p + 1 /\ (p + 1 = q \/ p + 1 < q)
    BY <2>3, <2>8
  <2>10. Key(list[p]) <= Key(list[p + 1]) /\ Key(list[p + 1]) <= Key(list[q])
    <3>1. \A a, b \in 1 .. Len(list) : a < b => Key(list[a]) <= Key(list[b])
      BY DEF Inv, Sorted
    <3>2. list[q] \in Orders
      BY DEF Inv, TypeOK
    <3>3. Key(list[q]) \in Int
      BY <3>2, KeyType DEF Inv
    <3>4. CASE p + 1 = q
      BY <2>8, <3>1, <3>3, <3>4
    <3>5. CASE p + 1 < q
      BY <2>9, <3>1, <3>5
    <3> QED BY <2>9, <3>4, <3>5
  <2>11. list[p + 1] \in Orders
    BY <2>9 DEF Inv, TypeOK
  <2>12. Key(list[p + 1]) \in Int /\ Key(o) \in Int
    BY <2>11, KeyType DEF Inv
  <2> QED BY <1>1, <2>5, <2>9, <2>10, <2>12
<1> QED BY <1>1, <1>2, <1>5, <1>6, <1>7

\* What removeOrder makes of the levels.
LEMMA RemovedLevel ==
  ASSUME Inv, NEW o \in Orders, Level(o) # NoLevel
  PROVE  LET k     == Key(o)
             after == AfterRemoval(o, k)
         IN  /\ levels[k].count - 1 = 0 =>
                  /\ after \in [DOMAIN levels \ {k} -> LevelRec]
                  /\ \A h \in DOMAIN levels \ {k} : after[h] = levels[h]
             /\ levels[k].count - 1 # 0 =>
                  /\ after \in [DOMAIN levels -> LevelRec]
                  /\ \A h \in DOMAIN levels \ {k} : after[h] = levels[h]
                  /\ after[k].count = levels[k].count - 1
                  /\ after[k].resd = levels[k].resd - order[o].resd
                  /\ after[k].ticks = levels[k].ticks
                  /\ levels[k].first # o => after[k].first = levels[k].first
                  /\ levels[k].first = o => after[k].first = list[Position(o) + 1]
<1> DEFINE k == Key(o)
           level == SubOrder(levels[k], order[o].resd)
           next == IF level.first = o THEN [level EXCEPT !.first = list[Position(o) + 1]] ELSE level
<1>1. k \in DOMAIN levels /\ \A h \in DOMAIN levels : levels[h] \in LevelRec
  BY NextOfLevel DEF Inv, TypeOK
<1>2. order[o].resd \in Int
  BY DEF Inv, TypeOK, OrderRec
<1>3. levels[k] \in LevelRec
  BY <1>1
<1>4. /\ level \in LevelRec /\ level.first = levels[k].first
      /\ level.count = levels[k].count - 1
      /\ level.resd = levels[k].resd - order[o].resd /\ level.ticks = levels[k].ticks
  BY <1>2, <1>3, LevelSums
<1>5. AfterRemoval(o, k) =
        IF level.count = 0 THEN [h \in DOMAIN levels \ {k} |-> levels[h]]
                           ELSE [levels EXCEPT ![k] = next]
  BY DEF AfterRemoval, Restrict
<1>6. CASE level.count = 0
  <2>1. AfterRemoval(o, k) = [h \in DOMAIN levels \ {k} |-> levels[h]]
    BY <1>5, <1>6
  <2> HIDE DEF level, next, k
  <2> QED BY <1>1, <1>4, <1>6, <2>1 DEF k
<1>7. CASE level.count # 0
  <2>1. levels[k].first = o => list[Position(o) + 1] \in Orders
    BY <1>4, <1>7, NextOfLevel DEF Inv, TypeOK
  <2>2. CASE level.first = o
    <3>1. PICK x \in Orders : x = list[Position(o) + 1]
      BY <1>4, <2>1, <2>2
    <3>2. next = [level EXCEPT !.first = x]
      BY <2>2, <3>1
    <3>3. /\ next \in LevelRec /\ next.first = x /\ next.count = level.count
          /\ next.resd = level.resd /\ next.ticks = level.ticks
      <4> HIDE DEF level, next
      <4> QED BY <1>4, <3>2 DEF LevelRec
    <3>4. AfterRemoval(o, k) = [levels EXCEPT ![k] = next]
      BY <1>5, <1>7
    <3> HIDE DEF level, next, k
    <3>5. /\ [levels EXCEPT ![k] = next] \in [DOMAIN levels -> LevelRec]
          /\ [levels EXCEPT ![k] = next][k] = next
          /\ \A h \in DOMAIN levels \ {k} : [levels EXCEPT ![k] = next][h] = levels[h]
      BY <1>1, <3>3 DEF Inv, TypeOK
    <3> QED BY <1>4, <1>7, <2>2, <3>1, <3>3, <3>4, <3>5 DEF k
  <2>3. CASE level.first # o
    <3>1. AfterRemoval(o, k) = [levels EXCEPT ![k] = level]
      BY <1>5, <1>7, <2>3
    <3> HIDE DEF level, next, k
    <3>2. /\ [levels EXCEPT ![k] = level] \in [DOMAIN levels -> LevelRec]
          /\ [levels EXCEPT ![k] = level][k] = level
          /\ \A h \in DOMAIN levels \ {k} : [levels EXCEPT ![k] = level][h] = levels[h]
      BY <1>1, <1>4 DEF Inv, TypeOK
    <3> QED BY <1>4, <1>7, <2>3, <3>1, <3>2 DEF k
  <2> QED BY <2>2, <2>3
<1> QED BY <1>4, <1>6, <1>7

LEMMA DetachStep ==
  ASSUME Inv, NEW o \in Orders, Level(o) # NoLevel,
         NEW rec \in OrderRec, rec.ticks = order[o].ticks,
         Detach(o, rec),
         side' = side
  PROVE  Inv'
<1> DEFINE k == Key(o)
           last == levels[k].count - 1 = 0
<1>1. /\ order' \in [Orders -> OrderRec]
      /\ \A x \in Orders : order'[x].ticks = order[x].ticks
      /\ \A x \in Orders : order'[x].level = IF x = o THEN NoLevel ELSE order[x].level
  <2> DEFINE gone == [rec EXCEPT !.level = NoLevel]
  <2>1. gone \in OrderRec /\ gone.ticks = rec.ticks /\ gone.level = NoLevel
    BY DEF OrderRec
  <2>2. order' = [order EXCEPT ![o] = gone]
    BY DEF Detach
  <2> HIDE DEF gone
  <2> QED BY <2>1, <2>2 DEF Inv, TypeOK
<1>2. PICK p \in 1 .. Len(list) :
        /\ list[p] = o /\ Position(o) = p
        /\ last => Holds(k) = {o}
        /\ ~ last => \E q \in 1 .. Len(list) : q # p /\ Key(list[q]) = k
        /\ ~ last /\ levels[k].first = o => p + 1 \in 1 .. Len(list) /\ Key(list[p + 1]) = k
  BY NextOfLevel
<1>3. Level(o) = k /\ k \in DOMAIN levels
  BY NextOfLevel
<1>4. levels' = AfterRemoval(o, k) /\ list' = RemoveAt(list, p)
  BY <1>2, <1>3 DEF Detach, RemoveList
<1>5. /\ Len(list) \in Nat
      /\ \A i \in 1 .. Len(list) : list[i] \in Orders /\ Key(list[i]) \in Int
  <2>1. Len(list) \in Nat /\ \A i \in 1 .. Len(list) : list[i] \in Orders
    BY DEF Inv, TypeOK
  <2> QED BY <2>1, KeyType DEF Inv
<1>6. k \in Int /\ k # NoLevel
  BY KeyType DEF Inv
<1>7. /\ list' \in Seq(Orders) /\ Len(list') = Len(list) - 1
      /\ \A i \in 1 .. Len(list) - 1 : list'[i] = IF i < p THEN list[i] ELSE list[i + 1]
  <2>1. list \in Seq(Orders)
    BY DEF Inv, TypeOK
  <2> QED BY <1>4, <2>1, RemoveAtRemoves
<1>8. /\ DOMAIN levels' = IF last THEN DOMAIN levels \ {k} ELSE DOMAIN levels
      /\ levels' \in [DOMAIN levels' -> LevelRec]
      /\ \A h \in DOMAIN levels \ {k} : levels'[h] = levels[h]
      /\ ~ last => levels'[k].count = levels[k].count - 1
      /\ ~ last /\ levels[k].first # o => levels'[k].first = levels[k].first
      /\ ~ last /\ levels[k].first = o => levels'[k].first = list[p + 1]
  <2>1. CASE last
    <3>1. /\ AfterRemoval(o, k) \in [DOMAIN levels \ {k} -> LevelRec]
          /\ \A h \in DOMAIN levels \ {k} : AfterRemoval(o, k)[h] = levels[h]
      BY <2>1, RemovedLevel
    <3> QED BY <1>4, <2>1, <3>1
  <2>2. CASE ~ last
    <3>1. /\ AfterRemoval(o, k) \in [DOMAIN levels -> LevelRec]
          /\ \A h \in DOMAIN levels \ {k} : AfterRemoval(o, k)[h] = levels[h]
          /\ AfterRemoval(o, k)[k].count = levels[k].count - 1
          /\ levels[k].first # o => AfterRemoval(o, k)[k].first = levels[k].first
          /\ levels[k].first = o => AfterRemoval(o, k)[k].first = list[Position(o) + 1]
      BY <2>2, RemovedLevel
    <3> QED BY <1>2, <1>4, <2>2, <3>1
  <2> QED BY <2>1, <2>2
<1> HIDE DEF k, last
<1>9. TypeOK'
  BY <1>1, <1>7, <1>8 DEF Inv, TypeOK
<1>10. \A i \in 1 .. Len(list') : Key(list[i])' = Key(list'[i])
  <2> SUFFICES ASSUME NEW i \in 1 .. Len(list') PROVE Key(list[i])' = Key(list'[i])
    OBVIOUS
  <2>1. list'[i] \in Orders
    BY <1>7
  <2>2. order'[list'[i]].ticks = order[list'[i]].ticks
    BY <1>1, <2>1
  <2> QED BY <2>2 DEF Key, ComposeKey
\* The positions that are left, and where they were.
<1> DEFINE old(i) == IF i < p THEN i ELSE i + 1
<1>11. \A i \in 1 .. Len(list') :
         old(i) \in 1 .. Len(list) /\ old(i) # p /\ list'[i] = list[old(i)]
  BY <1>5, <1>7
<1>12. \A i, j \in 1 .. Len(list') : (i < j <=> old(i) < old(j)) /\ (i = j <=> old(i) = old(j))
  BY <1>5, <1>7
<1>13. \A i \in 1 .. Len(list) : i # p => \E j \in 1 .. Len(list') : old(j) = i
  <2> SUFFICES ASSUME NEW i \in 1 .. Len(list), i # p
               PROVE  \E j \in 1 .. Len(list') : old(j) = i
    OBVIOUS
  <2>1. CASE i < p
    BY <1>5, <1>7, <2>1
  <2>2. CASE p < i
    <3>1. i - 1 \in 1 .. Len(list') /\ old(i - 1) = i
      BY <1>5, <1>7, <2>2
    <3> QED BY <3>1
  <2> QED BY <2>1, <2>2
<1> HIDE DEF old
<1>14. Sorted'
  <2>1. ASSUME NEW i \in 1 .. Len(list'), NEW j \in 1 .. Len(list'), i < j
        PROVE  Key(list'[i]) <= Key(list'[j])
    BY <1>11, <1>12, <2>1 DEF Inv, Sorted
  <2>2. ASSUME NEW i \in 1 .. Len(list'), NEW j \in 1 .. Len(list'), list'[i] = list'[j]
        PROVE  i = j
    BY <1>11, <1>12, <2>2 DEF Inv, Sorted
  <2> QED BY <1>10, <2>1, <2>2 DEF Sorted
<1>15. \A i \in 1 .. Len(list') : list'[i] # o
  BY <1>2, <1>11 DEF Inv, Sorted
<1>16. Pointing'
  <2>1. ASSUME NEW i \in 1 .. Len(list') PROVE Level(list[i])' = Key(list[i])'
    <3>1. Level(list[i])' = order'[list'[i]].level
      BY DEF Level
    <3>2. list'[i] \in Orders
      BY <1>7
    <3>3. order'[list'[i]].level = order[list'[i]].level
      BY <1>1, <1>15, <3>2
    <3>4. Level(list[old(i)]) = Key(list[old(i)])
      BY <1>11 DEF Inv, Pointing
    <3>5. order[list'[i]].level = Key(list'[i])
      BY <1>11, <3>4 DEF Level
    <3> QED BY <1>10, <3>1, <3>3, <3>5
  <2>2. ASSUME NEW x \in Orders, order'[x].level # NoLevel
        PROVE  \E i \in 1 .. Len(list') : list'[i] = x
    <3>1. x # o /\ Level(x) # NoLevel
      BY <1>1, <2>2 DEF Level
    <3>2. PICK i \in 1 .. Len(list) : list[i] = x
      BY <3>1 DEF Inv, Pointing
    <3> QED BY <1>2, <1>11, <1>13, <3>1, <3>2
  <2> QED BY <2>1, <2>2 DEF Pointing, Level
<1>17. Covered'
  <2>1. ASSUME NEW i \in 1 .. Len(list') PROVE Key(list'[i]) \in DOMAIN levels'
    <3>1. Key(list[old(i)]) \in DOMAIN levels /\ Key(list'[i]) = Key(list[old(i)])
      BY <1>11 DEF Inv, Covered
    <3>2. ASSUME last PROVE Key(list'[i]) # k
      <4>1. list[old(i)] \in Holds(Key(list[old(i)]))
        BY <1>5, <1>11 DEF Inv, Pointing, Holds
      <4>2. list[old(i)] # o
        BY <1>11, <1>15
      <4> QED BY <1>2, <3>1, <3>2, <4>1, <4>2
    <3> QED BY <1>8, <3>1, <3>2
  <2>2. ASSUME NEW h \in DOMAIN levels'
        PROVE  \E i \in 1 .. Len(list') : Key(list'[i]) = h
    <3>1. PICK i \in 1 .. Len(list) : i # p /\ Key(list[i]) = h
      <4>1. CASE h = k
        <5>1. ~ last
          BY <1>8, <4>1
        <5> QED BY <1>2, <4>1, <5>1
      <4>2. CASE h # k
        <5>1. PICK i \in 1 .. Len(list) : Key(list[i]) = h
          BY <1>8 DEF Inv, Covered
        <5>2. i # p
          BY <1>2, <4>2, <5>1 DEF k
        <5> QED BY <5>1, <5>2
      <4> QED BY <4>1, <4>2
    <3>2. PICK j \in 1 .. Len(list') : old(j) = i
      BY <1>13, <3>1
    <3>3. Key(list'[j]) = h
      BY <1>11, <3>1, <3>2
    <3> QED BY <3>3
  <2> QED BY <1>10, <2>1, <2>2 DEF Covered
<1>18. Counted'
  <2> SUFFICES ASSUME NEW h \in DOMAIN levels'
               PROVE  IsFiniteSet(Holds(h)') /\ levels'[h].count = Cardinality(Holds(h)')
    BY DEF Counted
  <2>1. Holds(h)' = {x \in Orders : order'[x].level = h}
    BY DEF Holds, Level
  <2>2. h \in DOMAIN levels
    BY <1>8
  <2>3. h # NoLevel
    <3>1. PICK i \in 1 .. Len(list) : Key(list[i]) = h
      BY <2>2 DEF Inv, Covered
    <3>2. h \in Int
      BY <1>5, <3>1
    <3> QED BY <3>2
  <2>4. Holds(h)' = Holds(h) \ {o}
    BY <1>1, <2>1, <2>3 DEF Holds, Level
  <2>5. IsFiniteSet(Holds(h)) /\ levels[h].count = Cardinality(Holds(h))
    BY <2>2 DEF Inv, Counted
  <2>6. o \in Holds(h) <=> h = k
    BY <1>3 DEF Holds
  <2>7. CASE h = k
    <3>1. ~ last
      BY <1>8, <2>7
    <3> QED BY <1>8, <2>4, <2>5, <2>6, <2>7, <3>1, FS_RemoveElement
  <2>8. CASE h # k
    <3>1. levels'[h] = levels[h]
      BY <1>8, <2>2, <2>8
    <3> QED BY <2>4, <2>5, <2>6, <2>8, <3>1, FS_RemoveElement
  <2> QED BY <2>7, <2>8
<1>19. FirstLive'
  <2> SUFFICES ASSUME NEW h \in DOMAIN levels'
               PROVE  \E i \in 1 .. Len(list') :
                        /\ list'[i] = levels'[h].first
                        /\ Key(list'[i]) = h
                        /\ \A j \in 1 .. i - 1 : Key(list'[j]) # h
    <3>1. Len(list') \in Nat
      BY <1>7
    <3>2. \A i \in 1 .. Len(list') : \A j \in 1 .. i - 1 : j \in 1 .. Len(list')
      BY <3>1
    <3> QED BY <1>10, <3>2 DEF FirstLive, IsFirst
  <2>1. h \in DOMAIN levels
    BY <1>8
  <2>2. PICK i \in 1 .. Len(list) :
          /\ list[i] = levels[h].first
          /\ Key(list[i]) = h
          /\ \A j \in 1 .. i - 1 : Key(list[j]) # h
    BY <2>1 DEF Inv, FirstLive, IsFirst
  \* The first order stays, at the position n.
  <2>3. CASE i # p
    <3>1. PICK n \in 1 .. Len(list') : old(n) = i
      BY <1>13, <2>3
    <3>2. list'[n] = list[i]
      BY <1>11, <3>1
    <3>3. ASSUME NEW j \in 1 .. n - 1 PROVE Key(list'[j]) # h
      <4>1. j \in 1 .. Len(list') /\ j < n
        BY <1>5, <1>7
      <4>2. old(j) < i /\ old(j) \in 1 .. Len(list) /\ list'[j] = list[old(j)]
        BY <1>11, <1>12, <3>1, <4>1
      <4>3. old(j) \in 1 .. i - 1
        BY <1>5, <4>2
      <4> QED BY <2>2, <4>2, <4>3
    <3>4. levels'[h].first = levels[h].first
      <4>1. CASE h # k
        BY <1>8, <2>1, <4>1
      <4>2. CASE h = k
        <5>1. ~ last
          BY <1>8, <4>2
        <5>2. levels[k].first # o
          BY <1>2, <2>2, <2>3, <4>2 DEF Inv, Sorted
        <5> QED BY <1>8, <4>2, <5>1, <5>2
      <4> QED BY <4>1, <4>2
    <3> QED BY <2>2, <3>2, <3>3, <3>4
  \* The first order goes, and the next one has its position.
  <2>4. CASE i = p
    <3>1. h = k /\ levels[k].first = o
      BY <1>2, <2>2, <2>4 DEF k
    <3>2. ~ last
      BY <1>8, <3>1
    <3>3. /\ p + 1 \in 1 .. Len(list) /\ Key(list[p + 1]) = k
          /\ levels'[k].first = list[p + 1]
      BY <1>2, <1>8, <3>1, <3>2
    <3>4. p \in 1 .. Len(list') /\ list'[p] = list[p + 1]
      BY <1>5, <1>7, <3>3
    <3>5. ASSUME NEW j \in 1 .. p - 1 PROVE Key(list'[j]) # h
      <4>1. list'[j] = list[j]
        BY <1>5, <1>7
      <4> QED BY <2>2, <2>4, <4>1
    <3> QED BY <3>1, <3>3, <3>4, <3>5
  <2> QED BY <2>3, <2>4
<1> QED BY <1>9, <1>14, <1>16, <1>17, <1>18, <1>19 DEF Inv

----------------------------------------------------------------------------
(* The operations, each an insertion, a removal, or neither.                *)

\* Order and level may change their lots.
LEMMA FieldsStep ==
  ASSUME Inv, NEW o \in Orders,
         NEW rec \in OrderRec, rec.ticks = order[o].ticks, rec.level = order[o].level,
         order' = [order EXCEPT ![o] = rec],
         levels' \in [DOMAIN levels -> LevelRec],
         \A k \in DOMAIN levels :
           levels'[k].first = levels[k].first /\ levels'[k].count = levels[k].count,
         list' = list,
         side' = side
  PROVE  Inv'
<1>1. /\ order' \in [Orders -> OrderRec]
      /\ \A x \in Orders : order'[x].ticks = order[x].ticks /\ order'[x].level = order[x].level
  BY DEF Inv, TypeOK
<1>2. \A i \in 1 .. Len(list) : Key(list[i])' = Key(list[i]) /\ Level(list[i])' = Level(list[i])
  <2> SUFFICES ASSUME NEW i \in 1 .. Len(list)
               PROVE Key(list[i])' = Key(list[i]) /\ Level(list[i])' = Level(list[i])
    OBVIOUS
  <2>1. list[i] \in Orders
    BY DEF Inv, TypeOK
  <2> QED BY <1>1, <2>1 DEF Key, ComposeKey, Level
<1>3. DOMAIN levels' = DOMAIN levels
  OBVIOUS
<1>4. TypeOK'
  BY <1>1, <1>3 DEF Inv, TypeOK
<1>5. Sorted'
  BY <1>2 DEF Inv, Sorted
<1>6. Pointing'
  <2>1. \A x \in Orders : Level(x)' = Level(x)
    BY <1>1 DEF Level
  <2> QED BY <1>2, <2>1 DEF Inv, Pointing
<1>7. Covered'
  BY <1>2, <1>3 DEF Inv, Covered
<1>8. Counted'
  <2>1. \A k : Holds(k)' = Holds(k)
    BY <1>1 DEF Holds, Level
  <2> QED BY <1>3, <2>1 DEF Inv, Counted
<1>9. FirstLive'
  <2> SUFFICES ASSUME NEW k \in DOMAIN levels PROVE IsFirst(levels[k].first, k)'
    BY <1>3 DEF FirstLive
  <2>1. PICK i \in 1 .. Len(list) :
          /\ list[i] = levels[k].first
          /\ Key(list[i]) = k
          /\ \A j \in 1 .. i - 1 : Key(list[j]) # k
    BY DEF Inv, FirstLive, IsFirst
  <2>2. Len(list) \in Nat
    BY DEF Inv, TypeOK
  <2>3. \A j \in 1 .. i - 1 : j \in 1 .. Len(list)
    BY <2>2
  <2> QED BY <1>2, <2>1, <2>3 DEF IsFirst
<1> QED BY <1>4, <1>5, <1>6, <1>7, <1>8, <1>9 DEF Inv

----------------------------------------------------------------------------
(* What an operation does is one of four things.                           *)

\* The quantities of an order, as the operations keep them: an order that rests has
\* a residual.
InSize(rec) == rec.lots \in 1 .. MaxLots /\ rec.resd <= rec.lots

Sized == \A o \in Orders : InSize(order[o]) /\ (Level(o) # NoLevel => order[o].resd > 0)

Inserts(o, rec) ==
  /\ Level(o) = NoLevel /\ rec.ticks = order[o].ticks /\ rec.level = Key(o)
  /\ InSize(rec) /\ rec.resd > 0
  /\ levels' = InsertLevel(o, rec.resd) /\ list' = InsertList(o)
  /\ order' = [order EXCEPT ![o] = rec]

Detaches(o, rec) ==
  /\ Level(o) # NoLevel /\ rec.ticks = order[o].ticks /\ InSize(rec)
  /\ Detach(o, rec)

Shrinks(o, delta, rec) ==
  /\ Level(o) # NoLevel /\ rec.ticks = order[o].ticks /\ rec.level = order[o].level
  /\ InSize(rec) /\ delta < order[o].resd /\ rec.resd = order[o].resd - delta
  /\ levels' = [levels EXCEPT ![Level(o)].resd = @ - delta] /\ list' = list
  /\ order' = [order EXCEPT ![o] = rec]

Keeps(o, rec) ==
  /\ Level(o) = NoLevel /\ rec.ticks = order[o].ticks /\ rec.level = order[o].level
  /\ InSize(rec)
  /\ levels' = levels /\ list' = list
  /\ order' = [order EXCEPT ![o] = rec]

Does(o, rec) ==
  \/ Inserts(o, rec)
  \/ Detaches(o, rec)
  \/ \E delta \in 0 .. MaxLots : Shrinks(o, delta, rec)
  \/ Keeps(o, rec)

\* Two fields of an order may change at a time.
WithResdExec(rec, resd, exec) == [rec EXCEPT !.resd = resd, !.exec = exec]
WithLotsResd(rec, lots, resd) == [rec EXCEPT !.lots = lots, !.resd = resd]

LEMMA TwoFields ==
  ASSUME NEW rec \in OrderRec, NEW n \in Int, NEW m \in Int
  PROVE  /\ WithResdExec(rec, n, m) \in OrderRec
         /\ WithResdExec(rec, n, m).ticks = rec.ticks
         /\ WithResdExec(rec, n, m).level = rec.level
         /\ WithResdExec(rec, n, m).lots = rec.lots
         /\ WithResdExec(rec, n, m).resd = n
         /\ WithLotsResd(rec, n, m) \in OrderRec
         /\ WithLotsResd(rec, n, m).ticks = rec.ticks
         /\ WithLotsResd(rec, n, m).level = rec.level
         /\ WithLotsResd(rec, n, m).lots = n
         /\ WithLotsResd(rec, n, m).resd = m
<1>1. WithResdExec(rec, n, m) \in OrderRec
  BY Zenon DEF OrderRec, WithResdExec
<1>2. WithLotsResd(rec, n, m) \in OrderRec
  BY Zenon DEF OrderRec, WithLotsResd
<1>3. /\ WithResdExec(rec, n, m).ticks = rec.ticks
      /\ WithResdExec(rec, n, m).level = rec.level
      /\ WithResdExec(rec, n, m).lots = rec.lots
      /\ WithResdExec(rec, n, m).resd = n
  BY DEF OrderRec, WithResdExec
<1>4. /\ WithLotsResd(rec, n, m).ticks = rec.ticks
      /\ WithLotsResd(rec, n, m).level = rec.level
      /\ WithLotsResd(rec, n, m).lots = n
      /\ WithLotsResd(rec, n, m).resd = m
  BY DEF OrderRec, WithLotsResd
<1> QED BY <1>1, <1>2, <1>3, <1>4

\* An order that is reduced shrinks or leaves.
LEMMA Reduces ==
  ASSUME NEW o \in Orders, NEW rec \in OrderRec, NEW delta \in 0 .. MaxLots,
         Level(o) # NoLevel, rec.ticks = order[o].ticks, rec.level = order[o].level,
         InSize(rec), rec.resd = order[o].resd - delta, ReduceLevel(o, delta, rec)
  PROVE  Does(o, rec)
<1>1. CASE delta < order[o].resd
  <2>1. Shrinks(o, delta, rec)
    BY <1>1 DEF ReduceLevel, Shrinks
  <2> QED BY <2>1 DEF Does
<1>2. CASE ~ (delta < order[o].resd)
  <2>1. Detaches(o, rec)
    BY <1>2 DEF ReduceLevel, Detaches
  <2> QED BY <2>1 DEF Does
<1> QED BY <1>1, <1>2

LEMMA NextDoes ==
  ASSUME Inv, Sized, Next
  PROVE  side' = side /\ \E o \in Orders, rec \in OrderRec : Does(o, rec)
<1>0. ASSUME NEW o \in Orders
      PROVE  /\ order[o] \in OrderRec /\ InSize(order[o]) /\ Key(o) \in Int
             /\ order[o].lots \in 1 .. MaxLots /\ order[o].resd \in Int /\ order[o].exec \in Int
             /\ order[o].resd <= order[o].lots
  <2>1. order[o] \in OrderRec /\ InSize(order[o]) /\ Key(o) \in Int
    BY KeyType DEF Inv, TypeOK, Sized
  <2> QED BY <2>1 DEF OrderRec, InSize
<1>1. ASSUME NEW o \in Orders, InsertOrder(o)
      PROVE  side' = side /\ \E rec \in OrderRec : Does(o, rec)
  <2> DEFINE rec == [order[o] EXCEPT !.level = Key(o)]
  <2>1. /\ rec \in OrderRec /\ rec.ticks = order[o].ticks /\ rec.level = Key(o)
        /\ rec.lots = order[o].lots /\ rec.resd = order[o].resd
    BY <1>0 DEF OrderRec
  <2>2. /\ order' = [order EXCEPT ![o] = rec]
        /\ levels' = InsertLevel(o, order[o].resd) /\ order[o].resd > 0
        /\ list' = InsertList(o) /\ side' = side /\ Level(o) = NoLevel
    BY <1>1 DEF InsertOrder, Insertable, NewPointer, Key
  <2> HIDE DEF rec
  <2>3. Inserts(o, rec)
    BY <1>0, <2>1, <2>2 DEF Inserts, InSize
  <2> QED BY <2>1, <2>2, <2>3 DEF Does
<1>2. ASSUME NEW o \in Orders, CreateOrder(o)
      PROVE  side' = side /\ \E rec \in OrderRec : Does(o, rec)
  <2> DEFINE created == [order[o] EXCEPT !.resd = order[o].lots, !.exec = 0]
             rec     == [created EXCEPT !.level = Key(o)]
  <2>1. /\ created \in OrderRec /\ created.resd = order[o].lots
        /\ created.lots = order[o].lots
        /\ created.ticks = order[o].ticks /\ created.level = order[o].level
    <3>1. PICK n \in Int, m \in Int : n = order[o].lots /\ m = 0
      BY <1>0
    <3>2. created = WithResdExec(order[o], n, m)
      BY <3>1 DEF WithResdExec
    <3>3. order[o] \in OrderRec
      BY <1>0
    <3> HIDE DEF created
    <3> QED BY <3>1, <3>2, <3>3, TwoFields
  <2> HIDE DEF created
  <2>2. /\ rec \in OrderRec /\ rec.ticks = created.ticks /\ rec.level = Key(o)
        /\ rec.lots = created.lots /\ rec.resd = created.resd
    BY <1>0, <2>1 DEF OrderRec
  <2>3. Level(o) = NoLevel /\ side' = side
    BY <1>2 DEF CreateOrder
  <2>4. \/ /\ levels' = InsertLevel(o, created.resd)
           /\ list' = InsertList(o)
           /\ order' = [order EXCEPT ![o] = rec]
        \/ order' = [order EXCEPT ![o] = created] /\ list' = list /\ levels' = levels
    BY <1>2 DEF CreateOrder, NewPointer, Key, created
  <2> HIDE DEF rec
  <2>5. order[o].lots > 0 /\ order[o].lots <= order[o].lots
    BY <1>0
  <2>6. Inserts(o, rec) \/ Keeps(o, created)
    BY <1>0, <2>1, <2>2, <2>3, <2>4, <2>5 DEF Inserts, Keeps, InSize
  <2> QED BY <2>1, <2>2, <2>3, <2>6 DEF Does
<1>3. ASSUME NEW o \in Orders, RemoveOrder(o)
      PROVE  side' = side /\ \E rec \in OrderRec : Does(o, rec)
  <2>1. Detaches(o, order[o]) \/ Keeps(o, order[o])
    BY <1>0, <1>3 DEF RemoveOrder, OnlyFields, Detaches, Keeps
  <2>2. side' = side
    BY <1>3 DEF RemoveOrder
  <2> QED BY <1>0, <2>1, <2>2 DEF Does
<1>4. ASSUME NEW o \in Orders, CancelOrder(o)
      PROVE  side' = side /\ \E rec \in OrderRec : Does(o, rec)
  <2> DEFINE rec == [order[o] EXCEPT !.resd = 0]
  <2>1. /\ rec \in OrderRec /\ rec.ticks = order[o].ticks /\ rec.level = order[o].level
        /\ rec.lots = order[o].lots /\ rec.resd = 0
    BY <1>0 DEF OrderRec
  <2>2. side' = side /\ ((Level(o) # NoLevel /\ Detach(o, rec)) \/ OnlyFields(o, rec))
    BY <1>4 DEF CancelOrder
  <2> HIDE DEF rec
  <2>3. InSize(rec)
    BY <1>0, <2>1 DEF InSize
  <2>4. Detaches(o, rec) \/ Keeps(o, rec)
    BY <2>1, <2>2, <2>3 DEF OnlyFields, Detaches, Keeps
  <2> QED BY <2>1, <2>2, <2>4 DEF Does
<1>5. ASSUME NEW o \in Orders, NEW lots \in 1 .. MaxLots, ReviseOrder(o, lots)
      PROVE  side' = side /\ \E rec \in OrderRec : Does(o, rec)
  <2> DEFINE delta == order[o].lots - lots
             rec   == [order[o] EXCEPT !.lots = lots, !.resd = @ - delta]
  <2>1. delta \in 0 .. MaxLots
    <3>1. lots <= order[o].lots
      BY <1>5 DEF ReviseOrder
    <3> QED BY <1>0, <3>1
  <2>2. /\ rec \in OrderRec /\ rec.ticks = order[o].ticks /\ rec.level = order[o].level
        /\ rec.lots = lots /\ rec.resd = order[o].resd - delta
    <3>1. rec = [order[o] EXCEPT !.lots = lots, !.resd = order[o].resd - delta]
      OBVIOUS
    <3>2. PICK n \in Int : n = order[o].resd - delta
      <4> HIDE DEF delta
      <4> QED BY <1>0, <2>1
    <3>3. rec = WithLotsResd(order[o], lots, n)
      BY <3>1, <3>2 DEF WithLotsResd
    <3>4. lots \in Int
      OBVIOUS
    <3> HIDE DEF delta, rec
    <3> QED BY <1>0, <3>2, <3>3, <3>4, TwoFields
  <2>3. InSize(rec)
    <3>1. order[o].resd - delta <= lots
      BY <1>0
    <3> HIDE DEF rec, delta
    <3> QED BY <2>2, <3>1 DEF InSize
  <2>4. \/ Level(o) # NoLevel /\ ReduceLevel(o, delta, rec)
        \/ OnlyFields(o, rec)
    BY <1>5 DEF ReviseOrder
  <2>5. side' = side
    BY <1>5 DEF ReviseOrder
  <2> HIDE DEF delta, rec
  <2>6. Does(o, rec)
    <3>1. CASE Level(o) # NoLevel /\ ReduceLevel(o, delta, rec)
      BY <2>1, <2>2, <2>3, <3>1, Reduces
    <3>2. CASE OnlyFields(o, rec)
      BY <2>2, <2>3, <3>2 DEF OnlyFields, Does, Keeps
    <3> QED BY <2>4, <3>1, <3>2
  <2> QED BY <2>2, <2>5, <2>6
<1>6. ASSUME NEW o \in Orders, NEW lots \in 1 .. MaxLots, TakeOrder(o, lots)
      PROVE  side' = side /\ \E rec \in OrderRec : Does(o, rec)
  <2> DEFINE rec == [order[o] EXCEPT !.resd = @ - lots, !.exec = @ + lots]
  <2>1. /\ rec \in OrderRec /\ rec.ticks = order[o].ticks /\ rec.level = order[o].level
        /\ rec.lots = order[o].lots /\ rec.resd = order[o].resd - lots
    <3>1. rec = [order[o] EXCEPT !.resd = order[o].resd - lots, !.exec = order[o].exec + lots]
      OBVIOUS
    <3>2. PICK n \in Int, m \in Int : n = order[o].resd - lots /\ m = order[o].exec + lots
      BY <1>0
    <3>3. rec = WithResdExec(order[o], n, m)
      BY <3>1, <3>2 DEF WithResdExec
    <3> HIDE DEF rec
    <3> QED BY <1>0, <3>2, <3>3, TwoFields
  <2>2. \/ Level(o) # NoLevel /\ ReduceLevel(o, lots, rec)
        \/ OnlyFields(o, rec)
    BY <1>6 DEF TakeOrder
  <2>3. side' = side
    BY <1>6 DEF TakeOrder
  <2> HIDE DEF rec
  <2>4. InSize(rec)
    <3>1. order[o].resd - lots <= order[o].lots
      BY <1>0
    <3> QED BY <1>0, <2>1, <3>1 DEF InSize
  <2>5. Does(o, rec)
    <3>0. lots \in 0 .. MaxLots
      OBVIOUS
    <3>1. CASE Level(o) # NoLevel /\ ReduceLevel(o, lots, rec)
      BY <2>1, <2>4, <3>0, <3>1, Reduces
    <3>2. CASE OnlyFields(o, rec)
      BY <2>1, <2>4, <3>2 DEF OnlyFields, Does, Keeps
    <3> QED BY <2>2, <3>1, <3>2
  <2> QED BY <2>1, <2>3, <2>5
<1> QED BY <1>1, <1>2, <1>3, <1>4, <1>5, <1>6 DEF Next

\* Each of them keeps the invariant.
LEMMA ShrinkStep ==
  ASSUME Inv, NEW o \in Orders, NEW rec \in OrderRec, NEW delta \in 0 .. MaxLots,
         Shrinks(o, delta, rec), side' = side
  PROVE  Inv'
<1>1. /\ levels' = [levels EXCEPT ![Level(o)].resd = @ - delta] /\ Level(o) # NoLevel
      /\ order' = [order EXCEPT ![o] = rec] /\ list' = list
      /\ rec.ticks = order[o].ticks /\ rec.level = order[o].level
  BY DEF Shrinks
<1>2. Level(o) \in DOMAIN levels /\ \A k \in DOMAIN levels : levels[k] \in LevelRec
  BY <1>1, NextOfLevel DEF Inv, TypeOK
<1>3. PICK n \in Int : n = levels[Level(o)].resd - delta
  BY <1>2 DEF LevelRec
<1>4. levels' = [levels EXCEPT ![Level(o)] = [levels[Level(o)] EXCEPT !.resd = n]]
  BY <1>1, <1>3
<1>5. ASSUME NEW level \in LevelRec
      PROVE  /\ [level EXCEPT !.resd = n] \in LevelRec
             /\ [level EXCEPT !.resd = n].first = level.first
             /\ [level EXCEPT !.resd = n].count = level.count
  BY DEF LevelRec
<1>6. levels' \in [DOMAIN levels -> LevelRec]
  BY <1>2, <1>4, <1>5 DEF Inv, TypeOK
<1>7. \A k \in DOMAIN levels :
        levels'[k].first = levels[k].first /\ levels'[k].count = levels[k].count
  BY <1>2, <1>4, <1>5
<1> QED BY <1>1, <1>6, <1>7, FieldsStep

LEMMA DoesInv ==
  ASSUME Inv, Sized, NEW o \in Orders, NEW rec \in OrderRec, Does(o, rec), side' = side
  PROVE  Inv' /\ Sized'
<1>1. Inv'
  <2>0. rec.resd \in Int
    BY DEF OrderRec
  <2>1. CASE Inserts(o, rec)
    BY <2>0, <2>1, InsertStep DEF Inserts
  <2>2. CASE Detaches(o, rec)
    BY <2>2, DetachStep DEF Detaches
  <2>3. ASSUME NEW delta \in 0 .. MaxLots, Shrinks(o, delta, rec) PROVE Inv'
    BY <2>3, ShrinkStep
  <2>4. CASE Keeps(o, rec)
    <3>1. levels \in [DOMAIN levels -> LevelRec]
      BY DEF Inv, TypeOK
    <3> QED BY <2>4, <3>1, FieldsStep DEF Keeps
  <2> QED BY <2>1, <2>2, <2>3, <2>4 DEF Does
<1>2. Sized'
  <2>0. \A x \in Orders : order[x] \in OrderRec
    BY DEF Inv, TypeOK
  <2>1. PICK new \in OrderRec :
          /\ order' = [order EXCEPT ![o] = new]
          /\ new.lots = rec.lots /\ new.resd = rec.resd
          /\ new.level # NoLevel => rec.resd > 0
    <3>1. CASE Inserts(o, rec)
      BY <3>1 DEF Inserts
    <3>2. CASE Detaches(o, rec)
      <4> DEFINE new == [rec EXCEPT !.level = NoLevel]
      <4>1. new \in OrderRec /\ new.lots = rec.lots /\ new.resd = rec.resd /\ new.level = NoLevel
        BY DEF OrderRec
      <4>2. order' = [order EXCEPT ![o] = new]
        BY <3>2 DEF Detaches, Detach
      <4> HIDE DEF new
      <4> QED BY <4>1, <4>2
    <3>3. ASSUME NEW delta \in 0 .. MaxLots, Shrinks(o, delta, rec)
          PROVE  order' = [order EXCEPT ![o] = rec] /\ rec.resd > 0
      <4>1. order[o].resd \in Int
        BY <2>0 DEF OrderRec
      <4> QED BY <3>3, <4>1 DEF Shrinks
    <3>4. CASE Keeps(o, rec)
      BY <3>4 DEF Keeps, Level
    <3> QED BY <3>1, <3>2, <3>3, <3>4 DEF Does
  <2>2. InSize(rec)
    BY DEF Does, Inserts, Detaches, Shrinks, Keeps
  <2>3. order'[o] = new /\ \A x \in Orders \ {o} : order'[x] = order[x]
    BY <2>1 DEF Inv, TypeOK
  <2> QED BY <2>1, <2>2, <2>3 DEF Sized, InSize, Level
<1> QED BY <1>1, <1>2

LEMMA InitSized == Init => Sized
<1> SUFFICES ASSUME Init, NEW o \in Orders PROVE InSize(order[o]) /\ Level(o) = NoLevel
  BY DEF Sized
<1>1. PICK t \in Ticks, n \in 1 .. MaxLots : order[o] = NewOrder(t, n)
  BY DEF Init
<1> QED BY <1>1 DEF NewOrder, InSize, Level

LEMMA NextInv == Inv /\ Sized /\ [Next]_vars => Inv' /\ Sized'
<1> SUFFICES ASSUME Inv, Sized, [Next]_vars PROVE Inv' /\ Sized'
  OBVIOUS
<1>1. CASE UNCHANGED vars
  <2>1. side' = side /\ order' = order /\ list' = list /\ levels' = levels
    BY <1>1 DEF vars
  <2>2. (\A o : Key(o)' = Key(o) /\ Level(o)' = Level(o)) /\ \A k : Holds(k)' = Holds(k)
    BY <2>1 DEF Key, ComposeKey, Level, Holds
  <2>3. TypeOK'
    BY <2>1 DEF Inv, TypeOK
  <2>4. Sorted' /\ Pointing' /\ Covered'
    BY <2>1 DEF Inv, Sorted, Pointing, Covered, Key, ComposeKey, Level
  <2>5. Counted'
    BY <2>1, <2>2 DEF Inv, Counted
  <2>6. FirstLive'
    BY <2>1 DEF Inv, FirstLive, IsFirst, Key, ComposeKey
  <2>7. Sized'
    BY <2>1 DEF Sized, Level
  <2> QED BY <2>3, <2>4, <2>5, <2>6, <2>7 DEF Inv
<1>2. CASE Next
  <2>1. side' = side /\ \E o \in Orders, rec \in OrderRec : Does(o, rec)
    BY <1>2, NextDoes
  <2> QED BY <2>1, DoesInv
<1> QED BY <1>1, <1>2

----------------------------------------------------------------------------
(* The queue of a key, which is part of the list, and what the operations   *)
(* do to it.                                                               *)

OfKey(k) == {x \in Orders : Key(x) = k}

LEMMA QueueType ==
  ASSUME Inv, NEW k
  PROVE  /\ AtKey(k) = Only(list, OfKey(k))
         /\ AtKey(k) \in Seq(Orders)
<1>1. AtKey(k) = Only(list, OfKey(k))
  BY DEF AtKey, OfKey, Key
<1> QED BY <1>1, OnlyIn DEF Inv, TypeOK

\* An order that is not in the list is in no queue, and an order is in no queue
\* but that of its key.
LEMMA QueueLacks ==
  ASSUME Inv, NEW o \in Orders, NEW k, Level(o) = NoLevel \/ k # Key(o)
  PROVE  AtKey(k) \in Seq(Orders \ {o})
<1>1. /\ AtKey(k) = Only(list, OfKey(k)) /\ list \in Seq(Orders) /\ Len(list) \in Nat
      /\ \A i \in 1 .. Len(list) : list[i] \in Orders
  BY QueueType DEF Inv, TypeOK
<1>2. CASE Level(o) = NoLevel
  <2>1. ASSUME NEW i \in 1 .. Len(list) PROVE list[i] # o
    <3>1. list[i] \in Orders /\ Level(list[i]) = Key(list[i])
      BY <1>1 DEF Inv, Pointing
    <3>2. Key(list[i]) # NoLevel
      BY <3>1, KeyType DEF Inv
    <3> QED BY <1>2, <3>1, <3>2
  <2>2. list \in Seq(Orders \ {o})
    BY <1>1, <2>1, SeqWithout
  <2> QED BY <1>1, <2>2, OnlyIn
<1>3. CASE k # Key(o)
  <2>1. Only(list, OfKey(k)) \in Seq(Orders \cap OfKey(k))
    BY <1>1, OnlyType
  <2>2. Orders \cap OfKey(k) \subseteq Orders \ {o}
    BY <1>3 DEF OfKey
  <2> QED BY <1>1, <2>1, <2>2
<1> QED BY <1>2, <1>3

\* A key that has no level has no queue; one that has a level has one.
LEMMA QueueEmpty ==
  ASSUME Inv, NEW k, k \notin DOMAIN levels
  PROVE  AtKey(k) = << >>
<1>1. ASSUME NEW i \in 1 .. Len(list) PROVE list[i] \notin OfKey(k)
  BY DEF Inv, Covered, OfKey
<1>2. list \in Seq(Orders)
  BY DEF Inv, TypeOK
<1> QED BY <1>1, <1>2, QueueType, OnlyOthers

\* The keys of the orders stay as they are.
LEMMA SameKeys ==
  ASSUME Inv, NEW o \in Orders, NEW rec, rec.ticks = order[o].ticks,
         order' = [order EXCEPT ![o] = rec], side' = side, NEW k
  PROVE  AtKey(k)' = Only(list', OfKey(k))
<1>1. \A x \in Orders : order'[x].ticks = order[x].ticks
  BY DEF Inv, TypeOK
<1>2. {x \in Orders : ComposeKey(order[x].ticks) = k}' = OfKey(k)
  BY <1>1 DEF OfKey, Key, ComposeKey
<1> QED BY <1>2 DEF AtKey

\* An order goes to the back of the queue of its key, and no other changes.
LEMMA InsertQueue ==
  ASSUME Inv, NEW o \in Orders, NEW rec, rec.ticks = order[o].ticks,
         order' = [order EXCEPT ![o] = rec], side' = side, list' = InsertList(o), NEW k
  PROVE  AtKey(k)' = IF k = Key(o) THEN Append(AtKey(k), o) ELSE AtKey(k)
<1>1. PICK p \in 1 .. Len(list) + 1 :
        /\ Inserted(list, list', p, o)
        /\ \A i \in p .. Len(list) : Key(list[i]) > Key(o)
  BY WhereInserted
<1>2. list' \in Seq(Orders) /\ list \in Seq(Orders)
  BY WhereInserted DEF Inv, TypeOK
<1>3. PICK a \in Seq(Orders), b \in Seq(Orders) : Surround(list, list', p, o, a, b)
  BY <1>1, <1>2, InsertedBetween
<1>4. /\ AtKey(k) = Only(a, OfKey(k)) \o Only(b, OfKey(k))
      /\ o \in OfKey(k) => AtKey(k)' = Append(Only(a, OfKey(k)), o) \o Only(b, OfKey(k))
      /\ o \notin OfKey(k) => AtKey(k)' = AtKey(k)
  <2>1. Adds(list, list', o, a, b, OfKey(k))
    BY <1>2, <1>3, OnlySurround
  <2>2. AtKey(k) = Only(list, OfKey(k)) /\ AtKey(k)' = Only(list', OfKey(k))
    BY QueueType, SameKeys
  <2> QED BY <2>1, <2>2 DEF Adds
<1>5. o \in OfKey(k) <=> k = Key(o)
  BY DEF OfKey
<1>6. CASE k = Key(o)
  <2>1. ASSUME NEW i \in 1 .. Len(b) PROVE b[i] \notin OfKey(k)
    <3>1. Len(list) \in Nat /\ Len(b) = Len(list) - (p - 1) /\ b[i] = list[(p - 1) + i]
      BY <1>2, <1>3 DEF Surround, Splits
    <3>2. (p - 1) + i \in p .. Len(list)
      BY <3>1
    <3>3. Key(b[i]) > Key(o)
      BY <1>1, <3>1, <3>2
    <3>4. Key(o) \in Int
      BY KeyType DEF Inv
    <3> QED BY <1>6, <3>3, <3>4 DEF OfKey
  <2>2. Only(b, OfKey(k)) = << >>
    BY <2>1, OnlyOthers
  <2>3. Only(a, OfKey(k)) \in Seq(Orders)
    BY OnlyIn
  <2>4. Append(Only(a, OfKey(k)), o) \in Seq(Orders)
    BY <2>3, AppendProperties
  <2>5. /\ Only(a, OfKey(k)) \o << >> = Only(a, OfKey(k))
        /\ Append(Only(a, OfKey(k)), o) \o << >> = Append(Only(a, OfKey(k)), o)
    BY <2>3, <2>4, ConcatEmptySeq
  <2> QED BY <1>4, <1>5, <1>6, <2>2, <2>5
<1> QED BY <1>4, <1>5, <1>6

\* An order in the list has a place in the queue of its key, and when it is taken
\* out of the list that queue closes around it, and no other changes.
Queued(o, u, w) ==
  /\ AtKey(Key(o)) = Append(u, o) \o w
  /\ Only(RemoveList(o), OfKey(Key(o))) = u \o w

LEMMA RemoveQueue ==
  ASSUME Inv, NEW o \in Orders, Level(o) # NoLevel
  PROVE  /\ \E u \in Seq(Orders \ {o}), w \in Seq(Orders \ {o}) : Queued(o, u, w)
         /\ \A k : k # Key(o) => Only(RemoveList(o), OfKey(k)) = AtKey(k)
<1>1. PICK p \in 1 .. Len(list) : list[p] = o /\ Position(o) = p
  BY NextOfLevel
<1>2. list \in Seq(Orders) /\ Len(list) \in Nat
  BY DEF Inv, TypeOK
<1> DEFINE s == RemoveAt(list, p)
<1>3. /\ s \in Seq(Orders) /\ Len(s) = Len(list) - 1
      /\ \A i \in 1 .. Len(list) - 1 : s[i] = IF i < p THEN list[i] ELSE list[i + 1]
  BY <1>2, RemoveAtRemoves
<1>4. RemoveList(o) = s
  BY <1>1 DEF RemoveList
<1>5. \E a \in Seq(Orders), b \in Seq(Orders) : Surround(s, list, p, o, a, b)
  BY <1>1, <1>2, RemovedBetween
<1> HIDE DEF s
<1>6. PICK a \in Seq(Orders), b \in Seq(Orders) : Surround(s, list, p, o, a, b)
  BY <1>5
<1>7. ASSUME NEW k
      PROVE  /\ Only(s, OfKey(k)) = Only(a, OfKey(k)) \o Only(b, OfKey(k))
             /\ o \in OfKey(k) => AtKey(k) = Append(Only(a, OfKey(k)), o) \o Only(b, OfKey(k))
             /\ o \notin OfKey(k) => AtKey(k) = Only(s, OfKey(k))
  <2>1. Adds(s, list, o, a, b, OfKey(k))
    BY <1>2, <1>3, <1>6, OnlySurround
  <2>2. AtKey(k) = Only(list, OfKey(k))
    BY QueueType
  <2> QED BY <2>1, <2>2 DEF Adds
<1>8. \A k : o \in OfKey(k) <=> k = Key(o)
  BY DEF OfKey
<1>9. \A i \in 1 .. Len(s) : s[i] \in Orders \ {o}
  <2> SUFFICES ASSUME NEW i \in 1 .. Len(s) PROVE s[i] # o
    BY <1>3
  <2>1. PICK j \in 1 .. Len(list) : s[i] = list[j] /\ j # p
    <3>1. i \in 1 .. Len(list) - 1 /\ i \in 1 .. Len(list) /\ i + 1 \in 1 .. Len(list)
      BY <1>2, <1>3
    <3>2. CASE i < p
      BY <1>3, <3>1, <3>2
    <3>3. CASE ~ (i < p)
      BY <1>3, <3>1, <3>3
    <3> QED BY <3>2, <3>3
  <2> QED BY <1>1, <2>1 DEF Inv, Sorted
<1>10. a \in Seq(Orders \ {o})
  <2>1. ASSUME NEW i \in 1 .. Len(a) PROVE a[i] # o
    <3>1. a[i] = s[i] /\ Len(a) = p - 1 /\ i \in 1 .. Len(s)
      BY <1>2, <1>3, <1>6 DEF Surround, Splits
    <3> QED BY <1>9, <3>1
  <2> QED BY <2>1, SeqWithout
<1>11. b \in Seq(Orders \ {o})
  <2>1. ASSUME NEW i \in 1 .. Len(b) PROVE b[i] # o
    <3>1. b[i] = s[(p - 1) + i] /\ Len(b) = Len(s) - (p - 1)
      BY <1>6 DEF Surround, Splits
    <3>2. (p - 1) + i \in 1 .. Len(s)
      BY <1>2, <1>3, <3>1
    <3> QED BY <1>9, <3>1, <3>2
  <2> QED BY <2>1, SeqWithout
<1>12. Only(a, OfKey(Key(o))) \in Seq(Orders \ {o}) /\ Only(b, OfKey(Key(o))) \in Seq(Orders \ {o})
  BY <1>10, <1>11, OnlyIn
<1>13. Queued(o, Only(a, OfKey(Key(o))), Only(b, OfKey(Key(o))))
  BY <1>4, <1>7, <1>8 DEF Queued
<1> QED BY <1>4, <1>7, <1>8, <1>12, <1>13

----------------------------------------------------------------------------
(* A level is the sum of its queue.                                        *)

Aggregated ==
  \A k \in DOMAIN levels :
    /\ k = ComposeKey(levels[k].ticks)
    /\ levels[k].count = Len(AtKey(k))
    /\ levels[k].resd = Total(order, AtKey(k))

LEMMA QueueSums ==
  ASSUME Inv, NEW k
  PROVE  /\ AtKey(k) \in Seq(Orders) /\ Len(AtKey(k)) \in Nat
         /\ HaveResd(order, Orders) /\ Total(order, AtKey(k)) \in Int
<1>1. HaveResd(order, Orders)
  BY DEF HaveResd, Inv, TypeOK, OrderRec
<1>2. AtKey(k) \in Seq(Orders)
  BY QueueType
<1> QED BY <1>1, <1>2, TotalType, LenProperties

\* A change of one order is no concern of the others.
LEMMA SumElsewhere ==
  ASSUME Inv, NEW o \in Orders, NEW rec, order' = [order EXCEPT ![o] = rec],
         NEW s \in Seq(Orders \ {o})
  PROVE  Total(order', s) = Total(order, s)
<1>1. HaveResd(order, Orders \ {o})
  BY DEF HaveResd, Inv, TypeOK, OrderRec
<1>2. SameResd(order', order, Orders \ {o})
  BY DEF SameResd, Inv, TypeOK
<1> QED BY <1>1, <1>2, TotalSame

LEMMA HaveNewResd ==
  ASSUME Inv, NEW o \in Orders, NEW rec \in OrderRec, order' = [order EXCEPT ![o] = rec]
  PROVE  HaveResd(order', Orders) /\ order'[o] = rec
<1>1. order' \in [Orders -> OrderRec] /\ order'[o] = rec
  BY DEF Inv, TypeOK
<1> QED BY <1>1 DEF HaveResd, OrderRec

\* The levels of the keys that an operation leaves alone.
LEMMA SameAggregate ==
  ASSUME Inv, Aggregated, NEW o \in Orders, NEW rec, order' = [order EXCEPT ![o] = rec],
         side' = side, NEW k \in DOMAIN levels, levels'[k] = levels[k],
         AtKey(k)' = AtKey(k), Level(o) = NoLevel \/ k # Key(o)
  PROVE  /\ k = ComposeKey(levels[k].ticks)'
         /\ levels'[k].count = Len(AtKey(k)')
         /\ levels'[k].resd = Total(order', AtKey(k)')
<1>1. AtKey(k) \in Seq(Orders \ {o})
  BY QueueLacks
<1>2. Total(order', AtKey(k)) = Total(order, AtKey(k))
  BY <1>1, SumElsewhere
<1>3. ComposeKey(levels[k].ticks)' = ComposeKey(levels[k].ticks)
  BY DEF ComposeKey
<1> QED BY <1>2, <1>3 DEF Aggregated

LEMMA InsertAggregated ==
  ASSUME Inv, Aggregated, NEW o \in Orders, NEW rec \in OrderRec, Inserts(o, rec), side' = side
  PROVE  Aggregated'
<1>0. PICK key : key = Key(o)
  OBVIOUS
<1>1. /\ Level(o) = NoLevel /\ rec.ticks = order[o].ticks /\ rec.resd \in Int
      /\ levels' = InsertLevel(o, rec.resd) /\ list' = InsertList(o)
      /\ order' = [order EXCEPT ![o] = rec]
  BY DEF Inserts, OrderRec
<1>2. /\ DOMAIN levels' = DOMAIN levels \cup {key}
      /\ \A h \in DOMAIN levels \ {key} : levels'[h] = levels[h]
      /\ key \in DOMAIN levels =>
           /\ levels'[key].count = levels[key].count + 1
           /\ levels'[key].resd = levels[key].resd + rec.resd
           /\ levels'[key].ticks = levels[key].ticks
      /\ key \notin DOMAIN levels =>
           /\ levels'[key].count = 1 /\ levels'[key].resd = rec.resd
           /\ levels'[key].ticks = order[o].ticks
  <2>1. /\ InsertLevel(o, rec.resd) \in [DOMAIN levels \cup {Key(o)} -> LevelRec]
        /\ \A h \in DOMAIN levels \ {Key(o)} : InsertLevel(o, rec.resd)[h] = levels[h]
        /\ Key(o) \in DOMAIN levels =>
             /\ InsertLevel(o, rec.resd)[Key(o)].count = levels[Key(o)].count + 1
             /\ InsertLevel(o, rec.resd)[Key(o)].resd = levels[Key(o)].resd + rec.resd
             /\ InsertLevel(o, rec.resd)[Key(o)].ticks = levels[Key(o)].ticks
        /\ Key(o) \notin DOMAIN levels =>
             /\ InsertLevel(o, rec.resd)[Key(o)].count = 1
             /\ InsertLevel(o, rec.resd)[Key(o)].resd = rec.resd
             /\ InsertLevel(o, rec.resd)[Key(o)].ticks = order[o].ticks
    BY <1>1, InsertedLevel
  <2> QED BY <1>0, <1>1, <2>1
<1>3. \A k : AtKey(k)' = IF k = key THEN Append(AtKey(k), o) ELSE AtKey(k)
  BY <1>0, <1>1, InsertQueue
<1>4. ASSUME NEW k \in DOMAIN levels', k # key
      PROVE  /\ k = ComposeKey(levels[k].ticks)'
             /\ levels'[k].count = Len(AtKey(k)')
             /\ levels'[k].resd = Total(order', AtKey(k)')
  <2>1. k \in DOMAIN levels /\ levels'[k] = levels[k] /\ AtKey(k)' = AtKey(k)
    BY <1>2, <1>3, <1>4
  <2> QED BY <1>0, <1>1, <1>4, <2>1, SameAggregate
<1>5. /\ key = ComposeKey(levels[key].ticks)'
      /\ levels'[key].count = Len(AtKey(key)')
      /\ levels'[key].resd = Total(order', AtKey(key)')
  <2>1. PICK q \in Seq(Orders \ {o}) : q = AtKey(key)
    BY <1>1, QueueLacks
  <2>2. q \in Seq(Orders) /\ Len(q) \in Nat /\ Total(order, q) \in Int
    BY <2>1, QueueSums
  <2>3. Len(Append(q, o)) = Len(q) + 1
    BY <2>2, AppendProperties
  <2>4. Total(order', Append(q, o)) = Total(order, q) + rec.resd
    <3>0. HaveResd(order', Orders)
      BY <1>1, HaveNewResd
    <3>1. Total(order', Append(q, o)) = Total(order', q) + order'[o].resd
      BY <2>2, <3>0, TotalAppend
    <3>2. Total(order', q) = Total(order, q) /\ order'[o] = rec
      BY <1>1, SumElsewhere, HaveNewResd
    <3> QED BY <3>1, <3>2
  <2>5. AtKey(key)' = Append(q, o)
    BY <1>3, <2>1
  <2>6. CASE key \in DOMAIN levels
    <3>1. key = ComposeKey(levels[key].ticks) /\ levels[key].count = Len(q)
          /\ levels[key].resd = Total(order, q)
      BY <2>1, <2>6 DEF Aggregated
    <3>2. ComposeKey(levels[key].ticks)' = ComposeKey(levels[key].ticks)
      BY <1>2, <2>6 DEF ComposeKey
    <3> QED BY <1>2, <2>3, <2>4, <2>5, <2>6, <3>1, <3>2
  <2>7. CASE key \notin DOMAIN levels
    <3>1. q = << >>
      BY <2>1, <2>7, QueueEmpty
    <3>2. Len(q) = 0 /\ Total(order, q) = 0
      BY <3>1, TotalEmpty
    <3>3. ComposeKey(levels[key].ticks)' = key
      BY <1>0, <1>2, <2>7 DEF ComposeKey, Key
    <3>4. 0 + rec.resd = rec.resd
      BY <1>1
    <3> QED BY <1>2, <2>3, <2>4, <2>5, <2>7, <3>2, <3>3, <3>4
  <2> QED BY <2>6, <2>7
<1>6. ASSUME NEW k \in DOMAIN levels'
      PROVE  /\ k = ComposeKey(levels[k].ticks)'
             /\ levels'[k].count = Len(AtKey(k)')
             /\ levels'[k].resd = Total(order', AtKey(k)')
  BY <1>4, <1>5
<1> QED BY <1>6 DEF Aggregated

LEMMA DetachAggregated ==
  ASSUME Inv, Aggregated, NEW o \in Orders, NEW rec \in OrderRec, Detaches(o, rec), side' = side
  PROVE  Aggregated'
<1>0. PICK key : key = Key(o)
  OBVIOUS
<1> DEFINE gone == [rec EXCEPT !.level = NoLevel]
<1>1. /\ Level(o) # NoLevel /\ rec.ticks = order[o].ticks /\ Level(o) = key
      /\ key \in DOMAIN levels
      /\ levels' = AfterRemoval(o, key) /\ list' = RemoveList(o)
      /\ order' = [order EXCEPT ![o] = gone]
  BY <1>0, NextOfLevel DEF Detaches, Detach
<1>2. gone \in OrderRec /\ gone.ticks = order[o].ticks
  BY <1>1 DEF OrderRec
<1> HIDE DEF gone
<1>3. /\ \A k : k # key => AtKey(k)' = AtKey(k)
      /\ \E u \in Seq(Orders \ {o}), w \in Seq(Orders \ {o}) : Queued(o, u, w)
  BY <1>0, <1>1, <1>2, SameKeys, RemoveQueue
<1>4. /\ DOMAIN levels' \subseteq DOMAIN levels
      /\ \A h \in DOMAIN levels \ {key} : levels'[h] = levels[h]
      /\ key \in DOMAIN levels' =>
           /\ levels'[key].count = levels[key].count - 1
           /\ levels'[key].resd = levels[key].resd - order[o].resd
           /\ levels'[key].ticks = levels[key].ticks
  <2>1. CASE levels[key].count - 1 = 0
    <3>1. /\ AfterRemoval(o, key) \in [DOMAIN levels \ {key} -> LevelRec]
          /\ \A h \in DOMAIN levels \ {key} : AfterRemoval(o, key)[h] = levels[h]
      BY <1>0, <1>1, <2>1, RemovedLevel
    <3> QED BY <1>1, <3>1
  <2>2. CASE levels[key].count - 1 # 0
    <3>1. /\ AfterRemoval(o, key) \in [DOMAIN levels -> LevelRec]
          /\ \A h \in DOMAIN levels \ {key} : AfterRemoval(o, key)[h] = levels[h]
          /\ AfterRemoval(o, key)[key].count = levels[key].count - 1
          /\ AfterRemoval(o, key)[key].resd = levels[key].resd - order[o].resd
          /\ AfterRemoval(o, key)[key].ticks = levels[key].ticks
      BY <1>0, <1>1, <2>2, RemovedLevel
    <3> QED BY <1>1, <3>1
  <2> QED BY <2>1, <2>2
<1>5. ASSUME NEW k \in DOMAIN levels', k # key
      PROVE  /\ k = ComposeKey(levels[k].ticks)'
             /\ levels'[k].count = Len(AtKey(k)')
             /\ levels'[k].resd = Total(order', AtKey(k)')
  <2>1. k \in DOMAIN levels /\ levels'[k] = levels[k] /\ AtKey(k)' = AtKey(k)
    BY <1>3, <1>4, <1>5
  <2> QED BY <1>0, <1>1, <1>5, <2>1, SameAggregate
<1>6. ASSUME key \in DOMAIN levels'
      PROVE  /\ key = ComposeKey(levels[key].ticks)'
             /\ levels'[key].count = Len(AtKey(key)')
             /\ levels'[key].resd = Total(order', AtKey(key)')
  <2>1. PICK u \in Seq(Orders \ {o}), w \in Seq(Orders \ {o}) : Queued(o, u, w)
    BY <1>3
  <2>2. AtKey(key) = Append(u, o) \o w /\ AtKey(key)' = u \o w
    BY <1>0, <1>1, <1>2, <2>1, SameKeys DEF Queued
  <2>3. u \in Seq(Orders) /\ w \in Seq(Orders) /\ HaveResd(order, Orders)
    BY QueueSums
  <2>4. HaveResd(order', Orders)
    BY <1>1, <1>2, HaveNewResd
  <2>5. PICK n \in Int, m \in Nat :
          /\ n = Total(order, u) + Total(order, w) /\ m = Len(u) + Len(w)
    BY <2>3, TotalType, LenProperties
  <2>6. Total(order', u) = Total(order, u) /\ Total(order', w) = Total(order, w)
    BY <1>1, SumElsewhere
  <2>7. Total(order, AtKey(key)) = n + order[o].resd /\ Len(AtKey(key)) = m + 1
    BY <2>2, <2>3, <2>5, TotalAround
  <2>8. Total(order', AtKey(key)') = n /\ Len(AtKey(key)') = m
    BY <2>2, <2>3, <2>4, <2>5, <2>6, TotalAround
  <2>9. /\ key = ComposeKey(levels[key].ticks) /\ levels[key].count = m + 1
        /\ levels[key].resd = n + order[o].resd
    BY <1>1, <2>7 DEF Aggregated
  <2>10. order[o].resd \in Int /\ (n + order[o].resd) - order[o].resd = n /\ (m + 1) - 1 = m
    BY DEF Inv, TypeOK, OrderRec
  <2>11. ComposeKey(levels[key].ticks)' = ComposeKey(levels[key].ticks)
    BY <1>4, <1>6 DEF ComposeKey
  <2> QED BY <1>4, <1>6, <2>8, <2>9, <2>10, <2>11
<1>7. ASSUME NEW k \in DOMAIN levels'
      PROVE  /\ k = ComposeKey(levels[k].ticks)'
             /\ levels'[k].count = Len(AtKey(k)')
             /\ levels'[k].resd = Total(order', AtKey(k)')
  BY <1>5, <1>6
<1> QED BY <1>7 DEF Aggregated

\* An order that loses lots where it stands.
LEMMA ShrinkAggregated ==
  ASSUME Inv, Aggregated, NEW o \in Orders, NEW rec \in OrderRec, NEW delta \in 0 .. MaxLots,
         Shrinks(o, delta, rec), side' = side
  PROVE  Aggregated'
<1>0. PICK key : key = Key(o)
  OBVIOUS
<1>1. /\ Level(o) # NoLevel /\ Level(o) = key /\ key \in DOMAIN levels
      /\ rec.ticks = order[o].ticks /\ rec.resd = order[o].resd - delta
      /\ levels' = [levels EXCEPT ![key].resd = @ - delta] /\ list' = list
      /\ order' = [order EXCEPT ![o] = rec]
  BY <1>0, NextOfLevel DEF Shrinks
<1>2. /\ DOMAIN levels' = DOMAIN levels
      /\ \A h \in DOMAIN levels \ {key} : levels'[h] = levels[h]
      /\ levels'[key].count = levels[key].count
      /\ levels'[key].resd = levels[key].resd - delta
      /\ levels'[key].ticks = levels[key].ticks
  <2>1. PICK level \in LevelRec : level = levels[key]
    BY <1>1 DEF Inv, TypeOK
  <2>2. PICK n \in Int : n = level.resd - delta
    BY DEF LevelRec
  <2>3. levels' = [levels EXCEPT ![key] = [level EXCEPT !.resd = n]]
    BY <1>1, <2>1, <2>2
  <2>4. /\ [level EXCEPT !.resd = n].count = level.count
        /\ [level EXCEPT !.resd = n].resd = n
        /\ [level EXCEPT !.resd = n].ticks = level.ticks
    BY DEF LevelRec
  <2> QED BY <1>1, <2>1, <2>2, <2>3, <2>4 DEF Inv, TypeOK
<1>3. \A k : AtKey(k)' = AtKey(k)
  BY <1>1, SameKeys, QueueType
<1>4. ASSUME NEW k \in DOMAIN levels', k # key
      PROVE  /\ k = ComposeKey(levels[k].ticks)'
             /\ levels'[k].count = Len(AtKey(k)')
             /\ levels'[k].resd = Total(order', AtKey(k)')
  <2>1. k \in DOMAIN levels /\ levels'[k] = levels[k] /\ AtKey(k)' = AtKey(k)
    BY <1>2, <1>3, <1>4
  <2> QED BY <1>0, <1>1, <1>4, <2>1, SameAggregate
<1>5. /\ key = ComposeKey(levels[key].ticks)'
      /\ levels'[key].count = Len(AtKey(key)')
      /\ levels'[key].resd = Total(order', AtKey(key)')
  <2>1. PICK u \in Seq(Orders \ {o}), w \in Seq(Orders \ {o}) : Queued(o, u, w)
    BY <1>1, RemoveQueue
  <2>2. AtKey(key) = Append(u, o) \o w
    BY <1>0, <2>1 DEF Queued
  <2>3. u \in Seq(Orders) /\ w \in Seq(Orders) /\ HaveResd(order, Orders)
    BY QueueSums
  <2>4. HaveResd(order', Orders) /\ order'[o] = rec
    BY <1>1, HaveNewResd
  <2>5. PICK n \in Int : n = Total(order, u) + Total(order, w)
    BY <2>3, TotalType
  <2>6. Total(order', u) = Total(order, u) /\ Total(order', w) = Total(order, w)
    BY <1>1, SumElsewhere
  <2>7. Total(order, AtKey(key)) = n + order[o].resd
    BY <2>2, <2>3, <2>5, TotalAround
  <2>8. Total(order', Append(u, o) \o w) = (Total(order', u) + Total(order', w)) + order'[o].resd
    BY <2>3, <2>4, TotalAround
  <2>9. Total(order', AtKey(key)') = n + rec.resd
    BY <1>3, <2>2, <2>4, <2>5, <2>6, <2>8
  <2>10. /\ key = ComposeKey(levels[key].ticks) /\ levels[key].count = Len(AtKey(key))
         /\ levels[key].resd = n + order[o].resd
    BY <1>1, <2>7 DEF Aggregated
  <2>11. (n + order[o].resd) - delta = n + rec.resd
    <3>1. order[o].resd \in Int
      BY DEF Inv, TypeOK, OrderRec
    <3> QED BY <1>1, <3>1
  <2>12. ComposeKey(levels[key].ticks)' = ComposeKey(levels[key].ticks)
    BY <1>2 DEF ComposeKey
  <2> QED BY <1>2, <1>3, <2>9, <2>10, <2>11, <2>12
<1>6. ASSUME NEW k \in DOMAIN levels'
      PROVE  /\ k = ComposeKey(levels[k].ticks)'
             /\ levels'[k].count = Len(AtKey(k)')
             /\ levels'[k].resd = Total(order', AtKey(k)')
  BY <1>4, <1>5
<1> QED BY <1>6 DEF Aggregated

LEMMA KeepAggregated ==
  ASSUME Inv, Aggregated, NEW o \in Orders, NEW rec \in OrderRec, Keeps(o, rec), side' = side
  PROVE  Aggregated'
<1>1. /\ Level(o) = NoLevel /\ rec.ticks = order[o].ticks
      /\ levels' = levels /\ list' = list /\ order' = [order EXCEPT ![o] = rec]
  BY DEF Keeps
<1>2. \A k : AtKey(k)' = AtKey(k)
  BY <1>1, SameKeys, QueueType
<1>3. ASSUME NEW k \in DOMAIN levels'
      PROVE  /\ k = ComposeKey(levels[k].ticks)'
             /\ levels'[k].count = Len(AtKey(k)')
             /\ levels'[k].resd = Total(order', AtKey(k)')
  <2>1. k \in DOMAIN levels /\ levels'[k] = levels[k] /\ AtKey(k)' = AtKey(k)
    BY <1>1, <1>2
  <2> QED BY <1>1, <2>1, SameAggregate
<1> QED BY <1>3 DEF Aggregated

LEMMA DoesAggregated ==
  ASSUME Inv, Aggregated, NEW o \in Orders, NEW rec \in OrderRec, Does(o, rec), side' = side
  PROVE  Aggregated'
<1>1. CASE Inserts(o, rec)
  BY <1>1, InsertAggregated
<1>2. CASE Detaches(o, rec)
  BY <1>2, DetachAggregated
<1>3. ASSUME NEW delta \in 0 .. MaxLots, Shrinks(o, delta, rec) PROVE Aggregated'
  BY <1>3, ShrinkAggregated
<1>4. CASE Keeps(o, rec)
  BY <1>4, KeepAggregated
<1> QED BY <1>1, <1>2, <1>3, <1>4 DEF Does

LEMMA NextAggregated == Inv /\ Sized /\ Aggregated /\ [Next]_vars => Aggregated'
<1> SUFFICES ASSUME Inv, Sized, Aggregated, [Next]_vars PROVE Aggregated'
  OBVIOUS
<1>1. CASE UNCHANGED vars
  <2>1. side' = side /\ order' = order /\ list' = list /\ levels' = levels
    BY <1>1 DEF vars
  <2>2. \A k : AtKey(k)' = AtKey(k)
    BY <2>1 DEF AtKey, ComposeKey
  <2> QED BY <2>1, <2>2 DEF Aggregated, ComposeKey
<1>2. CASE Next
  <2>1. side' = side /\ \E o \in Orders, rec \in OrderRec : Does(o, rec)
    BY <1>2, NextDoes
  <2> QED BY <2>1, DoesAggregated
<1> QED BY <1>1, <1>2

\* A level is never empty: an order rests at its price, and it has a residual.
LEMMA QueueNotEmpty ==
  ASSUME Inv, NEW k \in DOMAIN levels
  PROVE  Len(AtKey(k)) > 0
<1>1. PICK i \in 1 .. Len(list) : Key(list[i]) = k
  BY DEF Inv, Covered
<1>2. PICK x \in Orders : x = list[i] /\ Level(x) # NoLevel /\ Key(x) = k
  <2>1. list[i] \in Orders /\ Level(list[i]) = Key(list[i])
    BY DEF Inv, TypeOK, Pointing
  <2>2. Key(list[i]) # NoLevel
    BY <2>1, KeyType DEF Inv
  <2> QED BY <1>1, <2>1, <2>2
<1>3. PICK u \in Seq(Orders \ {x}), w \in Seq(Orders \ {x}) : Queued(x, u, w)
  BY <1>2, RemoveQueue
<1>4. u \in Seq(Orders) /\ w \in Seq(Orders) /\ HaveResd(order, Orders)
  BY QueueSums
<1>5. Len(AtKey(k)) = (Len(u) + Len(w)) + 1
  BY <1>2, <1>3, <1>4, TotalAround DEF Queued
<1>6. Len(u) \in Nat /\ Len(w) \in Nat
  BY LenProperties
<1> QED BY <1>5, <1>6

LEMMA InvLevelsAggregate == Inv /\ Sized /\ Aggregated => LevelsAggregate
<1> SUFFICES ASSUME Inv, Sized, Aggregated PROVE LevelsAggregate
  OBVIOUS
<1>1. DOMAIN levels = {ComposeKey(order[o].ticks) : o \in ToSet(list)}
  <2>1. ToSet(list) = {list[i] : i \in 1 .. Len(list)}
    BY DEF Inv, TypeOK, ToSet
  <2> QED BY <2>1 DEF Inv, Covered, Key
<1>2. ASSUME NEW k \in DOMAIN levels
      PROVE  /\ k = ComposeKey(levels[k].ticks)
             /\ levels[k].count = Len(AtKey(k))
             /\ levels[k].resd  = SumResd(AtKey(k))
             /\ levels[k].count > 0 /\ levels[k].resd > 0
  <2>1. /\ k = ComposeKey(levels[k].ticks)
        /\ levels[k].count = Len(AtKey(k))
        /\ levels[k].resd  = Total(order, AtKey(k))
    BY DEF Aggregated
  <2>2. SumResd(AtKey(k)) = Total(order, AtKey(k))
    BY Zenon DEF SumResd, Total
  <2>3. Len(AtKey(k)) > 0
    BY QueueNotEmpty
  <2>4. Total(order, AtKey(k)) > 0
    <3> DEFINE S == {x \in Orders : Level(x) # NoLevel}
    <3>1. AtKey(k) \in Seq(S)
      <4>1. PICK q \in Seq(Orders) : q = AtKey(k)
        BY QueueType
      <4>2. ASSUME NEW i \in 1 .. Len(q) PROVE q[i] \in S
        <5> SUFFICES ASSUME q[i] \notin S PROVE FALSE
          OBVIOUS
        <5>1. q[i] \in Orders /\ Level(q[i]) = NoLevel
          OBVIOUS
        <5>2. q \in Seq(Orders \ {q[i]})
          BY <4>1, <5>1, QueueLacks
        <5> QED BY <5>2
      <4> HIDE DEF S
      <4>3. q \in Seq(S)
        <5>1. Len(q) \in Nat /\ q \in [1 .. Len(q) -> Orders] /\ DOMAIN q = 1 .. Len(q)
          BY LenProperties
        <5>2. q \in [1 .. Len(q) -> S]
          BY <4>2, <5>1
        <5> QED BY <5>1, <5>2, SeqDef
      <4> QED BY <4>1, <4>3
    <3>2. \A x \in S : order[x].resd \in Int /\ order[x].resd > 0
      BY DEF Inv, TypeOK, OrderRec, Sized
    <3> HIDE DEF S
    <3> QED BY <2>3, <3>1, <3>2, TotalPositive
  <2> QED BY <2>1, <2>2, <2>3, <2>4
<1> QED BY <1>1, <1>2 DEF LevelsAggregate

----------------------------------------------------------------------------
(* The queues of PriceTime.                                                *)

\* What the abstract specification sees.
QueueOf == [t \in Ticks |-> AtKey(ComposeKey(t))]
OpenOf  == [x \in Orders |-> IF Level(x) = NoLevel THEN 0 ELSE order[x].resd]

LEMMA KeysDiffer ==
  ASSUME Inv, NEW o \in Orders, NEW t \in Ticks
  PROVE  /\ order[o].ticks \in Ticks
         /\ ComposeKey(t) = Key(o) <=> t = order[o].ticks
<1>1. order[o].ticks \in Ticks /\ order[o].ticks \in Int /\ t \in Int
  BY DEF Inv, TypeOK, OrderRec
<1>2. ComposeKey(t) = Key(o) <=> t = order[o].ticks
  BY <1>1 DEF ComposeKey, Key
<1> QED BY <1>1, <1>2

\* An order rests in the queues when it points to a level.
LEMMA RestsWhenPointing ==
  ASSUME Inv, NEW o \in Orders
  PROVE  Queues!Resting(o) <=> Level(o) # NoLevel
<1>1. ASSUME Level(o) = NoLevel, NEW t \in Ticks PROVE ~ Contains(QueueOf[t], o)
  <2>1. PICK q \in Seq(Orders \ {o}) : q = AtKey(ComposeKey(t))
    BY <1>1, QueueLacks
  <2>2. ~ Contains(q, o)
    BY DEF Contains
  <2> QED BY <2>1, <2>2 DEF QueueOf
<1>2. ASSUME Level(o) # NoLevel PROVE Contains(QueueOf[order[o].ticks], o)
  <2>1. PICK u \in Seq(Orders \ {o}), w \in Seq(Orders \ {o}) : Queued(o, u, w)
    BY <1>2, RemoveQueue
  <2>2. u \in Seq(Orders) /\ w \in Seq(Orders)
    OBVIOUS
  <2>3. PICK q \in Seq(Orders) : q = AtKey(Key(o)) /\ q = Append(u, o) \o w
    BY <2>1, QueueType DEF Queued
  <2>4. Len(u) + 1 \in 1 .. Len(q) /\ q[Len(u) + 1] = o
    BY <2>2, <2>3, RemoveAround
  <2>5. Contains(q, o)
    BY <2>4 DEF Contains
  <2>6. QueueOf[order[o].ticks] = q
    BY <2>3, KeysDiffer DEF QueueOf, Key, Inv, TypeOK, OrderRec
  <2> QED BY <2>5, <2>6
<1>3. order[o].ticks \in Ticks
  BY DEF Inv, TypeOK, OrderRec
<1>4. Queues!Resting(o) <=> \E t \in Ticks : Contains(QueueOf[t], o)
  BY Zenon DEF Queues!Resting, QueueOf, Contains, Queues!Contains
<1> QED BY <1>1, <1>2, <1>3, <1>4

LEMMA InitQueues == Init => Queues!Init
<1> SUFFICES ASSUME Init PROVE Queues!Init
  OBVIOUS
<1>1. \A k : AtKey(k) = << >>
  BY OnlyEmpty DEF Init, AtKey
<1>2. \A o \in Orders : Level(o) = NoLevel
  BY DEF Init, Level, NewOrder
<1> QED BY <1>1, <1>2 DEF Queues!Init

\* What a step shows of the order it is about.
LEMMA OpenAfter ==
  ASSUME Inv, NEW o \in Orders, NEW rec \in OrderRec, order' = [order EXCEPT ![o] = rec]
  PROVE  OpenOf' = [OpenOf EXCEPT ![o] = IF rec.level = NoLevel THEN 0 ELSE rec.resd]
<1>1. order' \in [Orders -> OrderRec] /\ \A x \in Orders : order'[x] = IF x = o THEN rec ELSE order[x]
  BY DEF Inv, TypeOK
<1>2. OpenOf' = [x \in Orders |-> IF order'[x].level = NoLevel THEN 0 ELSE order'[x].resd]
  BY DEF OpenOf, Level
<1>3. OpenOf = [x \in Orders |-> IF order[x].level = NoLevel THEN 0 ELSE order[x].resd]
  BY DEF OpenOf, Level
<1> QED BY <1>1, <1>2, <1>3

LEMMA QueueAfter ==
  ASSUME side' = side
  PROVE  /\ QueueOf' = [t \in Ticks |-> AtKey(ComposeKey(t))']
         /\ \A t : ComposeKey(t)' = ComposeKey(t)
BY DEF QueueOf, ComposeKey

LEMMA InsertQueues ==
  ASSUME Inv, Sized, NEW o \in Orders, NEW rec \in OrderRec, Inserts(o, rec), side' = side
  PROVE  Queues!Next
<1>1. /\ Level(o) = NoLevel /\ rec.ticks = order[o].ticks /\ rec.level = Key(o)
      /\ rec.resd \in Int /\ rec.resd > 0 /\ rec.lots \in 1 .. MaxLots /\ rec.resd <= rec.lots
      /\ list' = InsertList(o) /\ order' = [order EXCEPT ![o] = rec]
  BY DEF Inserts, OrderRec, InSize
<1>2. rec.resd \in 1 .. MaxLots /\ order[o].ticks \in Ticks
  <2>1. order[o].ticks \in Ticks
    BY DEF Inv, TypeOK, OrderRec
  <2>2. rec.lots \in Int /\ rec.lots <= MaxLots /\ MaxLots \in Int
    BY <1>1
  <2> QED BY <1>1, <2>1, <2>2
<1>3. OpenOf' = [OpenOf EXCEPT ![o] = rec.resd]
  <2>1. rec.level # NoLevel
    BY <1>1, KeyType DEF Inv
  <2> QED BY <1>1, <2>1, OpenAfter
<1>4. ~ Queues!Resting(o)
  BY <1>1, RestsWhenPointing
<1>5. QueueOf' = [QueueOf EXCEPT ![order[o].ticks] = Append(@, o)]
  <2>1. ASSUME NEW t \in Ticks
        PROVE  QueueOf'[t] = IF t = order[o].ticks THEN Append(QueueOf[t], o) ELSE QueueOf[t]
    <3>1. PICK k : k = ComposeKey(t)
      OBVIOUS
    <3>2. AtKey(k)' = IF k = Key(o) THEN Append(AtKey(k), o) ELSE AtKey(k)
      BY <1>1, InsertQueue
    <3>3. QueueOf'[t] = AtKey(k)' /\ QueueOf[t] = AtKey(k)
      BY <3>1, QueueAfter DEF QueueOf
    <3> QED BY <3>1, <3>2, <3>3, KeysDiffer
  <2>2. QueueOf' = [t \in Ticks |-> QueueOf'[t]] /\ QueueOf = [t \in Ticks |-> QueueOf[t]]
    BY DEF QueueOf
  <2> QED BY <1>2, <2>1, <2>2
<1>6. Queues!Join(o, order[o].ticks, rec.resd)
  BY <1>3, <1>4, <1>5 DEF Queues!Join, QueueOf, OpenOf
<1> QED BY <1>2, <1>6 DEF Queues!Next

LEMMA DetachQueues ==
  ASSUME Inv, NEW o \in Orders, NEW rec \in OrderRec, Detaches(o, rec), side' = side
  PROVE  Queues!Next
<1> DEFINE gone == [rec EXCEPT !.level = NoLevel]
<1>1. /\ Level(o) # NoLevel /\ rec.ticks = order[o].ticks /\ list' = RemoveList(o)
      /\ order' = [order EXCEPT ![o] = gone]
  BY DEF Detaches, Detach
<1>2. gone \in OrderRec /\ gone.ticks = order[o].ticks /\ gone.level = NoLevel
  BY <1>1 DEF OrderRec
<1> HIDE DEF gone
<1>3. OpenOf' = [OpenOf EXCEPT ![o] = 0]
  BY <1>1, <1>2, OpenAfter
<1>4. PICK u \in Seq(Orders \ {o}), w \in Seq(Orders \ {o}) : Queued(o, u, w)
  BY <1>1, RemoveQueue
<1>a. PICK p \in Ticks : p = order[o].ticks
  BY DEF Inv, TypeOK, OrderRec
<1>5. PICK k : p = order[o].ticks /\ k = Key(o) /\ k = ComposeKey(p)
  BY <1>a DEF Key
<1>6. u \in Seq(Orders) /\ w \in Seq(Orders)
  OBVIOUS
<1>7. PICK q \in Seq(Orders), i \in Nat :
        /\ q = AtKey(k) /\ i \in 1 .. Len(q) /\ q[i] = o
        /\ AtKey(k)' = RemoveAt(q, i)
  <2>1. AtKey(k) = Append(u, o) \o w /\ AtKey(k)' = u \o w
    BY <1>1, <1>2, <1>4, <1>5, SameKeys DEF Queued
  <2>2. /\ Append(u, o) \o w \in Seq(Orders)
        /\ Len(u) + 1 \in 1 .. Len(Append(u, o) \o w)
        /\ (Append(u, o) \o w)[Len(u) + 1] = o
        /\ RemoveAt(Append(u, o) \o w, Len(u) + 1) = u \o w
    BY <1>6, RemoveAround
  <2>3. Len(u) + 1 \in Nat
    BY <1>6, LenProperties
  <2> QED BY <2>1, <2>2, <2>3
<1>8. QueueOf[p] = q /\ i \in DOMAIN QueueOf[p] /\ QueueOf[p][i] = o
  BY <1>5, <1>7 DEF QueueOf
<1>9. QueueOf' = [QueueOf EXCEPT ![p] = RemoveAt(@, i)]
  <2>1. ASSUME NEW t \in Ticks
        PROVE  QueueOf'[t] = IF t = p THEN RemoveAt(QueueOf[t], i) ELSE QueueOf[t]
    <3>1. PICK h : h = ComposeKey(t)
      OBVIOUS
    <3>2. QueueOf'[t] = AtKey(h)' /\ QueueOf[t] = AtKey(h) /\ (h = k <=> t = p)
      BY <1>5, <3>1, KeysDiffer, QueueAfter DEF QueueOf
    <3>3. h # k => AtKey(h)' = AtKey(h)
      BY <1>1, <1>2, <1>5, SameKeys, RemoveQueue
    <3> QED BY <1>7, <3>2, <3>3
  <2>2. QueueOf' = [t \in Ticks |-> QueueOf'[t]] /\ QueueOf = [t \in Ticks |-> QueueOf[t]]
    BY DEF QueueOf
  <2> QED BY <2>1, <2>2
<1>10. Queues!Leave(o)
  <2>1. \E h \in Ticks : \E j \in DOMAIN QueueOf[h] :
          QueueOf[h][j] = o /\ QueueOf' = [QueueOf EXCEPT ![h] = RemoveAt(@, j)]
    BY <1>8, <1>9
  <2> QED BY <1>3, <2>1, Zenon DEF Queues!Leave, QueueOf, OpenOf, RemoveAt, Queues!RemoveAt
<1> QED BY <1>10 DEF Queues!Next

LEMMA QueueKept ==
  ASSUME Inv, NEW o \in Orders, NEW rec, rec.ticks = order[o].ticks,
         order' = [order EXCEPT ![o] = rec], list' = list, side' = side
  PROVE  QueueOf' = QueueOf
<1>1. ASSUME NEW t \in Ticks PROVE QueueOf'[t] = QueueOf[t]
  <2>1. PICK k : k = ComposeKey(t)
    OBVIOUS
  <2>2. AtKey(k)' = AtKey(k)
    BY SameKeys, QueueType
  <2>3. QueueOf'[t] = AtKey(k)' /\ QueueOf[t] = AtKey(k)
    BY <2>1, QueueAfter DEF QueueOf
  <2> QED BY <2>2, <2>3
<1>2. QueueOf' = [t \in Ticks |-> QueueOf'[t]] /\ QueueOf = [t \in Ticks |-> QueueOf[t]]
  BY DEF QueueOf
<1> QED BY <1>1, <1>2

LEMMA ShrinkQueues ==
  ASSUME Inv, Sized, NEW o \in Orders, NEW rec \in OrderRec, NEW delta \in 0 .. MaxLots,
         Shrinks(o, delta, rec), side' = side
  PROVE  [Queues!Next]_(Queues!vars)
<1>1. /\ Level(o) # NoLevel /\ rec.ticks = order[o].ticks /\ rec.level = order[o].level
      /\ delta < order[o].resd /\ rec.resd = order[o].resd - delta /\ order[o].resd \in Int
      /\ list' = list /\ order' = [order EXCEPT ![o] = rec]
  BY DEF Shrinks, Inv, TypeOK, OrderRec
<1>2. QueueOf' = QueueOf
  BY <1>1, QueueKept
<1>3. OpenOf' = [OpenOf EXCEPT ![o] = rec.resd] /\ OpenOf[o] = order[o].resd
  BY <1>1, OpenAfter DEF OpenOf, Level
<1>4. CASE delta = 0
  <2>1. rec.resd = order[o].resd
    BY <1>1, <1>4
  <2>2. OpenOf' = OpenOf
    BY <1>3, <2>1 DEF OpenOf
  <2> QED BY <1>2, <2>2 DEF Queues!vars, QueueOf, OpenOf
<1>5. CASE delta # 0
  <2>1. delta \in 1 .. MaxLots
    BY <1>5
  <2>2. OpenOf' = [OpenOf EXCEPT ![o] = @ - delta] /\ delta < OpenOf[o]
    BY <1>1, <1>3
  <2>3. Queues!Resting(o)
    BY <1>1, RestsWhenPointing
  <2>4. Queues!Shrink(o, delta)
    BY <1>2, <2>2, <2>3 DEF Queues!Shrink, QueueOf, OpenOf
  <2> QED BY <2>1, <2>4 DEF Queues!Next
<1> QED BY <1>4, <1>5

LEMMA KeepQueues ==
  ASSUME Inv, NEW o \in Orders, NEW rec \in OrderRec, Keeps(o, rec), side' = side
  PROVE  UNCHANGED Queues!vars
<1>1. /\ Level(o) = NoLevel /\ rec.ticks = order[o].ticks /\ rec.level = NoLevel
      /\ list' = list /\ order' = [order EXCEPT ![o] = rec]
  BY DEF Keeps, Level
<1>2. QueueOf' = QueueOf
  BY <1>1, QueueKept
<1>3. OpenOf' = OpenOf
  <2>1. OpenOf' = [OpenOf EXCEPT ![o] = 0] /\ OpenOf[o] = 0
    BY <1>1, OpenAfter DEF OpenOf
  <2> QED BY <2>1 DEF OpenOf
<1> QED BY <1>2, <1>3 DEF Queues!vars, QueueOf, OpenOf

LEMMA NextQueues ==
  ASSUME Inv, Sized, [Next]_vars
  PROVE  [Queues!Next]_(Queues!vars)
<1>1. CASE UNCHANGED vars
  <2>1. side' = side /\ order' = order /\ list' = list /\ levels' = levels
    BY <1>1 DEF vars
  <2>2. QueueOf' = QueueOf /\ OpenOf' = OpenOf
    BY <2>1 DEF QueueOf, OpenOf, AtKey, ComposeKey, Level
  <2> QED BY <2>2 DEF Queues!vars, QueueOf, OpenOf
<1>2. ASSUME NEW o \in Orders, NEW rec \in OrderRec, Does(o, rec), side' = side
      PROVE  [Queues!Next]_(Queues!vars)
  <2>1. CASE Inserts(o, rec)
    BY <1>2, <2>1, InsertQueues
  <2>2. CASE Detaches(o, rec)
    BY <1>2, <2>2, DetachQueues
  <2>3. ASSUME NEW delta \in 0 .. MaxLots, Shrinks(o, delta, rec)
        PROVE  [Queues!Next]_(Queues!vars)
    BY <1>2, <2>3, ShrinkQueues
  <2>4. CASE Keeps(o, rec)
    BY <1>2, <2>4, KeepQueues
  <2> QED BY <1>2, <2>1, <2>2, <2>3, <2>4 DEF Does
<1>3. CASE Next
  BY <1>2, <1>3, NextDoes
<1> QED BY <1>1, <1>3

----------------------------------------------------------------------------
(* Theorems.                                                               *)

LEMMA BookSideInv == Spec => [](Inv /\ Sized)
BY InitInv, InitSized, NextInv, PTL DEF Spec

\* Whatever is done with however many orders, no pointer between list and levels
\* dangles or leads astray: the first order of a level is the oldest in the book at
\* its price (BookSide::insertOrder, removeOrder, reduceLevel).
THEOREM PointersStayLive == Spec => []PointersLive
<1>1. Inv => PointersLive
  BY InvPointersLive
<1> QED BY <1>1, BookSideInv, PTL

\* The list that matchOrders walks is sorted by price, although an insertion only
\* looks at the next level's first order.
THEOREM BookStaysSorted == Spec => []BestPriceFirst
<1>1. Inv => BestPriceFirst
  BY InvBestPriceFirst
<1> QED BY <1>1, BookSideInv, PTL

\* Whatever is done with however many orders, a level shows exactly the orders that
\* rest at its price: how many, and the sum of their residuals, neither ever zero
\* (Level.hpp resd_, count_; BookSide::insertLevel, reduceLevel, removeOrder).
THEOREM LevelsAreSums == Spec => []LevelsAggregate
<1>1. Init => Aggregated
  BY DEF Init, Aggregated
<1>2. Spec => []Aggregated
  <2>1. [](Inv /\ Sized) /\ Aggregated /\ [][Next]_vars => []Aggregated
    <3>1. Inv /\ Sized /\ Aggregated /\ [Next]_vars => Aggregated'
      BY NextAggregated
    <3> QED BY <3>1, PTL
  <2> QED BY <1>1, <2>1, BookSideInv, PTL DEF Spec
<1>3. Inv /\ Sized /\ Aggregated => LevelsAggregate
  BY InvLevelsAggregate
<1> QED BY <1>2, <1>3, BookSideInv, PTL

\* The book side, with all its pointers, does nothing that a first-come first-served
\* queue for each price would not do (BookSide::insertOrder places an order behind all
\* of its price; reduceLevel and removeOrder move no other).
THEOREM BookIsPriceTime == Spec => ImplementsPriceTime
<1>1. Init => Queues!Init
  BY InitQueues
<1>2. Inv /\ Sized /\ [Next]_vars => [Queues!Next]_(Queues!vars)
  BY NextQueues
<1> QED BY <1>1, <1>2, BookSideInv, PTL DEF Spec, ImplementsPriceTime, Queues!Spec
=============================================================================
