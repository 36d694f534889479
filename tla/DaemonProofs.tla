---------------------------- MODULE DaemonProofs ----------------------------
(***************************************************************************)
(* Proofs about modules HttpServer and Daemon for every number of            *)
(* connections, clients, requests and hangups.  First the server alone: the  *)
(* bytes of a connection become its requests, one after the other, and its   *)
(* answers the bytes that a waiting client gets.  Then main: what its loop   *)
(* does with signals, whether it ends for a reason, and what becomes of the  *)
(* connections and their requests then.                                     *)
(***************************************************************************)
EXTENDS Daemon, SequenceTheorems, TLAPS

----------------------------------------------------------------------------
(* Sequences that are cut and put together.                                *)

LEMMA SeqsEqual ==
  ASSUME NEW S, NEW r \in Seq(S), NEW t \in Seq(S), Len(r) = Len(t),
         \A i \in 1..Len(r) : r[i] = t[i]
  PROVE  r = t
OBVIOUS

LEMMA ConcatParts ==
  ASSUME NEW S, NEW r \in Seq(S), NEW t \in Seq(S)
  PROVE  /\ r \o t \in Seq(S) /\ Len(r \o t) = Len(r) + Len(t)
         /\ \A i \in 1..Len(r) : (r \o t)[i] = r[i]
         /\ \A i \in 1..Len(t) : (r \o t)[Len(r) + i] = t[i]
OBVIOUS

LEMMA SplitSeq ==
  ASSUME NEW S, NEW r \in Seq(S), NEW t \in Seq(S), NEW j \in 1..Len(t)
  PROVE  LET u == r \o SubSeq(t, 1, j)
             v == SubSeq(t, j + 1, Len(t))
         IN /\ u \in Seq(S) /\ v \in Seq(S) /\ u \o v = r \o t
            /\ Len(u) = Len(r) + j /\ Len(v) = Len(t) - j
            /\ \A i \in 1..Len(u) : u[i] = (r \o t)[i]
<1> DEFINE u == r \o SubSeq(t, 1, j)
           v == SubSeq(t, j + 1, Len(t))
<1>1. u \in Seq(S) /\ v \in Seq(S) /\ Len(u) = Len(r) + j /\ Len(v) = Len(t) - j OBVIOUS
<1>2. Len(r) \in Nat /\ Len(t) \in Nat /\ j \in Nat /\ j <= Len(t) OBVIOUS
<1>3. \A i \in 1..Len(r) : u[i] = r[i] OBVIOUS
<1>4. \A i \in 1..j : u[Len(r) + i] = t[i] OBVIOUS
<1>5. \A i \in 1..Len(t) - j : v[i] = t[j + i] OBVIOUS
<1>6. r \o t \in Seq(S) /\ Len(r \o t) = Len(r) + Len(t)
      /\ (\A i \in 1..Len(r) : (r \o t)[i] = r[i])
      /\ (\A i \in 1..Len(t) : (r \o t)[Len(r) + i] = t[i])
  OBVIOUS
<1>7. u \o v \in Seq(S) /\ Len(u \o v) = Len(r) + Len(t)
      /\ (\A i \in 1..Len(u) : (u \o v)[i] = u[i])
      /\ (\A i \in 1..Len(v) : (u \o v)[Len(u) + i] = v[i])
  <2> HIDE DEF u, v
  <2>1. Len(u) + Len(v) = Len(r) + Len(t) BY <1>1, <1>2
  <2>2. u \in Seq(S) /\ v \in Seq(S) BY <1>1
  <2> QED BY <2>1, <2>2, ConcatParts
<1> HIDE DEF u, v
<1>8. ASSUME NEW i \in 1..Len(u) PROVE u[i] = (r \o t)[i]
  <2>1. CASE i \in 1..Len(r) BY <2>1, <1>3, <1>6
  <2>2. CASE i \notin 1..Len(r)
    <3>1. i - Len(r) \in 1..j /\ i - Len(r) \in 1..Len(t) /\ Len(r) + (i - Len(r)) = i
      BY <2>2, <1>1, <1>2
    <3> QED BY <3>1, <1>4, <1>6
  <2> QED BY <2>1, <2>2
<1>9. ASSUME NEW i \in 1..Len(u \o v) PROVE (u \o v)[i] = (r \o t)[i]
  <2>1. CASE i \in 1..Len(u) BY <2>1, <1>7, <1>8
  <2>2. CASE i \notin 1..Len(u)
    <3> DEFINE k == i - Len(u)
    <3>1. k \in 1..Len(v) /\ Len(u) + k = i BY <2>2, <1>1, <1>2, <1>7
    <3>2. j + k \in 1..Len(t) /\ Len(r) + (j + k) = i /\ k \in 1..Len(t) - j
      BY <3>1, <1>1, <1>2
    <3> HIDE DEF k
    <3>3. (u \o v)[i] = t[j + k] BY <3>1, <3>2, <1>5, <1>7
    <3>4. (r \o t)[i] = t[j + k] BY <3>2, <1>6
    <3> QED BY <3>3, <3>4
  <2> QED BY <2>1, <2>2
<1>10. u \o v = r \o t BY <1>6, <1>7, <1>9, SeqsEqual
<1> QED BY <1>1, <1>8, <1>10 DEF u, v

LEMMA TailParts ==
  ASSUME NEW S, NEW s \in Seq(S), NEW m \in 1..Len(s)
  PROVE  LET u == SubSeq(s, m + 1, Len(s)) IN
         u \in Seq(S) /\ Len(u) = Len(s) - m /\ \A i \in 1..Len(s) - m : u[i] = s[m + i]
OBVIOUS

LEMMA AppendMoves ==
  ASSUME NEW S, NEW r \in Seq(S), NEW t \in Seq(S), NEW x \in S
  PROVE  r \o Append(t, x) = Append(r \o t, x) /\ r \o t \in Seq(S)
<1> DEFINE a == Append(t, x)
           w == r \o t
<1>1. a \in Seq(S) /\ Len(a) = Len(t) + 1 /\ Len(t) \in Nat /\ Len(r) \in Nat
      /\ a[Len(t) + 1] = x /\ \A i \in 1..Len(t) : a[i] = t[i]
  OBVIOUS
<1>2. /\ w \in Seq(S) /\ Len(w) = Len(r) + Len(t)
      /\ \A i \in 1..Len(r) : w[i] = r[i]
      /\ \A i \in 1..Len(t) : w[Len(r) + i] = t[i]
  BY ConcatParts
<1> HIDE DEF a, w
<1>3. /\ r \o a \in Seq(S) /\ Len(r \o a) = Len(r) + Len(a)
      /\ \A i \in 1..Len(r) : (r \o a)[i] = r[i]
      /\ \A i \in 1..Len(a) : (r \o a)[Len(r) + i] = a[i]
  <2>1. a \in Seq(S) BY <1>1
  <2> QED BY <2>1, ConcatParts
<1>4. /\ Append(w, x) \in Seq(S) /\ Len(Append(w, x)) = Len(w) + 1
      /\ Append(w, x)[Len(w) + 1] = x /\ \A i \in 1..Len(w) : Append(w, x)[i] = w[i]
  BY <1>2
<1>5. Len(r \o a) = Len(Append(w, x)) BY <1>1, <1>2, <1>3, <1>4
<1>6. ASSUME NEW i \in 1..Len(r \o a) PROVE (r \o a)[i] = Append(w, x)[i]
  <2>1. CASE i \in 1..Len(r) BY <2>1, <1>1, <1>2, <1>3, <1>4
  <2>2. CASE i \notin 1..Len(r)
    <3> DEFINE k == i - Len(r)
    <3>1. k \in 1..Len(a) /\ Len(r) + k = i BY <2>2, <1>1, <1>3
    <3> HIDE DEF k
    <3>2. (r \o a)[i] = a[k] BY <3>1, <1>3
    <3>3. CASE k = Len(t) + 1
      <4>1. i = Len(w) + 1 BY <3>1, <3>3, <1>1, <1>2
      <4> QED BY <4>1, <3>2, <3>3, <1>1, <1>4
    <3>4. CASE k \in 1..Len(t)
      <4>1. i \in 1..Len(w) /\ a[k] = w[i] BY <3>1, <3>4, <1>1, <1>2
      <4>2. Append(w, x)[i] = w[i] BY <4>1, <1>4
      <4> QED BY <4>1, <4>2, <3>2, Zenon
    <3>5. k = Len(t) + 1 \/ k \in 1..Len(t)
      <4>1. Len(a) = Len(t) + 1 /\ Len(t) \in Nat BY <1>1
      <4> QED BY <3>1, <4>1
    <3> QED BY <3>3, <3>4, <3>5
  <2> QED BY <2>1, <2>2
<1>7. r \o a = Append(w, x) BY <1>3, <1>4, <1>5, <1>6, SeqsEqual
<1> QED BY <1>2, <1>7 DEF a, w

LEMMA DropSeq ==
  ASSUME NEW S, NEW r \in Seq(S), NEW t \in Seq(S), NEW j \in 1..Len(r)
  PROVE  /\ SubSeq(r, j + 1, Len(r)) \in Seq(S)
         /\ SubSeq(r, j + 1, Len(r)) \o t = SubSeq(r \o t, j + 1, Len(r \o t))
<1> DEFINE u == SubSeq(r, j + 1, Len(r))
           w == r \o t
           v == SubSeq(w, j + 1, Len(w))
<1>1. u \in Seq(S) /\ Len(u) = Len(r) - j /\ \A i \in 1..Len(r) - j : u[i] = r[j + i]
  OBVIOUS
<1>2. Len(r) \in Nat /\ Len(t) \in Nat /\ j \in Nat /\ j <= Len(r) OBVIOUS
<1>3. w \in Seq(S) /\ Len(w) = Len(r) + Len(t)
      /\ (\A i \in 1..Len(r) : w[i] = r[i])
      /\ (\A i \in 1..Len(t) : w[Len(r) + i] = t[i])
  OBVIOUS
<1> HIDE DEF w
<1>4. v \in Seq(S) /\ Len(v) = Len(w) - j /\ \A i \in 1..Len(w) - j : v[i] = w[j + i]
  <2>1. j + 1 \in 1..Len(w) + 1 /\ Len(w) \in Nat /\ Len(w) - (j + 1) + 1 = Len(w) - j
        /\ (j + 1 <= Len(w) \/ Len(w) - j = 0)
    BY <1>2, <1>3
  <2> QED BY <2>1, <1>2, <1>3, SubSeqProperties
<1> HIDE DEF u, v
<1>5. u \o t \in Seq(S) /\ Len(u \o t) = Len(u) + Len(t)
      /\ (\A i \in 1..Len(u) : (u \o t)[i] = u[i])
      /\ (\A i \in 1..Len(t) : (u \o t)[Len(u) + i] = t[i])
  <2>1. u \in Seq(S) BY <1>1
  <2> QED BY <2>1, ConcatParts
<1>6. Len(u \o t) = Len(v) BY <1>1, <1>2, <1>3, <1>4, <1>5
<1>7. ASSUME NEW i \in 1..Len(u \o t) PROVE (u \o t)[i] = v[i]
  <2>1. v[i] = w[j + i] /\ j + i \in 1..Len(w) BY <1>2, <1>3, <1>4, <1>6
  <2>2. CASE i \in 1..Len(u)
    <3>1. j + i \in 1..Len(r) /\ i \in 1..Len(r) - j BY <2>2, <1>1, <1>2
    <3> QED BY <2>1, <2>2, <3>1, <1>1, <1>3, <1>5
  <2>3. CASE i \notin 1..Len(u)
    <3> DEFINE k == i - Len(u)
    <3>1. k \in 1..Len(t) /\ Len(u) + k = i /\ Len(r) + k = j + i
      BY <2>3, <1>1, <1>2, <1>5
    <3> HIDE DEF k
    <3>2. (u \o t)[i] = t[k] BY <3>1, <1>5
    <3>3. w[j + i] = t[k] BY <3>1, <1>3
    <3> QED BY <2>1, <3>2, <3>3
  <2> QED BY <2>2, <2>3
<1>8. u \o t = v BY <1>4, <1>5, <1>6, <1>7, SeqsEqual
<1> QED BY <1>1, <1>8 DEF u, v, w
----------------------------------------------------------------------------
(* What is on the way.                                                     *)

Chunk == [req : Nat, part : {"head", "body"}]

\* The piece that is sent after x, when the kinds of the requests are k.
After(k, x) ==
  IF x.part = "head" /\ HasBody(k[x.req]) THEN Body(x.req) ELSE Head_(x.req + 1)

\* The last piece sent: a body that is due follows its head.
LastSent(k, d) ==
  IF d \/ ~HasBody(k[Len(k)]) THEN Head_(Len(k)) ELSE Body(Len(k))

\* After n requests were handed on, s is what was sent since, piece by piece.
IsRest(k, d, n, s) ==
  /\ s = <<>> => n = Len(k) /\ ~d
  /\ s # <<>> => s[1] = Head_(n + 1) /\ s[Len(s)] = LastSent(k, d)
  /\ \A i \in 1..Len(s) : s[i].req \in 1..Len(k)
  /\ \A i \in 1..Len(s) - 1 : s[i + 1] = After(k, s[i])

LEMMA RestHead ==
  ASSUME NEW k \in Seq(Kinds), NEW x \in Kinds, NEW n \in Nat, NEW s \in Seq(Chunk),
         IsRest(k, FALSE, n, s)
  PROVE  IsRest(Append(k, x), HasBody(x), n, Append(s, Head_(Len(k) + 1)))
<1> DEFINE K == Append(k, x)
           S == Append(s, Head_(Len(k) + 1))
<1>1. /\ K \in Seq(Kinds) /\ Len(K) = Len(k) + 1 /\ K[Len(k) + 1] = x
      /\ \A i \in 1..Len(k) : K[i] = k[i]
  OBVIOUS
<1>2. /\ Head_(Len(k) + 1) \in Chunk /\ S \in Seq(Chunk) /\ Len(S) = Len(s) + 1
      /\ S[Len(s) + 1] = Head_(Len(k) + 1)
      /\ \A i \in 1..Len(s) : S[i] = s[i]
  BY DEF Head_, Chunk
<1> HIDE DEF K, S
<1>3. LastSent(K, HasBody(x)) = Head_(Len(k) + 1)
  BY <1>1 DEF LastSent
<1>4. ASSUME NEW i \in 1..Len(S) PROVE S[i].req \in 1..Len(K)
  <2>1. CASE i \in 1..Len(s) BY <2>1, <1>1, <1>2 DEF IsRest
  <2>2. CASE i = Len(s) + 1 BY <2>2, <1>1, <1>2 DEF Head_
  <2> QED BY <2>1, <2>2, <1>2
<1>5. ASSUME s = <<>> PROVE n = Len(k)
  BY <1>5 DEF IsRest
<1>6. ASSUME s # <<>> PROVE S[1] = Head_(n + 1)
  BY <1>6, <1>2 DEF IsRest
<1>7. S # <<>> /\ S[1] = Head_(n + 1)
  BY <1>2, <1>5, <1>6
<1>8. ASSUME NEW i \in 1..Len(S) - 1 PROVE S[i + 1] = After(K, S[i])
  <2>1. s[i] \in Chunk /\ s[i].req \in 1..Len(k) /\ S[i] = s[i]
    BY <1>2 DEF IsRest
  <2>2. After(K, s[i]) = After(k, s[i]) BY <2>1, <1>1 DEF After
  <2>3. CASE i = Len(s)
    <3>1. s # <<>> /\ s[i] = LastSent(k, FALSE)
      <4>1. s # <<>> BY <2>3, <1>2
      <4> QED BY <4>1, <2>3 DEF IsRest
    <3>2. s[i].req = Len(k) BY <3>1 DEF LastSent, Head_, Body
    <3>3. After(k, s[i]) = Head_(Len(k) + 1)
      BY <3>1, <3>2 DEF LastSent, After, Head_, Body
    <3> QED BY <2>1, <2>2, <2>3, <3>3, <1>2
  <2>4. CASE i < Len(s)
    BY <2>1, <2>2, <2>4, <1>2 DEF IsRest
  <2> QED BY <2>3, <2>4, <1>2
<1>9. S[Len(S)] = LastSent(K, HasBody(x)) BY <1>2, <1>3
<1> QED BY <1>4, <1>7, <1>8, <1>9 DEF IsRest, K, S

LEMMA RestBody ==
  ASSUME NEW k \in Seq(Kinds), NEW n \in Nat, NEW s \in Seq(Chunk),
         IsRest(k, TRUE, n, s), HasBody(k[Len(k)])
  PROVE  IsRest(k, FALSE, n, Append(s, Body(Len(k))))
<1> DEFINE S == Append(s, Body(Len(k)))
<1>1. s # <<>> /\ Len(s) \in Nat \ {0} BY DEF IsRest
<1>2. s[Len(s)] = Head_(Len(k)) BY <1>1 DEF IsRest, LastSent
<1>3. Len(k) \in 1..Len(k) BY <1>1, <1>2 DEF IsRest, Head_
<1>4. /\ Body(Len(k)) \in Chunk /\ S \in Seq(Chunk) /\ Len(S) = Len(s) + 1
      /\ S[Len(s) + 1] = Body(Len(k))
      /\ \A i \in 1..Len(s) : S[i] = s[i]
  BY DEF Body, Chunk
<1> HIDE DEF S
<1>5. S[1] = Head_(n + 1) BY <1>1, <1>4 DEF IsRest
<1>6. S[Len(S)] = LastSent(k, FALSE)
  <2>1. LastSent(k, FALSE) = Body(Len(k)) BY DEF LastSent
  <2> QED BY <1>4, <2>1
<1>7. ASSUME NEW i \in 1..Len(S) PROVE S[i].req \in 1..Len(k)
  <2>1. CASE i \in 1..Len(s) BY <2>1, <1>4 DEF IsRest
  <2>2. CASE i = Len(s) + 1 BY <2>2, <1>3, <1>4 DEF Body
  <2> QED BY <2>1, <2>2, <1>4
<1>8. ASSUME NEW i \in 1..Len(S) - 1 PROVE S[i + 1] = After(k, S[i])
  <2>1. CASE i = Len(s) BY <2>1, <1>2, <1>4, <1>1 DEF After, Head_
  <2>2. CASE i < Len(s) BY <2>2, <1>4 DEF IsRest
  <2> QED BY <2>1, <2>2, <1>4
<1>9. S # <<>> BY <1>4
<1> QED BY <1>5, <1>6, <1>7, <1>8, <1>9 DEF IsRest, S

\* A request that is taken from the front, m pieces of it, leaves the rest.
LEMMA RestTaken ==
  ASSUME NEW k \in Seq(Kinds), NEW d \in BOOLEAN, NEW n \in Nat, NEW s \in Seq(Chunk),
         IsRest(k, d, n, s), d => HasBody(k[Len(k)]),
         NEW m \in 1..Len(s),
         HasBody(k[s[1].req]) => m = 2, ~HasBody(k[s[1].req]) => m = 1
  PROVE  IsRest(k, d, n + 1, SubSeq(s, m + 1, Len(s)))
<1> DEFINE S == SubSeq(s, m + 1, Len(s))
<1>1. /\ S \in Seq(Chunk) /\ Len(S) = Len(s) - m
      /\ \A i \in 1..Len(S) : S[i] = s[i + m]
  <2>1. m \in Nat /\ Len(s) \in Nat OBVIOUS
  <2>2. S \in Seq(Chunk) /\ Len(S) = Len(s) - m /\ \A i \in 1..Len(s) - m : S[i] = s[m + i]
    BY TailParts
  <2> HIDE DEF S
  <2> QED BY <2>1, <2>2
<1> HIDE DEF S
<1>2. s # <<>> /\ s[1] = Head_(n + 1) /\ s[1].req = n + 1 BY DEF IsRest, Head_
<1>3. s[m].req = n + 1 /\ After(k, s[m]) = Head_(n + 2)
  <2>1. CASE ~HasBody(k[s[1].req])
    <3>1. m = 1 BY <2>1
    <3> QED BY <2>1, <3>1, <1>2 DEF After, Head_
  <2>2. CASE HasBody(k[s[1].req])
    <3>1. m = 2 BY <2>2
    <3>2. s[1 + 1] = After(k, s[1]) BY <3>1 DEF IsRest
    <3>3. s[2] = Body(n + 1) BY <2>2, <3>2, <1>2 DEF After, Head_
    <3> QED BY <3>1, <3>3 DEF After, Body, Head_
  <2> QED BY <2>1, <2>2
<1>4. ASSUME Len(s) = m PROVE IsRest(k, d, n + 1, S)
  <2>1. s[m] = LastSent(k, d) BY <1>4, <1>2 DEF IsRest
  <2>2. Len(k) = n + 1 BY <2>1, <1>3 DEF LastSent, Head_, Body
  <2>3. ~d
    <3>1. ASSUME d PROVE FALSE
      <4>1. s[m] = Head_(Len(k)) BY <3>1, <2>1 DEF LastSent
      <4>2. After(k, s[m]) = Body(Len(k)) BY <4>1, <3>1 DEF After, Head_
      <4> QED BY <4>2, <1>3 DEF Head_, Body
    <3> QED BY <3>1
  <2>4. S = <<>> BY <1>1, <1>4
  <2> QED BY <2>2, <2>3, <2>4 DEF IsRest
<1>5. ASSUME Len(s) > m PROVE IsRest(k, d, n + 1, S)
  <2>1. S # <<>> /\ S[1] = s[m + 1] /\ S[Len(S)] = s[Len(s)]
    <3>1. m \in Nat /\ Len(s) \in Nat OBVIOUS
    <3>2. 1 \in 1..Len(S) /\ Len(S) \in 1..Len(S) /\ Len(S) + m = Len(s) /\ 1 + m = m + 1
      BY <1>1, <1>5, <3>1
    <3>3. S[1] = s[1 + m] /\ S[Len(S)] = s[Len(S) + m] BY <1>1, <3>2
    <3> QED BY <3>2, <3>3
  <2>2. s[m + 1] = After(k, s[m]) BY <1>5 DEF IsRest
  <2>3. ASSUME NEW i \in 1..Len(S) PROVE S[i].req \in 1..Len(k)
    <3>1. m \in Nat /\ Len(s) \in Nat OBVIOUS
    <3>2. i + m \in 1..Len(s) /\ S[i] = s[i + m] BY <1>1, <3>1
    <3> QED BY <3>2 DEF IsRest
  <2>4. \A i \in 1..Len(S) - 1 : S[i + 1] = After(k, S[i])
    <3> TAKE i \in 1..Len(S) - 1
    <3>1. i + m \in 1..Len(s) - 1 /\ S[i] = s[i + m] /\ S[i + 1] = s[(i + m) + 1] BY <1>1
    <3> QED BY <3>1 DEF IsRest
  <2>5. s[Len(s)] = LastSent(k, d) BY <1>2 DEF IsRest
  <2>6. S[1] = Head_((n + 1) + 1) BY <2>1, <2>2, <1>3
  <2> QED BY <2>1, <2>3, <2>4, <2>5, <2>6 DEF IsRest
<1>6. Len(s) = m \/ Len(s) > m
  <2>1. Len(s) \in Nat OBVIOUS
  <2>2. m \in Nat /\ m <= Len(s) BY <2>1
  <2> QED BY <2>1, <2>2
<1> QED BY <1>4, <1>5, <1>6 DEF S

\* A body on the way was sent whole.
LEMMA BodyIsSent ==
  ASSUME NEW k \in Seq(Kinds), NEW d \in BOOLEAN, NEW n \in Nat, NEW s \in Seq(Chunk),
         IsRest(k, d, n, s), NEW i \in 1..Len(s), NEW r \in Nat, s[i] = Body(r)
  PROVE  r < Len(k) \/ ~d
<1>1. CASE i = Len(s)
  BY <1>1 DEF IsRest, LastSent, Body, Head_
<1>2. CASE i < Len(s)
  <2>1. s[i + 1] = Head_(r + 1)
    <3>1. s[i + 1] = After(k, s[i]) BY <1>2 DEF IsRest
    <3> QED BY <3>1 DEF After, Body
  <2>2. s[i + 1].req \in 1..Len(k) BY <1>2 DEF IsRest
  <2> QED BY <2>1, <2>2 DEF Head_
<1> QED BY <1>1, <1>2

----------------------------------------------------------------------------
(* The connections.                                                        *)

Record == [req : Nat, result : Results, known : BOOLEAN]

HistoryOK ==
  /\ kind \in [Conns -> Seq(Kinds)]
  /\ due \in [Conns -> BOOLEAN]
  /\ net \in [Conns -> Seq(Chunk)]
  /\ recv \in [Conns -> Seq(Chunk)]
  /\ served \in [Conns -> Seq(Record)]
  /\ userData \in [Conns \cup {Listener} -> BOOLEAN]
  /\ DOMAIN phase = Conns

\* What is received and on the way to an open connection is what its client sent
\* since the last request that was handed on.
StreamOK(c) ==
  /\ due[c] => HasBody(kind[c][Len(kind[c])])
  /\ phase[c] # "closed" => IsRest(kind[c], due[c], Len(served[c]), recv[c] \o net[c])

Effective(c, i) ==
  served[c][i].result = "done" /\ HasBody(kind[c][i]) => i < Len(kind[c]) \/ ~due[c]

ServedOK(c) ==
  /\ Len(served[c]) <= Len(kind[c])
  /\ \A i \in 1..Len(served[c]) : served[c][i].req = i /\ Effective(c, i)

\* Only open connections are handled, and all before any is closed.
TodoOK ==
  /\ \A c \in Conns : c \in todo => phase[c] = "open"
  /\ stage # "handle" => todo = {}

StreamInv == HistoryOK /\ TodoOK /\ \A c \in Conns : StreamOK(c) /\ ServedOK(c)

LEMMA InitStreamInv == Init => StreamInv
<1> SUFFICES ASSUME Init PROVE StreamInv OBVIOUS
<1>1. HistoryOK /\ TodoOK BY DEF Init, HistoryOK, TodoOK
<1>2. ASSUME NEW c \in Conns PROVE StreamOK(c) /\ ServedOK(c)
  BY DEF Init, StreamOK, ServedOK, IsRest
<1> QED BY <1>1, <1>2 DEF StreamInv

\* The step of one connection.
LEMMA OneStep ==
  ASSUME StreamInv, NEW c \in Conns, HistoryOK', TodoOK', StreamOK(c)', ServedOK(c)',
         \A x \in Conns \ {c} :
           /\ kind'[x] = kind[x] /\ due'[x] = due[x] /\ net'[x] = net[x]
           /\ recv'[x] = recv[x] /\ served'[x] = served[x]
           /\ phase'[x] = phase[x]
  PROVE  StreamInv'
<1>1. ASSUME NEW x \in Conns, x # c PROVE StreamOK(x)' /\ ServedOK(x)'
  BY <1>1 DEF StreamInv, StreamOK, ServedOK, Effective
<1> QED BY <1>1 DEF StreamInv

LEMMA Unserved ==
  ASSUME StreamInv, NEW c \in Conns, UNCHANGED <<kind, due, served>>
  PROVE  ServedOK(c)'
BY DEF StreamInv, ServedOK, Effective

LEMMA SendHeadStep ==
  ASSUME StreamInv, NEW c \in Conns, NEW k \in Kinds, SendHead(c, k)
  PROVE  StreamInv'
<1> DEFINE K == kind[c]
           n == Len(served[c])
           s == recv[c] \o net[c]
           h == Head_(Len(K) + 1)
<1>1. /\ K \in Seq(Kinds) /\ due[c] = FALSE /\ served[c] \in Seq(Record) /\ n \in Nat
      /\ recv[c] \in Seq(Chunk) /\ net[c] \in Seq(Chunk) /\ h \in Chunk
  BY DEF SendHead, StreamInv, HistoryOK, Head_, Chunk
<1>2. /\ kind' = [kind EXCEPT ![c] = Append(K, k)] /\ due' = [due EXCEPT ![c] = HasBody(k)]
      /\ net' = [net EXCEPT ![c] = Append(@, h)]
      /\ UNCHANGED <<phase, recv, served, userData, todo, stage>> /\ phase[c] # "closed"
  BY DEF SendHead, CanSend, connVars, pollVars
<1>3. HistoryOK'
  <2>1. HasBody(k) \in BOOLEAN BY DEF HasBody
  <2>2. Append(K, k) \in Seq(Kinds) /\ Append(net[c], h) \in Seq(Chunk) BY <1>1
  <2> QED BY <1>1, <1>2, <2>1, <2>2 DEF StreamInv, HistoryOK
<1>4. TodoOK' BY <1>2 DEF StreamInv, TodoOK
<1>5. kind'[c] = Append(K, k) /\ due'[c] = HasBody(k) /\ net'[c] = Append(net[c], h)
  BY <1>2 DEF StreamInv, HistoryOK
<1>6. recv[c] \o Append(net[c], h) = Append(s, h) /\ s \in Seq(Chunk)
  BY <1>1, AppendMoves
<1>7. IsRest(Append(K, k), HasBody(k), n, Append(s, h))
  BY <1>1, <1>2, <1>6, RestHead DEF StreamInv, StreamOK
<1>8. Append(K, k)[Len(Append(K, k))] = k BY <1>1
<1>9. StreamOK(c)' BY <1>2, <1>5, <1>6, <1>7, <1>8 DEF StreamOK
<1>10. ServedOK(c)'
  <2>1. n <= Len(K) BY DEF StreamInv, ServedOK
  <2> HIDE DEF K, n
  <2>2. Len(Append(K, k)) = Len(K) + 1 /\ Len(K) \in Nat BY <1>1
  <2>3. \A i \in 1..n : i < Len(K) + 1 BY <1>1, <2>1, <2>2
  <2>4. \A i \in 1..n : served[c][i].req = i BY DEF StreamInv, ServedOK, n
  <2>5. Len(served'[c]) = n /\ served'[c] = served[c] BY <1>2 DEF n
  <2> QED BY <1>1, <1>5, <2>1, <2>2, <2>3, <2>4, <2>5 DEF ServedOK, Effective
<1>11. \A x \in Conns \ {c} :
         /\ kind'[x] = kind[x] /\ due'[x] = due[x] /\ net'[x] = net[x]
         /\ recv'[x] = recv[x] /\ served'[x] = served[x]
         /\ phase'[x] = phase[x]
  <2>1. /\ DOMAIN kind = Conns /\ DOMAIN due = Conns /\ DOMAIN net = Conns
    BY DEF StreamInv, HistoryOK
  <2> HIDE DEF K, n, s
  <2> QED BY <1>2, <2>1
<1> HIDE DEF K, n, s, h
<1> QED BY <1>3, <1>4, <1>9, <1>10, <1>11, OneStep

LEMMA SendBodyStep ==
  ASSUME StreamInv, NEW c \in Conns, SendBody(c)
  PROVE  StreamInv'
<1> DEFINE K == kind[c]
           n == Len(served[c])
           s == recv[c] \o net[c]
           b == Body(Len(K))
<1>1. /\ K \in Seq(Kinds) /\ due[c] = TRUE /\ served[c] \in Seq(Record) /\ n \in Nat
      /\ recv[c] \in Seq(Chunk) /\ net[c] \in Seq(Chunk) /\ b \in Chunk
  BY DEF SendBody, StreamInv, HistoryOK, Body, Chunk
<1>2. /\ due' = [due EXCEPT ![c] = FALSE]
      /\ net' = [net EXCEPT ![c] = Append(@, b)]
      /\ UNCHANGED <<kind, phase, recv, served, userData, todo, stage>> /\ phase[c] # "closed"
  BY DEF SendBody, CanSend, connVars, pollVars
<1>3. HistoryOK'
  <2>1. Append(net[c], b) \in Seq(Chunk) BY <1>1
  <2> QED BY <1>1, <1>2, <2>1 DEF StreamInv, HistoryOK
<1>4. TodoOK' BY <1>2 DEF StreamInv, TodoOK
<1>5. kind'[c] = K /\ due'[c] = FALSE /\ net'[c] = Append(net[c], b)
  BY <1>2 DEF StreamInv, HistoryOK
<1>6. recv[c] \o Append(net[c], b) = Append(s, b) /\ s \in Seq(Chunk)
  BY <1>1, AppendMoves
<1>7. IsRest(K, FALSE, n, Append(s, b))
  BY <1>1, <1>2, <1>6, RestBody DEF StreamInv, StreamOK
<1>8. StreamOK(c)' BY <1>2, <1>5, <1>6, <1>7 DEF StreamOK
<1>9. ServedOK(c)' BY <1>2, <1>5 DEF StreamInv, ServedOK, Effective
<1>10. \A x \in Conns \ {c} :
         /\ kind'[x] = kind[x] /\ due'[x] = due[x] /\ net'[x] = net[x]
         /\ recv'[x] = recv[x] /\ served'[x] = served[x]
         /\ phase'[x] = phase[x]
  <2>1. /\ DOMAIN kind = Conns /\ DOMAIN due = Conns /\ DOMAIN net = Conns
    BY DEF StreamInv, HistoryOK
  <2> HIDE DEF K, n, s
  <2> QED BY <1>2, <2>1
<1> HIDE DEF K, n, s, b
<1> QED BY <1>3, <1>4, <1>8, <1>9, <1>10, OneStep

\* A step that hands nothing on and moves nothing in a stream.
LEMMA QuietStep ==
  ASSUME StreamInv, UNCHANGED <<kind, due, net, recv, served>>, TodoOK',
         userData' \in [Conns \cup {Listener} -> BOOLEAN], DOMAIN phase' = Conns,
         \A c \in Conns : phase[c] = "closed" => phase'[c] = "closed"
  PROVE  StreamInv'
<1>1. HistoryOK' BY DEF StreamInv, HistoryOK
<1>2. ASSUME NEW c \in Conns PROVE StreamOK(c)' /\ ServedOK(c)'
  BY DEF StreamInv, StreamOK, ServedOK, Effective
<1> QED BY <1>1, <1>2 DEF StreamInv

\* A step that may move bytes from the network into the receive buffer, and no more.
LEMMA MovedStep ==
  ASSUME StreamInv, UNCHANGED <<kind, due, served>>, TodoOK',
         net' \in [Conns -> Seq(Chunk)], recv' \in [Conns -> Seq(Chunk)],
         \A c \in Conns : recv'[c] \o net'[c] = recv[c] \o net[c],
         userData' \in [Conns \cup {Listener} -> BOOLEAN], DOMAIN phase' = Conns,
         \A c \in Conns : phase[c] = "closed" => phase'[c] = "closed"
  PROVE  StreamInv'
<1>1. HistoryOK' BY DEF StreamInv, HistoryOK
<1>2. ASSUME NEW c \in Conns PROVE StreamOK(c)' /\ ServedOK(c)'
  <2>1. ServedOK(c)' BY Unserved
  <2>2. StreamOK(c)' BY DEF StreamInv, StreamOK
  <2> QED BY <2>1, <2>2
<1> QED BY <1>1, <1>2 DEF StreamInv

\* An exception that leaves the poll leaves the request where it was received.
LEMMA ThrowReceives ==
  ASSUME Throw
  PROVE  \/ UNCHANGED <<net, recv>>
         \/ \E c \in Conns : \E j \in 1..Len(net[c]) :
              /\ net' = [net EXCEPT ![c] = SubSeq(@, j + 1, Len(@))]
              /\ recv' = [recv EXCEPT ![c] = recv[c] \o SubSeq(net[c], 1, j)]
BY Zenon DEF Throw, ThrowRead, ThrowClose

LEMMA ThrowTypes ==
  ASSUME NEW S, Throw, net \in [Conns -> Seq(S)], recv \in [Conns -> Seq(S)]
  PROVE  net' \in [Conns -> Seq(S)] /\ recv' \in [Conns -> Seq(S)]
<1>1. ASSUME NEW c \in Conns, NEW j \in 1..Len(net[c]),
             net' = [net EXCEPT ![c] = SubSeq(@, j + 1, Len(@))],
             recv' = [recv EXCEPT ![c] = recv[c] \o SubSeq(net[c], 1, j)]
      PROVE  net' \in [Conns -> Seq(S)] /\ recv' \in [Conns -> Seq(S)]
  <2> DEFINE r == recv[c]
             t == net[c]
  <2>1. r \in Seq(S) /\ t \in Seq(S) /\ j \in 1..Len(t) OBVIOUS
  <2>2. /\ net' = [net EXCEPT ![c] = SubSeq(t, j + 1, Len(t))]
        /\ recv' = [recv EXCEPT ![c] = r \o SubSeq(t, 1, j)]
    BY <1>1
  <2> HIDE DEF r, t
  <2>3. SubSeq(t, 1, j) \in Seq(S) /\ SubSeq(t, j + 1, Len(t)) \in Seq(S) BY <2>1
  <2>4. r \o SubSeq(t, 1, j) \in Seq(S) BY <2>1, <2>3
  <2> QED BY <2>2, <2>3, <2>4
<1>2. CASE UNCHANGED <<net, recv>> BY <1>2
<1> QED BY <1>1, <1>2, ThrowReceives

ChunksOK ==
  net \in [Conns -> Seq(Chunk)] /\ recv \in [Conns -> Seq(Chunk)]

LEMMA ThrowMoves ==
  ASSUME Throw, ChunksOK
  PROVE  /\ ChunksOK'
         /\ \A c \in Conns : recv'[c] \o net'[c] = recv[c] \o net[c]
<1>1. ASSUME NEW c \in Conns, NEW j \in 1..Len(net[c]),
             net' = [net EXCEPT ![c] = SubSeq(@, j + 1, Len(@))],
             recv' = [recv EXCEPT ![c] = recv[c] \o SubSeq(net[c], 1, j)]
      PROVE  \A x \in Conns : recv'[x] \o net'[x] = recv[x] \o net[x]
  <2> DEFINE u == recv[c] \o SubSeq(net[c], 1, j)
             v == SubSeq(net[c], j + 1, Len(net[c]))
             s == recv[c] \o net[c]
  <2>1. recv[c] \in Seq(Chunk) /\ net[c] \in Seq(Chunk) BY DEF ChunksOK
  <2>2. u \o v = s BY <2>1, SplitSeq
  <2>3. net' = [net EXCEPT ![c] = v] /\ recv' = [recv EXCEPT ![c] = u] BY <1>1
  <2>4. \A x \in Conns \ {c} : recv'[x] = recv[x] /\ net'[x] = net[x] BY <1>1 DEF ChunksOK
  <2>5. recv'[c] = u /\ net'[c] = v BY <2>3 DEF ChunksOK
  <2> HIDE DEF u, v
  <2>6. recv'[c] \o net'[c] = recv[c] \o net[c] BY <2>2, <2>5, Zenon DEF s
  <2>7. ASSUME NEW x \in Conns \ {c} PROVE recv'[x] \o net'[x] = recv[x] \o net[x]
    BY <2>4, <2>7, Zenon
  <2> QED BY <2>6, <2>7
<1>2. ASSUME UNCHANGED <<net, recv>>
      PROVE  \A x \in Conns : recv'[x] \o net'[x] = recv[x] \o net[x]
  BY <1>2
<1>3. ChunksOK' BY ThrowTypes DEF ChunksOK
<1> QED BY <1>1, <1>2, <1>3, ThrowReceives

\* The poll is left by an exception: the connections stay, or go with the
\* process, and the server stays behind them, or goes.
Broken ==
  /\ Throw
  /\ phase' \in {phase, [c \in Conns |-> "closed"]}
  /\ userData' \in {userData, [c \in DOMAIN userData |-> FALSE]}

LEMMA StreamBroken == StreamInv /\ Broken => StreamInv'
<1> SUFFICES ASSUME StreamInv, Broken PROVE StreamInv' OBVIOUS
<1>1. UNCHANGED <<kind, due, served>> /\ TodoOK'
  BY DEF Broken, Throw, clientVars, TodoOK
<1>2. /\ userData' \in [Conns \cup {Listener} -> BOOLEAN] /\ DOMAIN phase' = Conns
      /\ \A c \in Conns : phase[c] = "closed" => phase'[c] = "closed"
  BY DEF Broken, StreamInv, HistoryOK
<1>3. /\ net' \in [Conns -> Seq(Chunk)] /\ recv' \in [Conns -> Seq(Chunk)]
      /\ \A c \in Conns : recv'[c] \o net'[c] = recv[c] \o net[c]
  <2>1. ChunksOK /\ Throw BY DEF Broken, StreamInv, HistoryOK, ChunksOK
  <2>2. ChunksOK' /\ \A c \in Conns : recv'[c] \o net'[c] = recv[c] \o net[c]
    BY <2>1, ThrowMoves
  <2> QED BY <2>2 DEF ChunksOK
<1> QED BY <1>1, <1>2, <1>3, MovedStep

LEMMA HandledTodo ==
  ASSUME StreamInv, NEW c, c \in todo, stage = "handle", Proceed(c),
         \A x \in Conns : phase[x] = "open" => phase'[x] = "open"
  PROVE  TodoOK'
BY DEF StreamInv, TodoOK, Proceed

\* What the handler does with the stream of a connection: nothing, or it takes
\* the first request, all of it, from the front.
LEMMA ReadTakes ==
  ASSUME StreamInv, NEW c \in Conns, phase[c] = "open",
         NEW j \in 1..Len(net[c]),
         net' = [net EXCEPT ![c] = SubSeq(@, j + 1, Len(@))],
         Receive(c, recv[c] \o SubSeq(net[c], 1, j)),
         UNCHANGED <<kind, due, phase, userData>>
  PROVE  /\ HistoryOK' /\ StreamOK(c)' /\ ServedOK(c)'
         /\ \A x \in Conns \ {c} :
              net'[x] = net[x] /\ recv'[x] = recv[x] /\ served'[x] = served[x]
<1> DEFINE K == kind[c]
           d == due[c]
           n == Len(served[c])
           s == recv[c] \o net[c]
           buf == recv[c] \o SubSeq(net[c], 1, j)
           left == SubSeq(net[c], j + 1, Len(net[c]))
<1>1. /\ K \in Seq(Kinds) /\ d \in BOOLEAN /\ served[c] \in Seq(Record) /\ n \in Nat
      /\ recv[c] \in Seq(Chunk) /\ net[c] \in Seq(Chunk) /\ s \in Seq(Chunk)
  BY DEF StreamInv, HistoryOK
<1>2. /\ buf \in Seq(Chunk) /\ left \in Seq(Chunk) /\ buf \o left = s
      /\ buf # <<>> /\ Len(buf) <= Len(s) /\ Len(buf) \in Nat \ {0}
      /\ \A i \in 1..Len(buf) : buf[i] = s[i]
  <2>0. recv[c] \in Seq(Chunk) /\ net[c] \in Seq(Chunk) BY <1>1
  <2>1. /\ buf \in Seq(Chunk) /\ left \in Seq(Chunk) /\ buf \o left = s
        /\ \A i \in 1..Len(buf) : buf[i] = s[i]
    <3>1. buf \in Seq(Chunk) /\ left \in Seq(Chunk) BY <2>0
    <3>2. buf \o left = s BY <2>0, SplitSeq
    <3>3. \A i \in 1..Len(buf) : buf[i] = s[i] BY <2>0, SplitSeq
    <3> QED BY <3>1, <3>2, <3>3
  <2>2. Len(buf) = Len(recv[c]) + j BY <2>0, SplitSeq
  <2> HIDE DEF buf, left, s
  <2>3. Len(buf) \in Nat \ {0}
    <3>1. Len(recv[c]) \in Nat /\ j \in Nat \ {0} BY <2>0
    <3> QED BY <2>2, <3>1
  <2>4. Len(buf \o left) = Len(buf) + Len(left) /\ Len(left) \in Nat BY <2>1, ConcatParts
  <2>5. Len(buf) <= Len(s) BY <2>1, <2>3, <2>4
  <2>6. buf # <<>> BY <2>3
  <2> QED BY <2>1, <2>3, <2>5, <2>6
<1>3. /\ IsRest(K, d, n, s) /\ s # <<>> /\ s[1] = Head_(n + 1) /\ buf[1].req = n + 1
      /\ n + 1 \in 1..Len(K) /\ (d => HasBody(K[Len(K)])) /\ n + 1 \in Nat
  <2>1. IsRest(K, d, n, s) /\ (d => HasBody(K[Len(K)])) BY DEF StreamInv, StreamOK
  <2>2. s # <<>> /\ Len(s) >= 1
    <3> HIDE DEF s, buf
    <3>1. Len(s) \in Nat /\ Len(s) >= 1 BY <1>1, <1>2
    <3> QED BY <3>1
  <2>3. s[1] = Head_(n + 1) /\ s[1].req \in 1..Len(K)
    <3> HIDE DEF s, K, n
    <3> QED BY <2>1, <2>2, <1>1 DEF IsRest
  <2> HIDE DEF s, K, n, buf
  <2> QED BY <2>1, <2>2, <2>3, <1>1, <1>2 DEF Head_
<1>4. net'[c] = left /\ \A x \in Conns \ {c} : net'[x] = net[x]
  BY DEF StreamInv, HistoryOK
<1>5. net' \in [Conns -> Seq(Chunk)] BY <1>2 DEF StreamInv, HistoryOK
<1>6. CASE ~(MessageLen(c, buf) > 0)
  <2>1. recv' = [recv EXCEPT ![c] = buf] /\ served' = served
    BY <1>6 DEF Receive
  <2>2. recv'[c] = buf /\ \A x \in Conns \ {c} : recv'[x] = recv[x]
    BY <2>1 DEF StreamInv, HistoryOK
  <2>3. HistoryOK'
    <3>1. recv' \in [Conns -> Seq(Chunk)] BY <2>1, <1>2 DEF StreamInv, HistoryOK
    <3> HIDE DEF buf
    <3> QED BY <1>5, <2>1, <3>1 DEF StreamInv, HistoryOK
  <2>4. recv'[c] \o net'[c] = s BY <1>2, <1>4, <2>2
  <2>5. StreamOK(c)' BY <2>4, <2>1, <1>3 DEF StreamOK
  <2>6. ServedOK(c)' BY <2>1, Unserved
  <2> QED BY <1>4, <2>1, <2>2, <2>3, <2>5, <2>6
<1>7. CASE MessageLen(c, buf) > 0
  <2> DEFINE len == MessageLen(c, buf)
             body == SubSeq(buf, 2, len)
             rest == SubSeq(buf, len + 1, Len(buf))
             new == [req |-> n + 1, result |-> Result(c, n + 1, body), known |-> userData[c]]
  <2>1. /\ len \in 1..Len(buf) /\ len \in 1..Len(s) /\ len \in Nat
        /\ HasBody(K[s[1].req]) => len = 2
        /\ ~HasBody(K[s[1].req]) => len = 1
    <3>1. s[1].req = n + 1 BY <1>3 DEF Head_
    <3>2. len = CASE K[n + 1] \in {"get", "page"} -> 1
                  [] K[n + 1] = "order" /\ Len(buf) >= 2 -> 2
                  [] OTHER -> 0
      <4> HIDE DEF buf
      <4> QED BY <1>3 DEF MessageLen, Waiting
    <3>6. len > 0 BY <1>7
    <3> HIDE DEF len, s, buf, K, n
    <3>3. CASE K[n + 1] \in {"get", "page"}
      <4>1. len = 1 /\ ~HasBody(K[n + 1])
        BY <3>2, <3>3 DEF HasBody
      <4> QED BY <4>1, <3>1, <1>2
    <3>4. CASE K[n + 1] = "order" /\ Len(buf) >= 2
      <4>1. len = 2 /\ HasBody(K[n + 1])
        BY <3>2, <3>4 DEF HasBody
      <4> QED BY <4>1, <3>1, <3>4, <1>2
    <3>5. CASE ~(K[n + 1] \in {"get", "page"}) /\ ~(K[n + 1] = "order" /\ Len(buf) >= 2)
      <4>1. len = 0 BY <3>2, <3>5
      <4> QED BY <4>1, <3>6
    <3> QED BY <3>3, <3>4, <3>5
  <2>2. /\ served' = [served EXCEPT ![c] = Append(served[c], new)]
        /\ recv' = [recv EXCEPT ![c] = rest]
    BY <1>2, <1>3, <1>7 DEF Receive, Dispatched
  <2>3. new \in Record
    <3>1. Result(c, n + 1, body) \in Results BY DEF Result, Results
    <3>2. userData[c] \in BOOLEAN BY DEF StreamInv, HistoryOK
    <3> QED BY <3>1, <3>2, <1>3 DEF Record
  <2> HIDE DEF new
  <2>4. rest \in Seq(Chunk) /\ rest \o left = SubSeq(s, len + 1, Len(s))
    <3> HIDE DEF len, buf, left, s
    <3>1. rest \in Seq(Chunk) /\ rest \o left = SubSeq(buf \o left, len + 1, Len(buf \o left))
      <4>1. buf \in Seq(Chunk) /\ left \in Seq(Chunk) /\ len \in 1..Len(buf) BY <1>2, <2>1
      <4> QED BY <4>1, DropSeq
    <3> HIDE DEF rest
    <3> QED BY <3>1, <1>2
  <2> HIDE DEF rest
  <2>5. recv'[c] = rest /\ \A x \in Conns \ {c} : recv'[x] = recv[x]
    BY <2>2 DEF StreamInv, HistoryOK
  <2>6. served'[c] = Append(served[c], new) /\ \A x \in Conns \ {c} : served'[x] = served[x]
    BY <2>2 DEF StreamInv, HistoryOK
  <2>7. HistoryOK'
    <3>1. Append(served[c], new) \in Seq(Record) BY <1>1, <2>3
    <3>2. served' \in [Conns -> Seq(Record)] BY <2>2, <3>1 DEF StreamInv, HistoryOK
    <3>3. recv' \in [Conns -> Seq(Chunk)] BY <2>2, <2>4 DEF StreamInv, HistoryOK
    <3> QED BY <1>5, <3>2, <3>3 DEF StreamInv, HistoryOK
  <2>8. Len(served'[c]) = n + 1 /\ served'[c][n + 1] = new
        /\ \A i \in 1..n : served'[c][i] = served[c][i]
    BY <1>1, <2>3, <2>6
  <2>9. IsRest(K, d, n + 1, SubSeq(s, len + 1, Len(s)))
    <3> HIDE DEF len, s, K, n, d
    <3> QED BY <1>1, <1>3, <2>1, RestTaken
  <2>10. StreamOK(c)'
    <3> HIDE DEF len
    <3> QED BY <1>3, <1>4, <2>4, <2>5, <2>8, <2>9 DEF StreamOK
  <2>11. new.result = "done" /\ HasBody(K[n + 1]) => n + 1 < Len(K) \/ ~d
    <3>1. SUFFICES ASSUME new.result = "done", HasBody(K[n + 1])
                   PROVE  n + 1 < Len(K) \/ ~d
      OBVIOUS
    <3>2. len = 2 BY <2>1, <3>1, <1>3 DEF Head_
    <3>3. s[2] = Body(n + 1)
      <4>1. s[1 + 1] = After(K, s[1])
        <5> HIDE DEF s, K, n, d, len
        <5>1. 1 \in 1..Len(s) - 1 BY <2>1, <3>2
        <5> QED BY <5>1, <1>3 DEF IsRest
      <4> HIDE DEF s, K, n, d, len
      <4> QED BY <4>1, <1>3, <3>1 DEF After, Head_
    <3>4. 2 \in 1..Len(s)
      <4> HIDE DEF s, len
      <4> QED BY <2>1, <3>2
    <3> HIDE DEF s, K, n, d
    <3> QED BY <1>1, <1>3, <3>3, <3>4, BodyIsSent
  <2>12. ServedOK(c)'
    <3>1. n + 1 <= Len(K) BY <1>3
    <3>2. ASSUME NEW i \in 1..n + 1 PROVE served'[c][i].req = i /\ Effective(c, i)'
      <4>1. CASE i = n + 1
        <5>1. served'[c][i] = new /\ new.req = n + 1 BY <4>1, <2>8 DEF new
        <5>2. kind'[c] = K /\ due'[c] = d OBVIOUS
        <5> HIDE DEF n, d, K
        <5>3. served'[c][i].req = i BY <4>1, <5>1
        <5>4. Effective(c, i)'
          <6>1. Effective(c, i)' = (served'[c][i].result = "done" /\ HasBody(kind'[c][i])
                                      => i < Len(kind'[c]) \/ ~due'[c])
            BY DEF Effective
          <6> QED BY <4>1, <5>1, <5>2, <6>1, <2>11
        <5> QED BY <5>3, <5>4
      <4>2. CASE i \in 1..n
        <5>1. served[c][i].req = i /\ Effective(c, i) BY <4>2 DEF StreamInv, ServedOK
        <5>2. served'[c][i] = served[c][i] BY <4>2, <2>8
        <5> QED BY <5>1, <5>2 DEF Effective
      <4>3. i = n + 1 \/ i \in 1..n
        <5> HIDE DEF n
        <5> QED BY <1>1
      <4> QED BY <4>1, <4>2, <4>3
    <3> QED BY <2>8, <3>1, <3>2 DEF ServedOK
  <2> QED BY <1>4, <2>5, <2>6, <2>7, <2>10, <2>12
<1> QED BY <1>6, <1>7

LEMMA ReadStep ==
  ASSUME StreamInv, NEW c \in Conns, Read(c)
  PROVE  StreamInv'
<1>1. /\ stage = "handle" /\ c \in todo /\ phase[c] = "open"
      /\ UNCHANGED <<kind, due, phase, userData>>
  BY DEF Read, clientVars, StreamInv, TodoOK
<1>2. PICK j \in 1..Len(net[c]) :
        /\ net' = [net EXCEPT ![c] = SubSeq(@, j + 1, Len(@))]
        /\ Receive(c, recv[c] \o SubSeq(net[c], 1, j))
        /\ Proceed(c) \/ UNCHANGED <<stage, todo>>
  BY DEF Read
<1>3. /\ HistoryOK' /\ StreamOK(c)' /\ ServedOK(c)'
      /\ \A x \in Conns \ {c} :
           net'[x] = net[x] /\ recv'[x] = recv[x] /\ served'[x] = served[x]
  BY <1>1, <1>2, ReadTakes
<1>4. TodoOK' BY <1>1, <1>2, HandledTodo DEF StreamInv, TodoOK
<1> QED BY <1>1, <1>3, <1>4, OneStep

\* At the close the request that is there is handed on, whole or not.
\* A connection is closed, by the poll or with the server, after it was handled.
LEMMA CloseStep ==
  ASSUME StreamInv, NEW c \in Conns, phase[c] = "open", c \notin todo, CloseConn(c)
  PROVE  StreamInv'
<1> DEFINE n == Len(served[c])
           buf == recv[c]
           s == buf \o net[c]
           K == kind[c]
           d == due[c]
           new == [req |-> n + 1, result |-> Result(c, n + 1, Tail(buf)), known |-> userData[c]]
<1>1. /\ phase[c] = "open" /\ c \notin todo
      /\ userData' = [userData EXCEPT ![c] = FALSE]
      /\ phase' = [phase EXCEPT ![c] = "closed"]
      /\ recv' = [recv EXCEPT ![c] = <<>>]
      /\ UNCHANGED <<kind, due, net, stage, todo>>
  BY DEF CloseConn, clientVars, pollVars
<1>2. /\ K \in Seq(Kinds) /\ d \in BOOLEAN /\ served[c] \in Seq(Record) /\ n \in Nat
      /\ buf \in Seq(Chunk) /\ net[c] \in Seq(Chunk) /\ s \in Seq(Chunk)
  BY DEF StreamInv, HistoryOK
<1>3. TodoOK' BY <1>1 DEF StreamInv, HistoryOK, TodoOK
<1>4. phase'[c] = "closed" /\ \A x \in Conns \ {c} : recv'[x] = recv[x] /\ phase'[x] = phase[x]
  BY <1>1 DEF StreamInv, HistoryOK
<1>5. StreamOK(c)' BY <1>1, <1>4 DEF StreamInv, StreamOK
<1>6. /\ userData' \in [Conns \cup {Listener} -> BOOLEAN]
      /\ recv' \in [Conns -> Seq(Chunk)] /\ DOMAIN phase' = Conns
  BY <1>1 DEF StreamInv, HistoryOK
<1>7. CASE served' = served
  <2>1. HistoryOK' BY <1>1, <1>6, <1>7 DEF StreamInv, HistoryOK
  <2>2. ServedOK(c)' BY <1>1, <1>7, Unserved
  <2> QED BY <1>1, <1>3, <1>4, <1>5, <1>7, <2>1, <2>2, OneStep
<1>8. CASE buf # <<>> /\ served' = [served EXCEPT ![c] = Dispatched(c, buf[1].req, Tail(buf))]
  <2>1. /\ IsRest(K, d, n, s) /\ Len(buf) \in Nat \ {0} /\ Len(s) \in Nat
        /\ Len(buf) <= Len(s) /\ \A i \in 1..Len(buf) : s[i] = buf[i]
    <3>1. IsRest(K, d, n, s) BY <1>1 DEF StreamInv, StreamOK
    <3>2. Len(buf) \in Nat /\ Len(buf) # 0 BY <1>2, <1>8
    <3>3. Len(s) = Len(buf) + Len(net[c]) /\ Len(net[c]) \in Nat
          /\ \A i \in 1..Len(buf) : s[i] = buf[i]
      <4>1. buf \in Seq(Chunk) /\ net[c] \in Seq(Chunk) BY <1>2
      <4> HIDE DEF buf
      <4> QED BY <4>1, ConcatParts
    <3> HIDE DEF s, buf, K, d, n
    <3> QED BY <3>1, <3>2, <3>3
  <2>2. s # <<>> /\ s[1] = Head_(n + 1) /\ buf[1].req = n + 1 /\ n + 1 \in 1..Len(K)
    <3> HIDE DEF s, buf, K, d, n
    <3>1. s # <<>> /\ 1 \in 1..Len(s) BY <2>1
    <3>2. s[1] = Head_(n + 1) /\ s[1].req \in 1..Len(K) BY <2>1, <3>1 DEF IsRest
    <3> QED BY <2>1, <3>1, <3>2 DEF Head_
  <2>3. served' = [served EXCEPT ![c] = Append(served[c], new)]
    BY <1>8, <2>2 DEF Dispatched
  <2>4. new \in Record
    <3>1. Result(c, n + 1, Tail(buf)) \in Results BY DEF Result, Results
    <3>2. userData[c] \in BOOLEAN BY DEF StreamInv, HistoryOK
    <3> QED BY <1>2, <3>1, <3>2 DEF Record
  <2>5. new.req = n + 1 /\ new.result = Result(c, n + 1, Tail(buf)) OBVIOUS
  <2> HIDE DEF new
  <2>6. served'[c] = Append(served[c], new) /\ \A x \in Conns \ {c} : served'[x] = served[x]
    BY <2>3 DEF StreamInv, HistoryOK
  <2>7. Len(served'[c]) = n + 1 /\ served'[c][n + 1] = new
        /\ \A i \in 1..n : served'[c][i] = served[c][i]
    BY <1>2, <2>4, <2>6
  <2>8. HistoryOK'
    <3>1. Append(served[c], new) \in Seq(Record) BY <1>2, <2>4
    <3>2. served' \in [Conns -> Seq(Record)] BY <2>3, <3>1 DEF StreamInv, HistoryOK
    <3> QED BY <1>1, <1>6, <3>2 DEF StreamInv, HistoryOK
  <2>9. new.result = "done" /\ HasBody(K[n + 1]) => n + 1 < Len(K) \/ ~d
    <3> SUFFICES ASSUME new.result = "done", HasBody(K[n + 1])
                 PROVE  n + 1 < Len(K) \/ ~d
      OBVIOUS
    <3>1. Tail(buf) = <<Body(n + 1)>>
      <4>1. K[n + 1] \notin {"get", "page"} BY DEF HasBody
      <4>2. Result(c, n + 1, Tail(buf)) = "done" BY <2>5
      <4> HIDE DEF n, buf
      <4> QED BY <4>1, <4>2 DEF Result, K
    <3>2. Len(buf) = 2 /\ buf[2] = Body(n + 1)
      <4>1. Len(Tail(buf)) = 1 /\ Tail(buf)[1] = Body(n + 1)
        <5>1. \A x : Len(<<x>>) = 1 /\ <<x>>[1] = x OBVIOUS
        <5> QED BY <3>1, <5>1, Zenon
      <4>2. Len(Tail(buf)) = Len(buf) - 1 BY <1>2, <1>8
      <4>3. Len(buf) = 2 BY <4>1, <4>2, <2>1
      <4>4. Tail(buf)[1] = buf[2] BY <1>2, <1>8, <4>3
      <4> QED BY <4>1, <4>3, <4>4
    <3>3. 2 \in 1..Len(s) /\ s[2] = Body(n + 1)
      <4> HIDE DEF s, buf, n
      <4> QED BY <2>1, <3>2
    <3> HIDE DEF s, K, n, d, buf
    <3>4. n + 1 \in Nat BY <1>2
    <3> QED BY <1>2, <2>1, <3>3, <3>4, BodyIsSent
  <2>10. ServedOK(c)'
    <3>1. n + 1 <= Len(K) BY <2>2
    <3>2. ASSUME NEW i \in 1..n + 1 PROVE served'[c][i].req = i /\ Effective(c, i)'
      <4>1. CASE i = n + 1
        <5>1. served'[c][i] = new BY <4>1, <2>7
        <5>2. kind'[c] = K /\ due'[c] = d BY <1>1
        <5> HIDE DEF n, d, K
        <5>3. served'[c][i].req = i BY <4>1, <5>1, <2>5
        <5>4. Effective(c, i)'
          <6>1. Effective(c, i)' = (served'[c][i].result = "done" /\ HasBody(kind'[c][i])
                                      => i < Len(kind'[c]) \/ ~due'[c])
            BY DEF Effective
          <6> QED BY <4>1, <5>1, <5>2, <6>1, <2>9
        <5> QED BY <5>3, <5>4
      <4>2. CASE i \in 1..n
        <5>1. served[c][i].req = i /\ Effective(c, i) BY <4>2 DEF StreamInv, ServedOK
        <5>2. served'[c][i] = served[c][i] BY <4>2, <2>7
        <5> QED BY <1>1, <5>1, <5>2 DEF Effective
      <4>3. i = n + 1 \/ i \in 1..n
        <5> HIDE DEF n
        <5> QED BY <1>2
      <4> QED BY <4>1, <4>2, <4>3
    <3> QED BY <1>1, <2>7, <3>1, <3>2 DEF ServedOK
  <2> HIDE DEF s, buf, K, d, n
  <2> QED BY <1>1, <1>3, <1>4, <1>5, <2>6, <2>8, <2>10, OneStep
<1> QED BY <1>7, <1>8 DEF CloseConn

LEMMA StreamInvNext == StreamInv /\ [Next]_vars => StreamInv'
<1> SUFFICES ASSUME StreamInv, [Next]_vars PROVE StreamInv' OBVIOUS
<1>1. ASSUME NEW c \in Conns, Client(c) PROVE StreamInv'
  <2>1. CASE Connect(c)
    <3>1. TodoOK' BY <2>1 DEF Connect, pollVars, StreamInv, TodoOK
    <3>2. \A x \in Conns : phase[x] = "closed" => phase'[x] = "closed"
      BY <2>1 DEF Connect, StreamInv, HistoryOK
    <3>3. DOMAIN phase' = Conns BY <2>1 DEF Connect, StreamInv, HistoryOK
    <3> QED BY <2>1, <3>1, <3>2, <3>3, QuietStep DEF Connect, clientVars, StreamInv, HistoryOK
  <2>2. ASSUME NEW k \in Kinds, SendHead(c, k) PROVE StreamInv' BY <2>2, SendHeadStep
  <2>3. CASE SendBody(c) BY <2>3, SendBodyStep
  <2>4. CASE Finish(c)
    <3>1. TodoOK' BY <2>4 DEF Finish, connVars, pollVars, StreamInv, TodoOK
    <3> QED BY <2>4, <3>1, QuietStep DEF Finish, connVars, StreamInv, HistoryOK
  <2> QED BY <1>1, <2>1, <2>2, <2>3, <2>4 DEF Client
<1>2. CASE Select
  <2>1. TodoOK'
    <3>1. /\ todo' \subseteq Open \cup {Listener} /\ phase' = phase
          /\ stage' = "handle" \/ todo' = {}
      BY <1>2 DEF Select, connVars
    <3> QED BY <3>1, HttpAssumption DEF TodoOK, Open
  <2> QED BY <1>2, <2>1, QuietStep DEF Select, clientVars, connVars, StreamInv, HistoryOK
<1>3. ASSUME NEW c \in Conns, Accept(c) PROVE StreamInv'
  <2>1. \A x \in Conns : phase[x] \in {"open", "closed"} => phase'[x] = phase[x]
    BY <1>3 DEF Accept, StreamInv, HistoryOK
  <2>2. TodoOK' BY <1>3, <2>1, HandledTodo DEF Accept
  <2>3. userData' \in [Conns \cup {Listener} -> BOOLEAN] /\ DOMAIN phase' = Conns
    BY <1>3 DEF Accept, StreamInv, HistoryOK
  <2> QED BY <1>3, <2>1, <2>2, <2>3, QuietStep DEF Accept, clientVars
<1>4. ASSUME NEW c \in Conns, Read(c) PROVE StreamInv' BY <1>4, ReadStep
<1>5. ASSUME NEW c \in Conns, ReadEnd(c) \/ Write(c) PROVE StreamInv'
  <2>1. /\ stage = "handle" /\ c \in todo /\ Proceed(c)
        /\ UNCHANGED <<kind, due, net, recv, served, phase, userData>>
    BY <1>5 DEF ReadEnd, Write, clientVars
  <2>2. TodoOK' BY <2>1, HandledTodo
  <2> QED BY <2>1, <2>2, QuietStep DEF StreamInv, HistoryOK
<1>6. ASSUME NEW c \in Conns, Close(c) PROVE StreamInv'
  <2>1. phase[c] = "open" /\ c \notin todo /\ CloseConn(c)
    BY <1>6 DEF Close, Closable, Open, StreamInv, TodoOK
  <2> QED BY <2>1, CloseStep
<1>7. CASE PollEnd
  <2>1. TodoOK' BY <1>7 DEF PollEnd, connVars, StreamInv, TodoOK
  <2> QED BY <1>7, <2>1, QuietStep DEF PollEnd, clientVars, connVars, StreamInv, HistoryOK
<1>8. CASE UNCHANGED vars
  <2>1. UNCHANGED <<kind, due, net, recv, served, userData, phase, todo, stage>>
    BY <1>8 DEF vars, clientVars, connVars, pollVars
  <2>2. TodoOK' BY <2>1 DEF StreamInv, TodoOK
  <2> QED BY <2>1, <2>2, QuietStep DEF StreamInv, HistoryOK
<1>9. CASE PollThrows BY <1>9, StreamBroken DEF PollThrows, Broken
<1> QED
  BY <1>1, <1>2, <1>3, <1>4, <1>5, <1>6, <1>7, <1>8, <1>9 DEF Next, Server, Handle

\* However the bytes of a connection are cut and read, RestServ is handed its
\* requests in the order in which they were sent, none twice and none left out.
THEOREM ServedInOrder == Spec => []ServedOnceInOrder
<1>1. StreamInv => ServedOnceInOrder
  BY DEF StreamInv, ServedOK, ServedOnceInOrder
<1> QED BY InitStreamInv, StreamInvNext, <1>1, PTL DEF Spec

\* A request with a body takes effect only after its client has sent all of it,
\* also when the connection ends or the body runs on into another request.
THEOREM WholeRequestsOnly == Spec => []OnlyWholeRequestsTakeEffect
<1>1. StreamInv => OnlyWholeRequestsTakeEffect
  BY DEF StreamInv, ServedOK, Effective, OnlyWholeRequestsTakeEffect
<1> QED BY InitStreamInv, StreamInvNext, <1>1, PTL DEF Spec

----------------------------------------------------------------------------
(* The answers of a client that waits for them.                            *)

PieceRec == [req : Nat, last : BOOLEAN, result : Results]

AnswerTypes ==
  /\ got \in [Conns -> Seq(PieceRec)]
  /\ send \in [Conns -> Seq(PieceRec)]
  /\ DOMAIN fin = Conns

\* Piece j of all the responses of a connection.
PieceOf(c, j) ==
  [req |-> (j + 1) \div 2, last |-> j % 2 = 0,
   result |-> served[c][(j + 1) \div 2].result]

\* What has been received is right.
GotRight(c) ==
  \A j \in 1..Len(got[c]) : (j + 1) \div 2 <= Len(served[c]) /\ got[c][j] = PieceOf(c, j)

\* The client lacks the answer to its last request at most.
OneInDoubt(c) == 2 * Len(kind[c]) <= Len(got[c]) + 2

\* While the client listens, the send buffer is all that it still has to receive.
SendRight(c) ==
  phase[c] # "closed" /\ fin[c] # "gone" =>
    /\ Len(got[c]) + Len(send[c]) = 2 * Len(served[c])
    /\ \A i \in 1..Len(send[c]) : send[c][i] = PieceOf(c, Len(got[c]) + i)

AnswerOK(c) == GotRight(c) /\ OneInDoubt(c) /\ SendRight(c)

AnswerInv == AnswerTypes /\ \A c \in Patient : AnswerOK(c)

LEMMA InitAnswerInv == Init => AnswerInv
<1> SUFFICES ASSUME Init PROVE AnswerInv
  OBVIOUS
<1>1. AnswerTypes
  BY DEF Init, AnswerTypes
<1>2. ASSUME NEW c \in Patient
      PROVE  AnswerOK(c)
  <2>1. c \in Conns
    BY HttpAssumption
  <2>2. kind[c] = <<>> /\ got[c] = <<>> /\ send[c] = <<>> /\ served[c] = <<>>
    BY <2>1 DEF Init
  <2> QED BY <2>2 DEF AnswerOK, GotRight, OneInDoubt, SendRight
<1> QED BY <1>1, <1>2 DEF AnswerInv

\* The step of one connection.
LEMMA AnswerOthers ==
  ASSUME AnswerInv, NEW c \in Conns, AnswerTypes', c \in Patient => AnswerOK(c)',
         \A x \in Conns \ {c} :
           /\ kind'[x] = kind[x] /\ got'[x] = got[x] /\ send'[x] = send[x]
           /\ served'[x] = served[x] /\ phase'[x] = phase[x] /\ fin'[x] = fin[x]
  PROVE  AnswerInv'
<1>1. ASSUME NEW x \in Patient, x # c
      PROVE  AnswerOK(x)'
  <2>1. x \in Conns \ {c}
    BY <1>1, HttpAssumption
  <2>2. AnswerOK(x)
    BY <1>1 DEF AnswerInv
  <2>3. /\ kind'[x] = kind[x] /\ got'[x] = got[x] /\ send'[x] = send[x]
        /\ served'[x] = served[x] /\ phase'[x] = phase[x] /\ fin'[x] = fin[x]
    BY <2>1
  <2>4. \A j : PieceOf(x, j)' = PieceOf(x, j)
    BY <2>3 DEF PieceOf
  <2>5. GotRight(x)'
    BY <2>2, <2>3, <2>4 DEF AnswerOK, GotRight
  <2>6. OneInDoubt(x)'
    BY <2>2, <2>3 DEF AnswerOK, OneInDoubt
  <2>7. SendRight(x)'
    BY <2>2, <2>3, <2>4 DEF AnswerOK, SendRight
  <2> QED BY <2>5, <2>6, <2>7 DEF AnswerOK
<1> QED BY <1>1 DEF AnswerInv

\* A step that neither asks, performs nor answers: clients may leave and
\* connections close.
LEMMA AnswerQuiet ==
  ASSUME AnswerInv, UNCHANGED <<kind, got, send, served>>, DOMAIN fin' = Conns,
         \A x \in Conns : /\ phase[x] = "closed" => phase'[x] = "closed"
                          /\ fin[x] = "gone" => fin'[x] = "gone"
  PROVE  AnswerInv'
<1>1. AnswerTypes'
  BY DEF AnswerInv, AnswerTypes
<1>2. ASSUME NEW x \in Patient
      PROVE  AnswerOK(x)'
  <2>1. x \in Conns /\ AnswerOK(x)
    BY HttpAssumption DEF AnswerInv
  <2> QED BY <2>1 DEF AnswerOK, GotRight, OneInDoubt, SendRight, PieceOf
<1> QED BY <1>1, <1>2 DEF AnswerInv

\* The types of one connection.
LEMMA ConnTypes ==
  ASSUME StreamInv, AnswerInv, NEW c \in Conns
  PROVE  /\ kind[c] \in Seq(Kinds) /\ served[c] \in Seq(Record)
         /\ got[c] \in Seq(PieceRec) /\ send[c] \in Seq(PieceRec)
         /\ Len(kind[c]) \in Nat /\ Len(served[c]) \in Nat
         /\ Len(got[c]) \in Nat /\ Len(send[c]) \in Nat
         /\ Len(served[c]) <= Len(kind[c])
<1>1. /\ kind[c] \in Seq(Kinds) /\ served[c] \in Seq(Record)
      /\ got[c] \in Seq(PieceRec) /\ send[c] \in Seq(PieceRec)
  BY DEF StreamInv, HistoryOK, AnswerInv, AnswerTypes
<1>2. Len(served[c]) <= Len(kind[c])
  BY DEF StreamInv, ServedOK
<1> QED BY <1>1, <1>2

LEMMA AnswerSendHead ==
  ASSUME StreamInv, AnswerInv, NEW c \in Conns, NEW k \in Kinds, SendHead(c, k)
  PROVE  AnswerInv'
<1>1. /\ kind' = [kind EXCEPT ![c] = Append(@, k)]
      /\ UNCHANGED <<fin, got, phase, send, served>>
      /\ c \in Patient => Answered(c)
  BY DEF SendHead, connVars
<1>2. kind'[c] = Append(kind[c], k) /\ \A x \in Conns \ {c} : kind'[x] = kind[x]
  BY <1>1 DEF StreamInv, HistoryOK
<1>3. AnswerTypes'
  BY <1>1 DEF AnswerInv, AnswerTypes
<1>4. ASSUME c \in Patient
      PROVE  AnswerOK(c)'
  <2>1. AnswerOK(c)
    BY <1>4 DEF AnswerInv
  <2>2. Len(kind'[c]) = Len(kind[c]) + 1 /\ Len(got[c]) = 2 * Len(kind[c])
    BY <1>1, <1>2, <1>4, ConnTypes DEF Answered
  <2>3. OneInDoubt(c)'
    BY <1>1, <2>2, ConnTypes DEF OneInDoubt
  <2> QED BY <1>1, <2>1, <2>3 DEF AnswerOK, GotRight, SendRight, PieceOf
<1> QED BY <1>1, <1>2, <1>3, <1>4, AnswerOthers

\* Performing another request keeps what has been received right.
LEMMA GotKept ==
  ASSUME NEW c, GotRight(c), served[c] \in Seq(Record), got' = got, Len(got[c]) \in Nat,
         Len(served'[c]) \in Nat, Len(served[c]) <= Len(served'[c]),
         \A i \in 1..Len(served[c]) : served'[c][i] = served[c][i]
  PROVE  GotRight(c)'
<1>1. ASSUME NEW j \in 1..Len(got[c])
      PROVE  (j + 1) \div 2 <= Len(served'[c]) /\ got'[c][j] = PieceOf(c, j)'
  <2>1. (j + 1) \div 2 <= Len(served[c]) /\ got[c][j] = PieceOf(c, j)
    BY DEF GotRight
  <2>2. (j + 1) \div 2 \in 1..Len(served[c])
    BY <2>1
  <2> QED BY <2>1, <2>2 DEF PieceOf
<1> QED BY <1>1 DEF GotRight

\* What is handed on is the next request, and its response is written.
LEMMA ReadServes ==
  ASSUME StreamInv, NEW c \in Conns, NEW buf \in Seq(Chunk), buf # <<>>,
         MessageLen(c, buf) > 0, Receive(c, buf), HistoryOK', ServedOK(c)'
  PROVE  LET n == Len(served[c])
         IN  /\ Len(served'[c]) = n + 1 /\ n + 1 <= Len(kind'[c])
             /\ \A i \in 1..n : served'[c][i] = served[c][i]
             /\ served'[c][n + 1].result \in Results
             /\ send' = [send EXCEPT ![c] = Written(@, n + 1, served'[c][n + 1].result)]
             /\ \A x \in Conns \ {c} : served'[x] = served[x]
<1> DEFINE n == Len(served[c])
           r == buf[1].req
           body == SubSeq(buf, 2, MessageLen(c, buf))
           new == [req |-> r, result |-> Result(c, r, body), known |-> userData[c]]
<1>1. /\ served' = [served EXCEPT ![c] = Append(served[c], new)]
      /\ send' = [send EXCEPT ![c] = Written(@, r, Result(c, r, body))]
  BY DEF Receive, Dispatched
<1>2. new \in Record
  <2>1. r \in Nat
    <3>1. buf[1] \in Chunk
      OBVIOUS
    <3> QED BY <3>1 DEF Chunk
  <2>2. Result(c, r, body) \in Results
    BY DEF Result, Results
  <2>3. userData[c] \in BOOLEAN
    BY DEF StreamInv, HistoryOK
  <2> QED BY <2>1, <2>2, <2>3 DEF Record
<1>3. served[c] \in Seq(Record) /\ n \in Nat
  BY DEF StreamInv, HistoryOK
<1>4. new.req = r /\ new.result = Result(c, r, body)
  OBVIOUS
<1> HIDE DEF new
<1>5. served'[c] = Append(served[c], new) /\ \A x \in Conns \ {c} : served'[x] = served[x]
  BY <1>1 DEF StreamInv, HistoryOK
<1>6. /\ Len(served'[c]) = n + 1 /\ served'[c][n + 1] = new
      /\ \A i \in 1..n : served'[c][i] = served[c][i]
  BY <1>2, <1>3, <1>5
<1>7. r = n + 1 /\ n + 1 <= Len(kind'[c])
  BY <1>3, <1>4, <1>6 DEF ServedOK
<1>8. new.result \in Results
  BY <1>2 DEF Record
<1> HIDE DEF r, body
<1> QED BY <1>1, <1>4, <1>5, <1>6, <1>7, <1>8

\* A response is two pieces of its request (Stream.cpp).
LEMMA ResponseParts ==
  ASSUME NEW n \in Nat, NEW result \in Results
  PROVE  /\ Response(n, result) \in Seq(PieceRec) /\ Len(Response(n, result)) = 2
         /\ Response(n, result)[1] = [req |-> n, last |-> FALSE, result |-> result]
         /\ Response(n, result)[2] = [req |-> n, last |-> TRUE, result |-> result]
<1> DEFINE p == [req |-> n, last |-> FALSE, result |-> result]
           q == [req |-> n, last |-> TRUE, result |-> result]
<1>1. p \in PieceRec /\ q \in PieceRec
  BY DEF PieceRec
<1>2. Response(n, result) = <<p, q>>
  BY DEF Response
<1> HIDE DEF p, q
<1>3. <<p, q>> \in Seq(PieceRec) /\ Len(<<p, q>>) = 2 /\ <<p, q>>[1] = p /\ <<p, q>>[2] = q
  BY <1>1
<1> QED BY <1>2, <1>3 DEF p, q

LEMMA WrittenParts ==
  ASSUME NEW buf \in Seq(PieceRec), NEW n \in Nat, NEW result \in Results
  PROVE  /\ Written(buf, n, result) \in Seq(PieceRec)
         /\ buf = <<>> => Written(buf, n, result) = Response(n, result)
<1>1. PICK r \in Seq(PieceRec) : r = Response(n, result)
  BY ResponseParts
<1>2. buf \o r \in Seq(PieceRec) /\ (buf = <<>> => buf \o r = r)
  OBVIOUS
<1> QED BY <1>1, <1>2 DEF Written

LEMMA AnswerRead ==
  ASSUME StreamInv, AnswerInv, StreamInv', NEW c \in Conns, Read(c)
  PROVE  AnswerInv'
<1>1. /\ stage = "handle" /\ c \in todo /\ phase[c] = "open"
      /\ UNCHANGED <<kind, due, fin, got, phase, userData>>
  BY DEF Read, clientVars, StreamInv, TodoOK
<1>2. PICK j \in 1..Len(net[c]) : Receive(c, recv[c] \o SubSeq(net[c], 1, j))
  BY DEF Read
<1> DEFINE buf == recv[c] \o SubSeq(net[c], 1, j)
<1>3. CASE ~(buf # <<>> /\ MessageLen(c, buf) > 0)
  <2>1. UNCHANGED <<served, send>>
    BY <1>2, <1>3 DEF Receive
  <2> QED BY <1>1, <2>1, AnswerQuiet DEF AnswerInv, AnswerTypes
<1>4. CASE buf # <<>> /\ MessageLen(c, buf) > 0
  <2>1. buf \in Seq(Chunk)
    <3>1. recv[c] \in Seq(Chunk) /\ net[c] \in Seq(Chunk)
      BY DEF StreamInv, HistoryOK
    <3> QED BY <3>1, SplitSeq
  <2> HIDE DEF buf
  <2>2. PICK n \in Nat, result \in Results :
          /\ n = Len(served[c]) /\ result = served'[c][n + 1].result /\ n + 1 \in Nat
          /\ Len(served'[c]) = n + 1 /\ n + 1 <= Len(kind[c])
          /\ \A i \in 1..n : served'[c][i] = served[c][i]
          /\ send' = [send EXCEPT ![c] = Written(@, n + 1, result)]
          /\ \A x \in Conns \ {c} : served'[x] = served[x]
    <3>1. Receive(c, buf) /\ HistoryOK' /\ ServedOK(c)'
      BY <1>2 DEF StreamInv, buf
    <3>2. Len(served[c]) \in Nat /\ Len(served[c]) + 1 \in Nat
      BY ConnTypes
    <3> QED BY <1>1, <1>4, <2>1, <3>1, <3>2, ReadServes
  <2>3. Len(kind[c]) \in Nat /\ Len(got[c]) \in Nat /\ Len(send[c]) \in Nat
        /\ send[c] \in Seq(PieceRec) /\ served[c] \in Seq(Record)
    BY ConnTypes
  <2>4. /\ send'[c] = Written(send[c], n + 1, result)
        /\ \A x \in Conns \ {c} : send'[x] = send[x]
        /\ send' \in [Conns -> Seq(PieceRec)]
    <3>1. Written(send[c], n + 1, result) \in Seq(PieceRec)
      BY <2>2, <2>3, WrittenParts
    <3> QED BY <2>2, <3>1 DEF AnswerInv, AnswerTypes
  <2>5. AnswerTypes'
    BY <1>1, <2>4 DEF AnswerInv, AnswerTypes
  <2>6. ASSUME c \in Patient
        PROVE  AnswerOK(c)'
    <3>1. AnswerOK(c)
      BY <2>6 DEF AnswerInv
    <3>2. GotRight(c)'
      BY <1>1, <2>2, <2>3, <3>1, GotKept DEF AnswerOK
    <3>3. OneInDoubt(c)'
      BY <1>1, <3>1 DEF AnswerOK, OneInDoubt
    <3>4. ASSUME fin[c] # "gone"
          PROVE  /\ Len(got[c]) + Len(send'[c]) = 2 * Len(served'[c])
                 /\ \A i \in 1..Len(send'[c]) : send'[c][i] = PieceOf(c, Len(got[c]) + i)'
      <4>1. Len(got[c]) + Len(send[c]) = 2 * n /\ 2 * Len(kind[c]) <= Len(got[c]) + 2
        <5>1. n = Len(served[c])
          BY <2>2
        <5> QED BY <1>1, <3>1, <3>4, <5>1 DEF AnswerOK, SendRight, OneInDoubt
      <4>2. Len(got[c]) = 2 * n /\ Len(send[c]) = 0
        <5> DEFINE g == Len(got[c])
                   l == Len(send[c])
                   k == Len(kind[c])
        <5>1. g \in Nat /\ l \in Nat /\ k \in Nat /\ n + 1 <= k
          BY <2>2, <2>3
        <5>2. g + l = 2 * n /\ 2 * k <= g + 2
          BY <4>1
        <5> HIDE DEF g, l, k
        <5>3. g = 2 * n /\ l = 0
          BY <5>1, <5>2
        <5> QED BY <5>3 DEF g, l
      <4>3. send[c] = <<>>
        BY <2>3, <4>2
      <4>4. send'[c] = Response(n + 1, result)
        BY <2>2, <2>3, <2>4, <4>3, WrittenParts
      <4>5. /\ Len(send'[c]) = 2
            /\ send'[c][1] = [req |-> n + 1, last |-> FALSE, result |-> result]
            /\ send'[c][2] = [req |-> n + 1, last |-> TRUE, result |-> result]
        <5>1. n + 1 \in Nat
          OBVIOUS
        <5> QED BY <4>4, <5>1, ResponseParts
      <4>6. /\ ((2 * n + 1) + 1) \div 2 = n + 1 /\ (2 * n + 1) % 2 # 0
            /\ ((2 * n + 2) + 1) \div 2 = n + 1 /\ (2 * n + 2) % 2 = 0
        BY <2>3
      <4>7. /\ PieceOf(c, 2 * n + 1)' = [req |-> n + 1, last |-> FALSE, result |-> result]
            /\ PieceOf(c, 2 * n + 2)' = [req |-> n + 1, last |-> TRUE, result |-> result]
        BY <2>2, <4>6 DEF PieceOf
      <4>8. Len(served'[c]) = n + 1
        BY <2>2
      <4>9. ASSUME NEW i \in 1..2
            PROVE  send'[c][i] = PieceOf(c, 2 * n + i)'
        <5>1. i = 1 \/ i = 2
          OBVIOUS
        <5> QED BY <4>5, <4>7, <5>1
      <4>10. \A i \in 1..2 : PieceOf(c, Len(got[c]) + i)' = PieceOf(c, 2 * n + i)'
        BY <1>1, <4>2 DEF PieceOf
      <4>11. Len(got[c]) + Len(send'[c]) = 2 * Len(served'[c])
        BY <4>2, <4>5, <4>8
      <4> QED BY <4>5, <4>9, <4>10, <4>11
    <3>5. SendRight(c)'
      BY <1>1, <3>4 DEF SendRight
    <3> QED BY <3>2, <3>3, <3>5 DEF AnswerOK
  <2> QED BY <1>1, <2>2, <2>4, <2>5, <2>6, AnswerOthers
<1> QED BY <1>3, <1>4

LEMMA AnswerWrite ==
  ASSUME StreamInv, AnswerInv, NEW c \in Conns, Write(c)
  PROVE  AnswerInv'
<1>1. UNCHANGED <<kind, fin, phase, served>>
  BY DEF Write, clientVars
<1>2. CASE UNCHANGED <<send, got>>
  BY <1>1, <1>2, AnswerQuiet DEF AnswerInv, AnswerTypes
<1>3. CASE \E k \in 1..Len(send[c]) :
             /\ send' = [send EXCEPT ![c] = SubSeq(@, k + 1, Len(@))]
             /\ got' = IF fin[c] = "gone" THEN got
                       ELSE [got EXCEPT ![c] = @ \o SubSeq(send[c], 1, k)]
  <2>1. PICK k \in 1..Len(send[c]) :
             /\ send' = [send EXCEPT ![c] = SubSeq(@, k + 1, Len(@))]
             /\ got' = IF fin[c] = "gone" THEN got
                       ELSE [got EXCEPT ![c] = @ \o SubSeq(send[c], 1, k)]
    BY <1>3
  <2> DEFINE u == got[c] \o SubSeq(send[c], 1, k)
             v == SubSeq(send[c], k + 1, Len(send[c]))
  <2>2. /\ got[c] \in Seq(PieceRec) /\ send[c] \in Seq(PieceRec)
        /\ Len(got[c]) \in Nat /\ Len(send[c]) \in Nat /\ Len(served[c]) \in Nat
    BY ConnTypes
  <2>3. /\ u \in Seq(PieceRec) /\ v \in Seq(PieceRec)
        /\ Len(u) = Len(got[c]) + k /\ Len(v) = Len(send[c]) - k
        /\ \A i \in 1..Len(got[c]) : u[i] = got[c][i]
        /\ \A i \in 1..k : u[Len(got[c]) + i] = send[c][i]
        /\ \A i \in 1..Len(send[c]) - k : v[i] = send[c][k + i]
    BY <2>2
  <2> HIDE DEF u, v
  <2>4. /\ send'[c] = v /\ \A x \in Conns \ {c} : send'[x] = send[x]
        /\ send' \in [Conns -> Seq(PieceRec)]
    BY <2>1, <2>3 DEF AnswerInv, AnswerTypes, v
  <2>5. /\ got'[c] = IF fin[c] = "gone" THEN got[c] ELSE u
        /\ \A x \in Conns \ {c} : got'[x] = got[x]
        /\ got' \in [Conns -> Seq(PieceRec)]
    BY <2>1, <2>3 DEF AnswerInv, AnswerTypes, u
  <2>6. AnswerTypes'
    BY <1>1, <2>4, <2>5 DEF AnswerInv, AnswerTypes
  <2>7. ASSUME c \in Patient
        PROVE  AnswerOK(c)'
    <3>1. AnswerOK(c)
      BY <2>7 DEF AnswerInv
    <3>2. CASE fin[c] = "gone"
      BY <1>1, <2>5, <3>1, <3>2 DEF AnswerOK, GotRight, OneInDoubt, SendRight, PieceOf
    <3>3. CASE fin[c] # "gone" /\ phase[c] # "closed"
      <4> DEFINE g == Len(got[c])
                 l == Len(send[c])
                 m == Len(served[c])
      <4>1. g + l = 2 * m /\ \A i \in 1..l : send[c][i] = PieceOf(c, g + i)
        BY <3>1, <3>3 DEF AnswerOK, SendRight
      <4>2. \A j : PieceOf(c, j)' = PieceOf(c, j)
        BY <1>1 DEF PieceOf
      <4>3. g \in Nat /\ l \in Nat /\ m \in Nat /\ k \in 1..l
        BY <2>2
      <4>4. Len(got'[c]) = g + k /\ Len(send'[c]) = l - k /\ Len(served'[c]) = m
        BY <1>1, <2>3, <2>4, <2>5, <3>3
      <4>5. \A j \in 1..g : (j + 1) \div 2 <= m /\ got[c][j] = PieceOf(c, j)
        BY <3>1 DEF AnswerOK, GotRight
      <4>6. /\ \A i \in 1..g : got'[c][i] = got[c][i]
            /\ \A i \in 1..k : got'[c][g + i] = send[c][i]
            /\ \A i \in 1..l - k : send'[c][i] = send[c][k + i]
        BY <2>3, <2>4, <2>5, <3>3
      <4> HIDE DEF g, l, m
      <4>7. ASSUME NEW j \in 1..g + k
            PROVE  (j + 1) \div 2 <= m /\ got'[c][j] = PieceOf(c, j)
        <5>1. CASE j \in 1..g
          BY <4>5, <4>6, <5>1
        <5>2. CASE j \notin 1..g
          <6>1. j - g \in 1..k /\ j - g \in 1..l /\ g + (j - g) = j /\ j <= 2 * m
            BY <4>1, <4>3, <5>2
          <6>2. (j + 1) \div 2 <= m
            BY <4>3, <6>1
          <6>3. got'[c][g + (j - g)] = send[c][j - g] /\ send[c][j - g] = PieceOf(c, g + (j - g))
            BY <4>1, <4>6, <6>1
          <6> QED BY <6>1, <6>2, <6>3
        <5> QED BY <5>1, <5>2
      <4>8. ASSUME NEW i \in 1..l - k
            PROVE  send'[c][i] = PieceOf(c, (g + k) + i)
        <5>1. k + i \in 1..l /\ g + (k + i) = (g + k) + i
          BY <4>3
        <5>2. send[c][k + i] = PieceOf(c, g + (k + i))
          BY <4>1, <5>1
        <5> QED BY <4>6, <5>1, <5>2
      <4>9. GotRight(c)'
        BY <4>2, <4>4, <4>7 DEF GotRight
      <4>10. SendRight(c)'
        <5>1. (g + k) + (l - k) = 2 * m
          BY <4>1, <4>3
        <5> QED BY <4>2, <4>4, <4>8, <5>1 DEF SendRight
      <4>11. OneInDoubt(c)'
        <5>1. 2 * Len(kind[c]) <= g + 2
          BY <3>1 DEF AnswerOK, OneInDoubt, g
        <5>2. Len(kind[c]) \in Nat
          BY ConnTypes
        <5>3. 2 * Len(kind[c]) <= (g + k) + 2
          BY <4>3, <5>1, <5>2
        <5> QED BY <1>1, <4>4, <5>3 DEF OneInDoubt
      <4> QED BY <4>9, <4>10, <4>11 DEF AnswerOK
    <3>4. phase[c] = "open"
      BY DEF Write, StreamInv, TodoOK
    <3> QED BY <3>2, <3>3, <3>4
  <2> QED BY <1>1, <2>4, <2>5, <2>6, <2>7, AnswerOthers
<1> QED BY <1>2, <1>3 DEF Write

LEMMA AnswerClose ==
  ASSUME StreamInv, AnswerInv, StreamInv', NEW c \in Conns, CloseConn(c)
  PROVE  AnswerInv'
<1>1. /\ phase' = [phase EXCEPT ![c] = "closed"] /\ send' = [send EXCEPT ![c] = <<>>]
      /\ UNCHANGED <<kind, fin, got>>
      /\ \/ served' = served
         \/ \E new : served' = [served EXCEPT ![c] = Append(@, new)]
  BY DEF CloseConn, Dispatched, clientVars
<1>2. /\ phase'[c] = "closed" /\ \A x \in Conns \ {c} : phase'[x] = phase[x]
      /\ send' \in [Conns -> Seq(PieceRec)] /\ \A x \in Conns \ {c} : send'[x] = send[x]
      /\ \A x \in Conns \ {c} : served'[x] = served[x]
  BY <1>1 DEF StreamInv, HistoryOK, AnswerInv, AnswerTypes
<1>3. AnswerTypes'
  BY <1>1, <1>2 DEF AnswerInv, AnswerTypes
<1>4. /\ served[c] \in Seq(Record) /\ Len(served[c]) \in Nat /\ Len(got[c]) \in Nat
      /\ Len(served'[c]) \in Nat /\ Len(served[c]) <= Len(served'[c])
      /\ \A i \in 1..Len(served[c]) : served'[c][i] = served[c][i]
  <2>1. /\ served[c] \in Seq(Record) /\ Len(served[c]) \in Nat /\ Len(got[c]) \in Nat
    BY ConnTypes
  <2>2. CASE served' = served
    BY <2>1, <2>2
  <2>3. ASSUME NEW new, served' = [served EXCEPT ![c] = Append(@, new)]
        PROVE  /\ Len(served'[c]) \in Nat /\ Len(served[c]) <= Len(served'[c])
               /\ \A i \in 1..Len(served[c]) : served'[c][i] = served[c][i]
    <3>1. served'[c] = Append(served[c], new)
      BY <2>3 DEF StreamInv, HistoryOK
    <3> QED BY <2>1, <3>1
  <2> QED BY <1>1, <2>1, <2>2, <2>3
<1>5. ASSUME c \in Patient
      PROVE  AnswerOK(c)'
  <2>1. AnswerOK(c)
    BY <1>5 DEF AnswerInv
  <2>2. GotRight(c)'
    BY <1>1, <1>4, <2>1, GotKept DEF AnswerOK
  <2> QED BY <1>1, <1>2, <2>1, <2>2 DEF AnswerOK, OneInDoubt, SendRight
<1> QED BY <1>1, <1>2, <1>3, <1>5, AnswerOthers

LEMMA AnswerInvNext ==
  ASSUME StreamInv, AnswerInv, [Next]_vars
  PROVE  AnswerInv'
<1>1. StreamInv'
  BY StreamInvNext
<1>2. DOMAIN fin = Conns /\ DOMAIN phase = Conns
  BY DEF AnswerInv, AnswerTypes, StreamInv, HistoryOK
<1>3. ASSUME NEW c \in Conns, Connect(c) \/ SendBody(c) \/ Finish(c)
      PROVE  AnswerInv'
  <2>1. UNCHANGED <<kind, got, send, served>>
    BY <1>3 DEF Connect, SendBody, Finish, clientVars, connVars
  <2>2. /\ \/ fin' = fin
           \/ fin[c] # "gone" /\ \E f : fin' = [fin EXCEPT ![c] = f]
        /\ \/ phase' = phase
           \/ phase[c] = "new" /\ \E p : phase' = [phase EXCEPT ![c] = p]
    BY <1>3 DEF Connect, SendBody, Finish, clientVars, connVars
  <2>3. DOMAIN fin' = Conns /\ \A x \in Conns : fin[x] = "gone" => fin'[x] = "gone"
    BY <1>2, <2>2
  <2>4. \A x \in Conns : phase[x] = "closed" => phase'[x] = "closed"
    BY <1>2, <2>2
  <2> QED BY <2>1, <2>3, <2>4, AnswerQuiet
<1>4. ASSUME NEW c \in Conns, Accept(c)
      PROVE  AnswerInv'
  <2>1. /\ phase[c] = "backlog" /\ phase' = [phase EXCEPT ![c] = "open"]
        /\ UNCHANGED <<kind, fin, got, send, served>>
    BY <1>4 DEF Accept, clientVars
  <2>2. \A x \in Conns : phase[x] = "closed" => phase'[x] = "closed"
    BY <1>2, <2>1
  <2> QED BY <1>2, <2>1, <2>2, AnswerQuiet
<1>5. ASSUME \/ Select \/ PollEnd \/ PollThrows \/ UNCHANGED vars
             \/ \E c \in Conns : ReadEnd(c)
      PROVE  AnswerInv'
  <2>1. UNCHANGED <<kind, fin, got, send, served, phase>>
    BY <1>5 DEF Select, PollEnd, PollThrows, Throw, ReadEnd, vars, clientVars, connVars
  <2> QED BY <1>2, <2>1, AnswerQuiet
<1> QED
  BY <1>1, <1>3, <1>4, <1>5, AnswerSendHead, AnswerRead, AnswerWrite, AnswerClose
    DEF Next, Server, Handle, Client, Close

\* A client that waits for its answers receives them in order, whole and unmixed,
\* although every response of the API empties the send buffer first: it finds the
\* buffer empty already (OStream::reset, Mgr::httpRequest).
THEOREM AnswersAreInOrder == Spec => []AnswersInOrder
<1>1. Init => StreamInv /\ AnswerInv
  BY InitStreamInv, InitAnswerInv
<1>2. StreamInv /\ AnswerInv /\ [Next]_vars => (StreamInv /\ AnswerInv)'
  BY StreamInvNext, AnswerInvNext
<1>3. StreamInv /\ AnswerInv => AnswersInOrder
  BY DEF AnswerInv, AnswerOK, GotRight, PieceOf, AnswersInOrder
<1> QED BY <1>1, <1>2, <1>3, PTL DEF Spec

----------------------------------------------------------------------------
(* The server does what RequestReply promises.                             *)

\* A step that changes none of the counts changes nothing of the promise.
LEMMA NoReply ==
  ASSUME \A x \in Patient :
           /\ Len(kind'[x]) = Len(kind[x]) /\ Len(served'[x]) = Len(served[x])
           /\ Len(got'[x]) \div 2 = Len(got[x]) \div 2
           /\ (phase'[x] # "closed") = (phase[x] # "closed")
  PROVE  UNCHANGED Replies!vars
<1>1. [x \in Patient |-> Len(kind'[x])] = [x \in Patient |-> Len(kind[x])]
  OBVIOUS
<1>2. [x \in Patient |-> Len(served'[x])] = [x \in Patient |-> Len(served[x])]
  OBVIOUS
<1>3. [x \in Patient |-> Len(got'[x]) \div 2] = [x \in Patient |-> Len(got[x]) \div 2]
  OBVIOUS
<1>4. [x \in Patient |-> phase'[x] # "closed"] = [x \in Patient |-> phase[x] # "closed"]
  OBVIOUS
<1> QED BY <1>1, <1>2, <1>3, <1>4 DEF Replies!vars

LEMMA InitReplies == Init => Replies!Init
<1> SUFFICES ASSUME Init PROVE Replies!Init
  OBVIOUS
<1>1. \A x \in Patient : /\ Len(kind[x]) = 0 /\ Len(served[x]) = 0
                         /\ Len(got[x]) \div 2 = 0 /\ phase[x] = "new"
  <2>1. \A x \in Patient : kind[x] = <<>> /\ served[x] = <<>> /\ got[x] = <<>> /\ phase[x] = "new"
    BY HttpAssumption DEF Init
  <2>2. Len(<<>>) = 0 /\ 0 \div 2 = 0
    OBVIOUS
  <2> QED BY <2>1, <2>2
<1> QED BY <1>1 DEF Replies!Init

LEMMA SendHeadAsks ==
  ASSUME StreamInv, AnswerInv, NEW c \in Patient, NEW k \in Kinds, SendHead(c, k)
  PROVE  Replies!Ask(c)
<1>1. c \in Conns
  BY HttpAssumption
<1>2. /\ phase[c] # "closed" /\ Len(kind[c]) < MaxRequests /\ Len(got[c]) = 2 * Len(kind[c])
      /\ kind' = [kind EXCEPT ![c] = Append(@, k)]
      /\ UNCHANGED <<got, phase, served>>
  BY DEF SendHead, CanSend, Answered, connVars
<1>3. Len(kind[c]) \in Nat /\ Len(got[c]) \div 2 = Len(kind[c])
  <2>1. PICK n \in Nat : n = Len(kind[c])
    BY <1>1, ConnTypes
  <2>2. (2 * n) \div 2 = n
    OBVIOUS
  <2> QED BY <1>2, <2>1, <2>2
<1>4. Len(kind'[c]) = Len(kind[c]) + 1 /\ \A x \in Patient \ {c} : kind'[x] = kind[x]
  BY <1>1, <1>2, ConnTypes, HttpAssumption DEF StreamInv, HistoryOK
<1>5. [x \in Patient |-> Len(kind'[x])]
        = [[x \in Patient |-> Len(kind[x])] EXCEPT ![c] = @ + 1]
  BY <1>4
<1> QED BY <1>2, <1>3, <1>5 DEF Replies!Ask

LEMMA ReadPerforms ==
  ASSUME StreamInv, StreamInv', NEW c \in Conns, Read(c)
  PROVE  /\ UNCHANGED <<kind, got, phase>> /\ phase[c] = "open"
         /\ \A x \in Conns \ {c} : served'[x] = served[x]
         /\ \/ served' = served
            \/ /\ Len(served'[c]) = Len(served[c]) + 1
               /\ Len(served[c]) + 1 <= Len(kind[c])
<1>1. UNCHANGED <<kind, got, phase>> /\ phase[c] = "open"
  BY DEF Read, clientVars, StreamInv, TodoOK
<1>2. PICK j \in 1..Len(net[c]) : Receive(c, recv[c] \o SubSeq(net[c], 1, j))
  BY DEF Read
<1> DEFINE buf == recv[c] \o SubSeq(net[c], 1, j)
<1>3. CASE ~(buf # <<>> /\ MessageLen(c, buf) > 0)
  BY <1>1, <1>2, <1>3 DEF Receive
<1>4. CASE buf # <<>> /\ MessageLen(c, buf) > 0
  <2>1. buf \in Seq(Chunk)
    <3>1. recv[c] \in Seq(Chunk) /\ net[c] \in Seq(Chunk)
      BY DEF StreamInv, HistoryOK
    <3> QED BY <3>1, SplitSeq
  <2> HIDE DEF buf
  <2>2. Receive(c, buf) /\ HistoryOK' /\ ServedOK(c)'
    BY <1>2 DEF StreamInv, buf
  <2> QED BY <1>1, <1>4, <2>1, <2>2, ReadServes
<1> QED BY <1>3, <1>4

LEMMA WriteAnswers ==
  ASSUME StreamInv, AnswerInv, NEW c \in Patient, Write(c),
         Len(got'[c]) \div 2 # Len(got[c]) \div 2
  PROVE  Replies!Answer(c)
<1>1. c \in Conns /\ AnswerOK(c)
  BY HttpAssumption DEF AnswerInv
<1>2. UNCHANGED <<kind, phase, served>> /\ phase[c] = "open"
  BY <1>1 DEF Write, clientVars, StreamInv, TodoOK
<1>3. PICK k \in 1..Len(send[c]) :
        fin[c] # "gone" /\ got' = [got EXCEPT ![c] = @ \o SubSeq(send[c], 1, k)]
  BY DEF Write
<1> DEFINE g == Len(got[c])
           l == Len(send[c])
           m == Len(served[c])
           n == Len(kind[c])
<1>4. got[c] \in Seq(PieceRec) /\ send[c] \in Seq(PieceRec)
      /\ g \in Nat /\ l \in Nat /\ m \in Nat /\ n \in Nat /\ m <= n
  BY <1>1, ConnTypes
<1>5. Len(got'[c]) = g + k /\ \A x \in Patient \ {c} : got'[x] = got[x]
  <2>1. got'[c] = got[c] \o SubSeq(send[c], 1, k) /\ \A x \in Conns \ {c} : got'[x] = got[x]
    BY <1>1, <1>3 DEF AnswerInv, AnswerTypes
  <2> QED BY <1>4, <2>1, HttpAssumption
<1>6. g + l = 2 * m /\ 2 * n <= g + 2
  BY <1>1, <1>2, <1>3 DEF AnswerOK, SendRight, OneInDoubt
<1>7. (g + k) \div 2 # g \div 2
  BY <1>5
<1>8. g \div 2 < m /\ (g + k) \div 2 = g \div 2 + 1
  <2>1. k \in 1..l
    OBVIOUS
  <2> HIDE DEF g, l, m, n
  <2>2. k \in 1..2 /\ g < 2 * m
    BY <1>4, <1>6, <2>1
  <2> QED BY <1>4, <1>7, <2>2
<1>9. [x \in Patient |-> Len(got'[x]) \div 2]
        = [[x \in Patient |-> Len(got[x]) \div 2] EXCEPT ![c] = @ + 1]
  <2>1. Len(got'[c]) \div 2 = Len(got[c]) \div 2 + 1
    BY <1>5, <1>8
  <2> DEFINE before == [x \in Patient |-> Len(got[x]) \div 2]
             after == [x \in Patient |-> Len(got'[x]) \div 2]
  <2>2. after[c] = before[c] + 1 /\ \A x \in Patient \ {c} : after[x] = before[x]
    BY <1>5, <2>1
  <2>3. /\ DOMAIN after = Patient /\ DOMAIN before = Patient
        /\ after = [x \in Patient |-> after[x]] /\ before = [x \in Patient |-> before[x]]
    OBVIOUS
  <2> HIDE DEF before, after
  <2>4. after = [before EXCEPT ![c] = @ + 1]
    BY <2>2, <2>3
  <2> QED BY <2>4 DEF before, after
<1> QED BY <1>2, <1>8, <1>9 DEF Replies!Answer

LEMMA CloseDisconnects ==
  ASSUME StreamInv, StreamInv', AnswerInv, NEW c \in Patient, Close(c)
  PROVE  Replies!Disconnect(c)
<1>1. c \in Conns
  BY HttpAssumption
<1>2. /\ phase[c] = "open" /\ phase' = [phase EXCEPT ![c] = "closed"]
      /\ UNCHANGED <<kind, got>>
      /\ \/ served' = served
         \/ \E new : served' = [served EXCEPT ![c] = Append(@, new)]
  BY DEF Close, Closable, Open, CloseConn, Dispatched, clientVars
<1>3. /\ phase'[c] = "closed" /\ \A x \in Patient \ {c} : phase'[x] = phase[x]
      /\ \A x \in Patient \ {c} : served'[x] = served[x]
  BY <1>1, <1>2, HttpAssumption DEF StreamInv, HistoryOK
<1>4. Len(served'[c]) \in Len(served[c])..Len(kind[c])
  <2>1. served[c] \in Seq(Record) /\ Len(served[c]) \in Nat /\ Len(kind[c]) \in Nat
    BY <1>1, ConnTypes
  <2>2. Len(served'[c]) <= Len(kind[c])
    BY <1>1, <1>2 DEF StreamInv, ServedOK
  <2>3. served'[c] = served[c] \/ \E new : served'[c] = Append(served[c], new)
    BY <1>1, <1>2 DEF StreamInv, HistoryOK
  <2>4. Len(served'[c]) \in Nat /\ Len(served'[c]) >= Len(served[c])
    BY <2>1, <2>3
  <2> QED BY <2>1, <2>2, <2>4
<1>5. [x \in Patient |-> phase'[x] # "closed"]
        = [[x \in Patient |-> phase[x] # "closed"] EXCEPT ![c] = FALSE]
  BY <1>3
<1>6. [x \in Patient |-> Len(served'[x])]
        = [[x \in Patient |-> Len(served[x])] EXCEPT ![c] = Len(served'[c])]
  BY <1>3
<1> QED BY <1>2, <1>4, <1>5, <1>6 DEF Replies!Disconnect

LEMMA RepliesNext ==
  ASSUME StreamInv, AnswerInv, [Next]_vars
  PROVE  [Replies!Next]_Replies!vars
<1>1. StreamInv'
  BY StreamInvNext
<1>2. DOMAIN kind = Conns /\ DOMAIN phase = Conns /\ DOMAIN got = Conns /\ DOMAIN served = Conns
  BY DEF AnswerInv, AnswerTypes, StreamInv, HistoryOK
<1>3. ASSUME NEW c \in Conns, NEW k \in Kinds, SendHead(c, k)
      PROVE  [Replies!Next]_Replies!vars
  <2>1. CASE c \in Patient
    BY <1>3, <2>1, SendHeadAsks DEF Replies!Next
  <2>2. CASE c \notin Patient
    <3>1. kind' = [kind EXCEPT ![c] = Append(@, k)] /\ UNCHANGED <<got, phase, served>>
      BY <1>3 DEF SendHead, connVars
    <3>2. \A x \in Patient : kind'[x] = kind[x]
      BY <1>2, <2>2, <3>1, HttpAssumption
    <3> QED BY <3>1, <3>2, NoReply
  <2> QED BY <2>1, <2>2
<1>4. ASSUME NEW c \in Conns, Read(c)
      PROVE  [Replies!Next]_Replies!vars
  <2>1. /\ UNCHANGED <<kind, got, phase>> /\ phase[c] = "open"
        /\ \A x \in Conns \ {c} : served'[x] = served[x]
        /\ \/ served' = served
           \/ /\ Len(served'[c]) = Len(served[c]) + 1
              /\ Len(served[c]) + 1 <= Len(kind[c])
    BY <1>1, <1>4, ReadPerforms
  <2>2. CASE c \in Patient /\ served' # served
    <3>1. \A x \in Patient \ {c} : served'[x] = served[x]
      BY <2>1, HttpAssumption
    <3>2. [x \in Patient |-> Len(served'[x])]
            = [[x \in Patient |-> Len(served[x])] EXCEPT ![c] = @ + 1]
      BY <2>1, <2>2, <3>1
    <3>3. Len(served[c]) < Len(kind[c])
      BY <2>1, <2>2, ConnTypes
    <3>4. Replies!Perform(c)
      BY <2>1, <2>2, <3>2, <3>3 DEF Replies!Perform
    <3> QED BY <2>2, <3>4 DEF Replies!Next
  <2>3. CASE c \notin Patient \/ served' = served
    <3>1. \A x \in Patient : served'[x] = served[x]
      BY <2>1, <2>3, HttpAssumption
    <3> QED BY <2>1, <3>1, NoReply
  <2> QED BY <2>2, <2>3
<1>5. ASSUME NEW c \in Conns, Write(c)
      PROVE  [Replies!Next]_Replies!vars
  <2>1. UNCHANGED <<kind, phase, served>>
    BY <1>5 DEF Write, clientVars
  <2>2. \A x \in Conns \ {c} : got'[x] = got[x]
    BY <1>2, <1>5 DEF Write
  <2>3. CASE c \in Patient /\ Len(got'[c]) \div 2 # Len(got[c]) \div 2
    BY <1>5, <2>3, WriteAnswers DEF Replies!Next
  <2>4. CASE c \notin Patient \/ Len(got'[c]) \div 2 = Len(got[c]) \div 2
    <3>1. \A x \in Patient : Len(got'[x]) \div 2 = Len(got[x]) \div 2
      BY <2>2, <2>4, HttpAssumption
    <3> QED BY <2>1, <3>1, NoReply
  <2> QED BY <2>3, <2>4
<1>6. ASSUME NEW c \in Conns, Close(c)
      PROVE  [Replies!Next]_Replies!vars
  <2>1. CASE c \in Patient
    BY <1>1, <1>6, <2>1, CloseDisconnects DEF Replies!Next
  <2>2. CASE c \notin Patient
    <3>1. /\ phase' = [phase EXCEPT ![c] = "closed"] /\ UNCHANGED <<kind, got>>
          /\ served' = served \/ \E new : served' = [served EXCEPT ![c] = Append(@, new)]
      BY <1>6 DEF Close, CloseConn, Dispatched, clientVars
    <3>2. \A x \in Patient : served'[x] = served[x] /\ phase'[x] = phase[x]
      BY <1>2, <2>2, <3>1, HttpAssumption
    <3> QED BY <3>1, <3>2, NoReply
  <2> QED BY <2>1, <2>2
<1>7. ASSUME NEW c \in Conns, Connect(c) \/ Accept(c)
      PROVE  [Replies!Next]_Replies!vars
  <2>1. /\ UNCHANGED <<kind, got, served>>
        /\ \E p \in {"backlog", "open"} : phase' = [phase EXCEPT ![c] = p]
        /\ phase[c] # "closed"
    BY <1>7 DEF Connect, Accept, clientVars
  <2>2. \A x \in Patient : (phase'[x] # "closed") = (phase[x] # "closed")
    BY <1>2, <2>1, HttpAssumption
  <2> QED BY <2>1, <2>2, NoReply
<1>8. ASSUME \/ Select \/ PollEnd \/ PollThrows \/ UNCHANGED vars
             \/ \E c \in Conns : ReadEnd(c) \/ SendBody(c) \/ Finish(c)
      PROVE  [Replies!Next]_Replies!vars
  <2>1. UNCHANGED <<kind, got, served, phase>>
    BY <1>8 DEF Select, PollEnd, PollThrows, Throw, ReadEnd, SendBody, Finish, vars, clientVars,
              connVars
  <2> QED BY <2>1, NoReply
<1> QED
  BY <1>3, <1>4, <1>5, <1>6, <1>7, <1>8 DEF Next, Server, Handle, Client

\* To a client that waits for its answers, the server performs each request at most
\* once and before it answers it, and only the last is ever in doubt: reading is
\* Perform, writing the last piece of a response is Answer, and closing, which hands
\* on what was received, is Disconnect (mg_http_handler, mg_close_conn).
THEOREM ServerKeepsPromise == Spec => ImplementsRequestReply
<1>1. Init => StreamInv /\ AnswerInv
  BY InitStreamInv, InitAnswerInv
<1>2. StreamInv /\ AnswerInv /\ [Next]_vars => (StreamInv /\ AnswerInv)'
  BY StreamInvNext, AnswerInvNext
<1>3. StreamInv /\ AnswerInv /\ [Next]_vars => [Replies!Next]_Replies!vars
  BY RepliesNext
<1> QED BY InitReplies, <1>1, <1>2, <1>3, PTL DEF Spec, ImplementsRequestReply, Replies!Spec


----------------------------------------------------------------------------
(* Types.                                                                  *)

ServedRec == [req : 1..MaxRequests, result : Results, known : BOOLEAN]

\* No connection has more requests than the bound, and a body is due of one of them.
TypeInv ==
  /\ TypeOK
  /\ \A c \in Conns : Len(kind[c]) <= MaxRequests /\ (due[c] => kind[c] # <<>>)

LEMMA InitTypes == Init => TypeInv
<1> SUFFICES ASSUME Init PROVE TypeInv
  OBVIOUS
<1>1. \A S : <<>> \in Seq(S)
  OBVIOUS
<1>2. \A c \in Conns : Len(kind[c]) <= MaxRequests /\ ~due[c]
  <2>1. ASSUME NEW c \in Conns
        PROVE  kind[c] = <<>> /\ ~due[c]
    BY DEF Init
  <2>2. \A s : s = <<>> => Len(s) = 0
    OBVIOUS
  <2>3. MaxRequests \in Nat /\ 0 <= MaxRequests
    BY HttpAssumption
  <2>4. \A c \in Conns : Len(kind[c]) = 0
    BY <2>1, <2>2, Zenon
  <2> QED BY <2>1, <2>3, <2>4
<1> QED BY <1>1, <1>2 DEF Init, TypeInv, TypeOK

LEMMA DispatchedType ==
  ASSUME TypeOK, NEW c \in Conns, NEW n \in 1..MaxRequests, NEW body
  PROVE  Result(c, n, body) \in Results /\ Dispatched(c, n, body) \in Seq(ServedRec)
<1>1. Result(c, n, body) \in Results
  BY DEF Result, Results
<1>2. served[c] \in Seq(ServedRec) /\ userData[c] \in BOOLEAN
  BY DEF TypeOK, ServedRec
<1>3. [req |-> n, result |-> Result(c, n, body), known |-> userData[c]] \in ServedRec
  BY <1>1, <1>2 DEF ServedRec
<1> QED BY <1>1, <1>2, <1>3 DEF Dispatched

LEMMA WrittenType ==
  ASSUME NEW buf \in Seq(Pieces), NEW n \in 1..MaxRequests, NEW result \in Results
  PROVE  Written(buf, n, result) \in Seq(Pieces)
<1>1. /\ [req |-> n, last |-> FALSE, result |-> result] \in Pieces
      /\ [req |-> n, last |-> TRUE, result |-> result] \in Pieces
  BY DEF Pieces
<1>2. Response(n, result) \in Seq(Pieces)
  BY <1>1 DEF Response
<1> HIDE DEF Pieces
<1> QED BY <1>2 DEF Written

\* What is received is a part of what was sent.
LEMMA ReadTypes ==
  ASSUME TypeInv, NEW c \in Conns, Read(c)
  PROVE  TypeInv'
<1> USE DEF TypeInv
<1>1. /\ c \in todo /\ UNCHANGED <<kind, due, fin, got, phase, userData>>
      /\ flags' \in {flags, [flags EXCEPT ![c] = @ \cup {"CloseImmediately"}],
                     [flags EXCEPT ![c] = @ \cup {"SendAndClose"}]}
      /\ Proceed(c) \/ (ready' = [ready EXCEPT ![c] = {"write"}] /\ UNCHANGED <<stage, todo>>)
  BY DEF Read, clientVars
<1>2. /\ flags' \in [Conns -> SUBSET {"CloseImmediately", "SendAndClose"}]
      /\ stage' \in {"select", "handle", "close"} /\ ready' \in [Conns -> SUBSET {"read", "write"}]
      /\ todo' \subseteq Conns \cup {Listener}
  <2>1. flags' \in [Conns -> SUBSET {"CloseImmediately", "SendAndClose"}]
    <3>1. flags \in [Conns -> SUBSET {"CloseImmediately", "SendAndClose"}]
      BY DEF TypeOK
    <3> QED BY <1>1, <3>1
  <2>2. ready' \in [Conns -> SUBSET {"read", "write"}]
    <3>1. ready \in [Conns -> SUBSET {"read", "write"}]
      BY DEF TypeOK
    <3> QED BY <1>1, <3>1 DEF Proceed
  <2>3. stage' \in {"select", "handle", "close"} /\ todo' \subseteq Conns \cup {Listener}
    BY <1>1 DEF TypeOK, Proceed
  <2> QED BY <2>1, <2>2, <2>3
<1>3. PICK j \in 1..Len(net[c]) :
        /\ net' = [net EXCEPT ![c] = SubSeq(@, j + 1, Len(@))]
        /\ Receive(c, recv[c] \o SubSeq(net[c], 1, j))
  BY DEF Read
<1>4. PICK buf : buf = recv[c] \o SubSeq(net[c], 1, j)
  OBVIOUS
<1>5. buf \in Seq(Chunks) /\ SubSeq(net[c], j + 1, Len(net[c])) \in Seq(Chunks)
  <2>1. recv[c] \in Seq(Chunks) /\ net[c] \in Seq(Chunks)
    BY DEF TypeOK
  <2> QED BY <1>4, <2>1, SplitSeq
<1>6. net' \in [Conns -> Seq(Chunks)]
  BY <1>3, <1>5 DEF TypeOK
<1>7. /\ recv' \in [Conns -> Seq(Chunks)] /\ send' \in [Conns -> Seq(Pieces)]
      /\ served' \in [Conns -> Seq(ServedRec)]
  <2>1. CASE ~(buf # <<>> /\ MessageLen(c, buf) > 0)
    <3>1. recv' = [recv EXCEPT ![c] = buf] /\ UNCHANGED <<served, send>>
      BY <1>3, <1>4, <2>1 DEF Receive
    <3> QED BY <1>5, <3>1 DEF TypeOK, ServedRec
  <2>2. CASE buf # <<>> /\ MessageLen(c, buf) > 0
    <3>1. PICK len, n, body :
            /\ len = MessageLen(c, buf) /\ n = buf[1].req
            /\ served' = [served EXCEPT ![c] = Dispatched(c, n, body)]
            /\ send' = [send EXCEPT ![c] = Written(@, n, Result(c, n, body))]
            /\ recv' = [recv EXCEPT ![c] = SubSeq(buf, len + 1, Len(buf))]
      BY <1>3, <1>4, <2>2 DEF Receive
    <3>2. n \in 1..MaxRequests
      <4>1. buf[1] \in Chunks
        BY <1>5, <2>2
      <4> QED BY <3>1, <4>1 DEF Chunks
    <3>3. len \in 1..Len(buf)
      <4>1. Len(buf) \in Nat /\ Len(buf) # 0
        BY <1>5, <2>2
      <4> QED BY <2>2, <3>1, <4>1 DEF MessageLen, Waiting
    <3>4. SubSeq(buf, len + 1, Len(buf)) \in Seq(Chunks)
      BY <1>5, <3>3, TailParts
    <3>5. Dispatched(c, n, body) \in Seq(ServedRec) /\ Result(c, n, body) \in Results
      BY <3>2, DispatchedType
    <3>6. Written(send[c], n, Result(c, n, body)) \in Seq(Pieces)
      <4>1. send[c] \in Seq(Pieces)
        BY DEF TypeOK
      <4> QED BY <3>2, <3>5, <4>1, WrittenType
    <3> QED BY <3>1, <3>4, <3>5, <3>6 DEF TypeOK, ServedRec
  <2> QED BY <2>1, <2>2
<1> QED BY <1>1, <1>2, <1>6, <1>7 DEF TypeOK, ServedRec

LEMMA WriteTypes ==
  ASSUME TypeInv, NEW c \in Conns, Write(c)
  PROVE  TypeInv'
<1> USE DEF TypeInv
<1>1. /\ Proceed(c) /\ UNCHANGED <<kind, due, fin, net, phase, recv, userData, served>>
      /\ flags' \in {flags, [flags EXCEPT ![c] = @ \cup {"CloseImmediately"}]}
  BY DEF Write, clientVars
<1>2. /\ flags' \in [Conns -> SUBSET {"CloseImmediately", "SendAndClose"}]
      /\ stage' \in {"select", "handle", "close"} /\ ready' \in [Conns -> SUBSET {"read", "write"}]
      /\ todo' \subseteq Conns \cup {Listener}
  <2>1. flags' \in [Conns -> SUBSET {"CloseImmediately", "SendAndClose"}]
    <3>1. flags \in [Conns -> SUBSET {"CloseImmediately", "SendAndClose"}]
      BY DEF TypeOK
    <3> QED BY <1>1, <3>1
  <2>2. ready' \in [Conns -> SUBSET {"read", "write"}]
    <3>1. ready \in [Conns -> SUBSET {"read", "write"}]
      BY DEF TypeOK
    <3> QED BY <1>1, <3>1 DEF Proceed
  <2>3. stage' \in {"select", "handle", "close"} /\ todo' \subseteq Conns \cup {Listener}
    BY <1>1 DEF TypeOK, Proceed
  <2> QED BY <2>1, <2>2, <2>3
<1>3. send' \in [Conns -> Seq(Pieces)] /\ got' \in [Conns -> Seq(Pieces)]
  <2>1. CASE UNCHANGED <<send, got>>
    BY <2>1 DEF TypeOK
  <2>2. ASSUME NEW j \in 1..Len(send[c]),
               send' = [send EXCEPT ![c] = SubSeq(@, j + 1, Len(@))],
               \/ got' = got
               \/ got' = [got EXCEPT ![c] = @ \o SubSeq(send[c], 1, j)]
        PROVE  send' \in [Conns -> Seq(Pieces)] /\ got' \in [Conns -> Seq(Pieces)]
    <3>1. got[c] \in Seq(Pieces) /\ send[c] \in Seq(Pieces)
      BY DEF TypeOK
    <3>2. /\ got[c] \o SubSeq(send[c], 1, j) \in Seq(Pieces)
          /\ SubSeq(send[c], j + 1, Len(send[c])) \in Seq(Pieces)
      BY <3>1, SplitSeq
    <3>3. send' \in [Conns -> Seq(Pieces)]
      BY <2>2, <3>2 DEF TypeOK
    <3>4. got' \in [Conns -> Seq(Pieces)]
      BY <2>2, <3>2 DEF TypeOK
    <3> QED BY <3>3, <3>4
  <2> QED BY <2>1, <2>2 DEF Write
<1> QED BY <1>1, <1>2, <1>3 DEF TypeOK

LEMMA CloseTypes ==
  ASSUME TypeInv, NEW c \in Conns, CloseConn(c)
  PROVE  TypeInv'
<1> USE DEF TypeInv
<1>1. /\ userData' = [userData EXCEPT ![c] = FALSE]
      /\ phase' = [phase EXCEPT ![c] = "closed"]
      /\ recv' = [recv EXCEPT ![c] = <<>>] /\ send' = [send EXCEPT ![c] = <<>>]
      /\ UNCHANGED <<kind, due, fin, net, got, flags, stage, ready, todo>>
  BY DEF CloseConn, clientVars, pollVars
<1>2. served' \in [Conns -> Seq(ServedRec)]
  <2>1. CASE served' = served
    BY <2>1 DEF TypeOK, ServedRec
  <2>2. CASE /\ recv[c] # <<>>
             /\ served' = [served EXCEPT ![c] = Dispatched(c, recv[c][1].req, Tail(recv[c]))]
    <3>1. recv[c][1].req \in 1..MaxRequests
      <4>1. recv[c] \in Seq(Chunks)
        BY DEF TypeOK
      <4>2. recv[c][1] \in Chunks
        BY <2>2, <4>1
      <4> QED BY <4>2 DEF Chunks
    <3>2. Dispatched(c, recv[c][1].req, Tail(recv[c])) \in Seq(ServedRec)
      BY <3>1, DispatchedType
    <3> QED BY <2>2, <3>2 DEF TypeOK, ServedRec
  <2> QED BY <2>1, <2>2 DEF CloseConn
<1>3. /\ \A S : <<>> \in Seq(S)
      /\ phase' \in [Conns -> {"new", "backlog", "open", "closed"}]
      /\ userData' \in [Conns \cup {Listener} -> BOOLEAN]
  BY <1>1 DEF TypeOK
<1> QED BY <1>1, <1>2, <1>3 DEF TypeOK, ServedRec

LEMMA BrokenTypes ==
  ASSUME TypeInv, Broken
  PROVE  TypeInv'
<1> USE DEF TypeInv
<1>1. /\ UNCHANGED <<kind, due, fin, got, flags, send, served>>
      /\ stage' = "select" /\ ready' = [c \in Conns |-> {}] /\ todo' = {}
  BY DEF Broken, Throw, clientVars
<1>2. /\ phase' \in [Conns -> {"new", "backlog", "open", "closed"}]
      /\ userData' \in [Conns \cup {Listener} -> BOOLEAN]
  BY DEF Broken, TypeOK
<1>3. net' \in [Conns -> Seq(Chunks)] /\ recv' \in [Conns -> Seq(Chunks)]
  <2>1. net \in [Conns -> Seq(Chunks)] /\ recv \in [Conns -> Seq(Chunks)] /\ Throw
    BY DEF Broken, TypeOK
  <2> QED BY <2>1, ThrowTypes
<1> QED BY <1>1, <1>2, <1>3 DEF TypeOK

LEMMA ClientTypes ==
  ASSUME TypeInv, NEW c \in Conns, Client(c)
  PROVE  TypeInv'
<1> USE DEF TypeInv
<1>1. CASE Connect(c)
  BY <1>1 DEF Connect, TypeOK, clientVars, pollVars
<1>2. CASE Finish(c)
  BY <1>2 DEF Finish, TypeOK, connVars, pollVars
<1>3. kind[c] \in Seq(Kinds) /\ Len(kind[c]) \in Nat /\ net[c] \in Seq(Chunks)
  BY DEF TypeOK
<1>4. ASSUME NEW k \in Kinds, SendHead(c, k)
      PROVE  TypeInv'
  <2>1. /\ Len(kind[c]) < MaxRequests
        /\ kind' = [kind EXCEPT ![c] = Append(@, k)]
        /\ due' = [due EXCEPT ![c] = HasBody(k)]
        /\ net' = [net EXCEPT ![c] = Append(@, Head_(Len(kind[c]) + 1))]
        /\ UNCHANGED <<fin, got, phase, recv, flags, userData, send, stage, ready, todo, served>>
    BY <1>4 DEF SendHead, connVars, pollVars
  <2>2. Head_(Len(kind[c]) + 1) \in Chunks
    BY <1>3, <2>1, HttpAssumption DEF Head_, Chunks
  <2>3. Append(net[c], Head_(Len(kind[c]) + 1)) \in Seq(Chunks)
    BY <1>3, <2>2
  <2>4. /\ Append(kind[c], k) \in Seq(Kinds) /\ Len(Append(kind[c], k)) <= MaxRequests
        /\ Append(kind[c], k) # <<>>
    <3>1. /\ Append(kind[c], k) \in Seq(Kinds) /\ Append(kind[c], k) # <<>>
          /\ Len(Append(kind[c], k)) = Len(kind[c]) + 1
      BY <1>3
    <3>2. Len(kind[c]) + 1 <= MaxRequests
      <4> DEFINE l == Len(kind[c])
      <4>1. l \in Nat /\ MaxRequests \in Nat /\ l < MaxRequests
        BY <1>3, <2>1, HttpAssumption
      <4> HIDE DEF l
      <4> QED BY <4>1 DEF l
    <3> QED BY <3>1, <3>2
  <2>5. \A x \in Conns : Len(kind'[x]) <= MaxRequests /\ (due'[x] => kind'[x] # <<>>)
    BY <2>1, <2>4 DEF TypeOK
  <2>6. due' \in [Conns -> BOOLEAN]
    BY <2>1 DEF TypeOK, HasBody
  <2>7. kind' \in [Conns -> Seq(Kinds)] /\ net' \in [Conns -> Seq(Chunks)]
    BY <2>1, <2>3, <2>4 DEF TypeOK
  <2> QED BY <2>1, <2>5, <2>6, <2>7 DEF TypeOK
<1>5. CASE SendBody(c)
  <2>1. /\ due[c] /\ due' = [due EXCEPT ![c] = FALSE]
        /\ net' = [net EXCEPT ![c] = Append(@, Body(Len(kind[c])))]
        /\ UNCHANGED <<kind, fin, got, phase, recv, flags, userData, send, stage, ready, todo,
                       served>>
    BY <1>5 DEF SendBody, connVars, pollVars
  <2>2. Body(Len(kind[c])) \in Chunks
    <3>1. Len(kind[c]) \in 1..MaxRequests
      <4>1. kind[c] # <<>> /\ Len(kind[c]) <= MaxRequests
        BY <2>1
      <4>2. Len(kind[c]) # 0
        BY <1>3, <4>1
      <4> QED BY <1>3, <4>1, <4>2, HttpAssumption
    <3> QED BY <3>1 DEF Body, Chunks
  <2>3. Append(net[c], Body(Len(kind[c]))) \in Seq(Chunks)
    BY <1>3, <2>2
  <2>4. due' \in [Conns -> BOOLEAN] /\ net' \in [Conns -> Seq(Chunks)]
        /\ \A x \in Conns : due'[x] => due[x]
    BY <2>1, <2>3 DEF TypeOK
  <2> QED BY <2>1, <2>4 DEF TypeOK
<1> QED BY <1>1, <1>2, <1>4, <1>5 DEF Client

LEMMA TypesNext == TypeInv /\ [Next]_vars => TypeInv'
<1> SUFFICES ASSUME TypeInv, [Next]_vars PROVE TypeInv'
  OBVIOUS
<1> USE DEF TypeInv
<1>1. CASE Select
  <2>1. /\ UNCHANGED <<kind, due, fin, net, got, phase, recv, flags, userData, send, served>>
        /\ stage' \in {"handle", "close"} /\ todo' \subseteq Open \cup {Listener}
        /\ ready' \in [Conns -> SUBSET {"read", "write"}]
    BY <1>1 DEF Select, clientVars, connVars
  <2> QED BY <2>1 DEF TypeOK, Open
<1>2. ASSUME NEW c \in Conns, Accept(c)
      PROVE  TypeInv'
  <2>1. /\ Proceed(Listener) /\ phase' = [phase EXCEPT ![c] = "open"]
        /\ userData' = [userData EXCEPT ![c] = userData[Listener]]
        /\ UNCHANGED <<kind, due, fin, net, got, recv, flags, send, served>>
    BY <1>2 DEF Accept, clientVars
  <2>2. /\ phase' \in [Conns -> {"new", "backlog", "open", "closed"}]
        /\ userData' \in [Conns \cup {Listener} -> BOOLEAN]
        /\ stage' \in {"select", "handle", "close"} /\ ready' = ready
        /\ todo' \subseteq Conns \cup {Listener}
    BY <2>1 DEF TypeOK, Proceed
  <2> QED BY <2>1, <2>2 DEF TypeOK
<1>3. ASSUME NEW c \in Conns, ReadEnd(c)
      PROVE  TypeInv'
  BY <1>3 DEF ReadEnd, Proceed, TypeOK, clientVars
<1>4. CASE PollEnd
  BY <1>4 DEF PollEnd, TypeOK, clientVars, connVars
<1>5. CASE UNCHANGED vars
  BY <1>5 DEF vars, TypeOK, clientVars, connVars, pollVars
<1>6. CASE PollThrows
  BY <1>6, BrokenTypes DEF PollThrows, Broken
<1> QED
  BY <1>1, <1>2, <1>3, <1>4, <1>5, <1>6, ReadTypes, WriteTypes, CloseTypes, ClientTypes
    DEF Next, Server, Handle, Close

----------------------------------------------------------------------------
(* The signals.                                                            *)

Held == loop \in {"reset", "act"} /\ taken = "HUP"
Waits == loop # "reset" /\ sig = "HUP"

Bit(b) == IF b THEN 1 ELSE 0

\* A hangup is in one of three places: in sig_, until it is read, in the copy
\* that the loop acts on, or behind it in a log that was opened again.  While
\* the copy is taken and sig_ is not reset yet, sig_ holds the same hangup, or
\* one that will be lost.  The same goes for a request to stop, which no place
\* can hold unless the operator has made one.
HangupsCounted ==
  /\ loop \in {"poll", "read", "reset", "act", "last", "free"} \cup Ended
  /\ {sig, taken} \subseteq {None, "HUP"} \cup Stops
  /\ path \in Nat /\ reopened \in Nat
  /\ reopened + Bit(Held) + Bit(Waits) <= path

StopsAsked ==
  /\ sig \in Stops => told
  /\ loop \in {"reset", "act"} /\ taken \in Stops => told
  /\ StopsOnlyWhenTold

SignalInv == HangupsCounted /\ StopsAsked

LEMMA InitSignalInv == DaemonInit => SignalInv
BY DEF DaemonInit, SignalInv, HangupsCounted, StopsAsked, StopsOnlyWhenTold,
       Held, Waits, Bit, None, Stops, Ended

\* What the steps of the poll do to main: they go on with it, and no more.
LEMMA PollStepGoes ==
  PollStep \/ PollIdle =>
    /\ loop \in {"poll", "last"}
    /\ loop = "poll" => loop' \in {"poll", "read"}
    /\ loop = "last" => loop' \in {"last", "free"}
    /\ UNCHANGED <<sig, taken, path, log, ret, reopened, told, starved>>
BY DEF PollStep, PollIdle, Go

LEMMA SignalInvNext == SignalInv /\ DaemonNext => SignalInv'
<1> USE DEF SignalInv, HangupsCounted, StopsAsked, StopsOnlyWhenTold, Held, Waits, Bit,
            None, Stops, Ended
<1> SUFFICES ASSUME SignalInv, DaemonNext PROVE SignalInv' OBVIOUS
<1>1. CASE PollStep \/ PollIdle BY <1>1, PollStepGoes
<1>2. CASE ReadSig BY <1>2 DEF ReadSig, Go
<1>3. CASE ResetSig BY <1>3 DEF ResetSig, Go
<1>4. CASE Reopen
  <2>1. CASE reopened' = reopened + 1 /\ loop' = "poll" /\ UNCHANGED <<sig, taken, path, ret, told, starved>>
    BY <1>4, <2>1 DEF Reopen
  <2>2. CASE Leave(1) /\ UNCHANGED <<log, reopened, told, starved>>
    BY <1>4, <2>2 DEF Reopen, Leave, Unwind, Go
  <2> QED BY <1>4, <2>1, <2>2 DEF Reopen, Go
<1>5. CASE Act BY <1>5 DEF Act, Leave, Unwind, Go
<1>6. CASE Free
  <2>1. loop' \in {"free", "stopped"} /\ loop = "free"
    BY <1>6 DEF Free, Go
  <2> QED BY <1>6, <2>1 DEF Free
<1>7. CASE Clients BY <1>7 DEF Clients, mainVars
<1>8. CASE Hangup BY <1>8 DEF Hangup
<1>9. ASSUME NEW s \in Stops, Terminate(s) PROVE SignalInv' BY <1>9 DEF Terminate
<1>10. CASE LeaveByThrow BY <1>10 DEF LeaveByThrow, Unwind, Go
<1>11. CASE Abort
  <2>1. /\ loop \in {"last", "free"} /\ loop' = "aborted" /\ starved'
        /\ UNCHANGED <<sig, taken, path, log, ret, reopened, told>>
    BY <1>11 DEF Abort, Go
  <2> QED BY <2>1
<1> QED
  BY <1>1, <1>2, <1>3, <1>4, <1>5, <1>6, <1>7, <1>8, <1>9, <1>10, <1>11 DEF DaemonNext, Main, Operator

\* A signal that is read is reset before it is acted on: however the hangups of
\* the operator fall into the loop of main, the log is opened again at most once
\* for each of them.
THEOREM NoHangupTwice == DaemonSpec => []ReopensAreAsked
<1>1. SignalInv /\ UNCHANGED <<httpVars, mainVars>> => SignalInv'
  BY DEF SignalInv, HangupsCounted, StopsAsked, StopsOnlyWhenTold, Held, Waits, mainVars
<1>2. SignalInv => ReopensAreAsked
  BY DEF SignalInv, HangupsCounted, ReopensAreAsked, Bit
<1> QED BY InitSignalInv, SignalInvNext, <1>1, <1>2, PTL DEF DaemonSpec

\* The loop of main ends with status 0 only when the operator asked for it, and with
\* status 1 only while the log waits to be opened again, or when there was no memory
\* for the send buffer of a connection.
THEOREM NoStopUntold == DaemonSpec => []StopsOnlyWhenTold
<1>1. SignalInv /\ UNCHANGED <<httpVars, mainVars>> => SignalInv'
  BY DEF SignalInv, HangupsCounted, StopsAsked, StopsOnlyWhenTold, Held, Waits, mainVars
<1>2. SignalInv => StopsOnlyWhenTold BY DEF SignalInv, StopsAsked
<1> QED BY InitSignalInv, SignalInvNext, <1>1, <1>2, PTL DEF DaemonSpec

----------------------------------------------------------------------------
(* The server behind the connections.                                      *)

\* A history of requests all of which found the server.
AllKnown(s) == \E S : s \in Seq(S) /\ \A r \in S : r.known

LEMMA AllKnownRead ==
  ASSUME NEW s, AllKnown(s), NEW i \in 1..Len(s)
  PROVE  s[i].known
<1>1. PICK S : s \in Seq(S) /\ \A r \in S : r.known BY DEF AllKnown
<1> QED BY <1>1

LEMMA AllKnownAppend ==
  ASSUME NEW s, AllKnown(s), NEW r, r.known
  PROVE  AllKnown(Append(s, r))
<1>1. PICK S : s \in Seq(S) /\ \A x \in S : x.known BY DEF AllKnown
<1>2. s \in Seq(S \cup {r}) BY <1>1
<1>3. Append(s, r) \in Seq(S \cup {r}) BY <1>2
<1> QED BY <1>1, <1>3 DEF AllKnown

Running == loop \notin {"last", "free"} \cup Ended

\* While the loop runs, the listening socket has the server, every open
\* connection took it over when it was accepted, and only open connections wait
\* to be handled: none of them is closed before its turn in the poll.
ServerBehind ==
  Running =>
    /\ userData \in [Conns \cup {Listener} -> BOOLEAN]
    /\ phase \in [Conns -> {"new", "backlog", "open", "closed"}]
    /\ served \in [Conns -> {served[c] : c \in Conns}]
    /\ userData[Listener]
    /\ \A c \in Open : userData[c]
    /\ stage = "handle" => todo \subseteq Open \cup {Listener}
    /\ \A c \in Conns : AllKnown(served[c])

LEMMA InitServerBehind == DaemonInit => ServerBehind
<1> SUFFICES ASSUME DaemonInit PROVE ServerBehind OBVIOUS
<1>1. AllKnown(<<>>)
  <2> DEFINE none == {}
  <2>1. <<>> \in Seq(none) /\ \A r \in none : r.known OBVIOUS
  <2> HIDE DEF none
  <2> QED BY <2>1 DEF AllKnown
<1> QED BY <1>1, HttpAssumption DEF DaemonInit, Init, ServerBehind, Open

\* A request handed on while the server is behind its connection finds it.
LEMMA DispatchFinds ==
  ASSUME ServerBehind, Running, NEW c \in Open, NEW n, NEW body,
         served' = [served EXCEPT ![c] = Dispatched(c, n, body)]
  PROVE  /\ served' \in [Conns -> {served'[d] : d \in Conns}]
         /\ \A d \in Conns : AllKnown(served'[d])
<1> DEFINE r == [req |-> n, result |-> Result(c, n, body), known |-> userData[c]]
<1>1. c \in Conns /\ userData[c] /\ AllKnown(served[c]) BY DEF ServerBehind, Open
<1>2. AllKnown(Append(served[c], r))
  <2>1. r.known BY <1>1
  <2> HIDE DEF r
  <2> QED BY <1>1, <2>1, AllKnownAppend
<1>3. served' = [served EXCEPT ![c] = Append(served[c], r)] BY DEF Dispatched
<1> HIDE DEF r
<1> QED BY <1>1, <1>2, <1>3 DEF ServerBehind

LEMMA ServerBehindPoll == ServerBehind /\ loop = "poll" /\ Server => ServerBehind'
<1> SUFFICES ASSUME ServerBehind, loop = "poll", Server, Running' PROVE ServerBehind'
  BY DEF ServerBehind
<1> USE DEF ServerBehind, Open
<1>1. Running BY DEF Running, Ended
<1>2. CASE Select BY <1>1, <1>2 DEF Select, connVars
<1>3. ASSUME NEW c \in Conns, Accept(c) PROVE ServerBehind'
  BY <1>1, <1>3, HttpAssumption DEF Accept, Proceed
<1>4. ASSUME NEW c \in Conns, Read(c) PROVE ServerBehind'
  <2>1. c \in Open BY <1>1, <1>4, HttpAssumption DEF Read
  <2>2. UNCHANGED <<phase, userData>> /\ todo' \subseteq todo
    BY <1>4 DEF Read, Proceed
  <2>3. stage = "handle" BY <1>4 DEF Read
  <2>4. \/ UNCHANGED served
        \/ \E n, body : served' = [served EXCEPT ![c] = Dispatched(c, n, body)]
    BY <1>4, Zenon DEF Read, Receive
  <2>5. /\ served' \in [Conns -> {served'[d] : d \in Conns}]
        /\ \A d \in Conns : AllKnown(served'[d])
    BY <1>1, <2>1, <2>4, DispatchFinds
  <2> QED BY <1>1, <2>2, <2>3, <2>5
<1>5. ASSUME NEW c \in Conns, ReadEnd(c) PROVE ServerBehind'
  BY <1>1, <1>5 DEF ReadEnd, Proceed
<1>6. ASSUME NEW c \in Conns, Write(c) PROVE ServerBehind'
  BY <1>1, <1>6 DEF Write, Proceed
<1>7. ASSUME NEW c \in Conns, Close(c) PROVE ServerBehind'
  <2>1. c \in Open /\ stage = "close" /\ CloseConn(c) BY <1>7 DEF Close, Closable
  <2>2. /\ userData' = [userData EXCEPT ![c] = FALSE]
        /\ phase' = [phase EXCEPT ![c] = "closed"]
        /\ UNCHANGED <<stage, todo>>
    BY <2>1 DEF CloseConn, pollVars
  <2>3. \/ UNCHANGED served
        \/ \E n, body : served' = [served EXCEPT ![c] = Dispatched(c, n, body)]
    BY <2>1, Zenon DEF CloseConn
  <2>4. /\ served' \in [Conns -> {served'[d] : d \in Conns}]
        /\ \A d \in Conns : AllKnown(served'[d])
    BY <1>1, <2>1, <2>3, DispatchFinds
  <2> QED BY <1>1, <2>1, <2>2, <2>4, HttpAssumption
<1>8. CASE PollEnd BY <1>1, <1>8 DEF PollEnd, connVars
<1> QED BY <1>2, <1>3, <1>4, <1>5, <1>6, <1>7, <1>8 DEF Server, Handle

LEMMA ServerBehindNext == ServerBehind /\ DaemonNext => ServerBehind'
<1> SUFFICES ASSUME ServerBehind, DaemonNext, Running' PROVE ServerBehind'
  BY DEF ServerBehind
<1> USE DEF Running, Ended
<1>1. ASSUME UNCHANGED httpVars, Running PROVE ServerBehind'
  BY <1>1 DEF ServerBehind, httpVars, connVars, pollVars, Open
<1>2. CASE PollStep
  BY <1>2, ServerBehindPoll DEF PollStep, Go
<1>3. CASE PollIdle \/ ReadSig \/ ResetSig
  BY <1>1, <1>3 DEF PollIdle, ReadSig, ResetSig, Go
<1>4. CASE Reopen \/ Act
  BY <1>1, <1>4 DEF Reopen, Act, Leave, Unwind, Go
<1>5. CASE Free \/ LeaveByThrow \/ Abort BY <1>5 DEF Free, LeaveByThrow, Abort, Unwind, Go
<1>6. CASE Clients
  <2>1. PICK c \in Conns : Client(c) /\ UNCHANGED mainVars BY <1>6 DEF Clients
  <2>2. Running BY <2>1 DEF mainVars
  <2>3. UNCHANGED <<userData, stage, todo, served>>
    BY <2>1 DEF Client, Connect, SendHead, SendBody, Finish, connVars, pollVars
  <2>4. phase' = phase \/ (phase[c] = "new" /\ phase' = [phase EXCEPT ![c] = "backlog"])
    BY <2>1 DEF Client, Connect, SendHead, SendBody, Finish, connVars
  <2>5. /\ phase' \in [Conns -> {"new", "backlog", "open", "closed"}]
        /\ Open' = Open
    BY <2>2, <2>4 DEF ServerBehind, Open
  <2> QED BY <2>2, <2>3, <2>5 DEF ServerBehind
<1>7. CASE Operator
  BY <1>1, <1>7 DEF Operator, Hangup, Terminate
<1> QED BY <1>2, <1>3, <1>4, <1>5, <1>6, <1>7 DEF DaemonNext, Main

\* Every request that is handed on while the loop of main runs finds its server:
\* new connections take it over from the listening socket, and a connection that
\* was closed is handled no more (mg_accept_conn, mg_close_conn, Mgr::handler).
THEOREM ServerIsThere == DaemonSpec => []ServerOutlivesLoop
<1>1. ServerBehind /\ UNCHANGED <<httpVars, mainVars>> => ServerBehind'
  BY DEF ServerBehind, Running, httpVars, mainVars, connVars, pollVars, Open
<1>2. ServerBehind => ServerOutlivesLoop
  BY AllKnownRead DEF ServerBehind, ServerOutlivesLoop, Running
<1> QED BY InitServerBehind, ServerBehindNext, <1>1, <1>2, PTL DEF DaemonSpec


----------------------------------------------------------------------------
(* The HTTP server inside the daemon: what is proved of it polling for ever  *)
(* stays true when the loop of main ends and takes its connections along.    *)

PollLeft == loop \notin {"poll", "last"} => stage = "select"

\* ~RestServ is run before ~Mgr: no connection has its server any more.
Forgotten ==
  /\ userData' = [c \in DOMAIN userData |-> FALSE]
  /\ UNCHANGED <<clientVars, net, got, phase, recv, flags, send, pollVars, served>>

\* The connections are gone with the process, those too that nobody has accepted.
Dropped ==
  /\ stage = "select"
  /\ phase' = [c \in Conns |-> "closed"]
  /\ UNCHANGED <<clientVars, net, got, recv, flags, userData, send, pollVars, served>>

LEMMA DaemonSteps ==
  ASSUME PollLeft, [DaemonNext]_<<httpVars, mainVars>>
  PROVE  /\ PollLeft'
         /\ \/ [Next]_vars
            \/ \E c \in Open : stage = "select" /\ CloseConn(c)
            \/ Forgotten
            \/ Dropped
            \/ Broken
<1>1. CASE PollStep
  <2>1. loop \in {"poll", "last"} /\ Server
    BY <1>1 DEF PollStep
  <2>2. loop' = loop \/ (PollEnd /\ stage' = "select")
    BY <1>1 DEF PollStep, PollEnd, Go
  <2> QED BY <2>1, <2>2 DEF PollLeft, Next
<1>2. CASE UNCHANGED httpVars /\ (UNCHANGED loop \/ loop \notin {"poll", "last"} \/ PollIdle)
  <2>1. UNCHANGED vars /\ stage' = stage
    BY <1>2 DEF httpVars, vars, pollVars
  <2> QED BY <1>2, <2>1 DEF PollLeft, PollIdle
<1>3. ASSUME NEW status, Leave(status), loop = "act"
      PROVE  PollLeft' /\ Forgotten
  BY <1>3 DEF Leave, Unwind, Go, Forgotten, PollLeft, pollVars
<1>4. CASE Reopen \/ Act
  <2>1. loop = "act" /\ (Leave(0) \/ Leave(1) \/ UNCHANGED httpVars)
    BY <1>4 DEF Reopen, Act
  <2> QED BY <1>2, <1>3, <2>1
<1>5. CASE Free
  <2>1. loop = "free" /\ stage = "select"
    BY <1>5 DEF Free, PollLeft
  <2>2. (\E c \in Open : CloseConn(c)) \/ Dropped
    BY <1>5, <2>1 DEF Free, Dropped
  <2>3. stage' = stage
    BY <2>2 DEF CloseConn, Dropped, pollVars
  <2> QED BY <2>1, <2>2, <2>3 DEF PollLeft
<1>6. CASE Clients
  <2>1. Next /\ loop' = loop
    BY <1>6 DEF Clients, Next, mainVars
  <2>2. stage' = stage
    BY <1>6 DEF Clients, Client, Connect, SendHead, SendBody, Finish, pollVars
  <2> QED BY <2>1, <2>2 DEF PollLeft
<1>7. CASE PollIdle \/ ReadSig \/ ResetSig \/ Operator \/ UNCHANGED <<httpVars, mainVars>>
  <2>1. UNCHANGED httpVars
    BY <1>7 DEF PollIdle, ReadSig, ResetSig, Operator, Hangup, Terminate
  <2>2. UNCHANGED loop \/ loop \notin {"poll", "last"} \/ PollIdle
    BY <1>7 DEF ReadSig, ResetSig, Operator, Hangup, Terminate, mainVars
  <2> QED BY <1>2, <2>1, <2>2
<1>8. CASE LeaveByThrow \/ (Abort /\ loop # "free")
  <2>1. Throw /\ stage' = "select"
    BY <1>8 DEF LeaveByThrow, Abort, Throw
  <2>2. /\ phase' \in {phase, [c \in Conns |-> "closed"]}
        /\ userData' \in {userData, [c \in DOMAIN userData |-> FALSE]}
    BY <1>8 DEF LeaveByThrow, Abort, Unwind
  <2> QED BY <2>1, <2>2 DEF PollLeft, Broken
<1>9. CASE Abort /\ loop = "free"
  <2>1. stage = "select"
    BY <1>9 DEF PollLeft
  <2>2. Dropped
    BY <1>9, <2>1 DEF Abort, ThrowClose, Dropped
  <2> QED BY <2>1, <2>2 DEF PollLeft, Dropped, pollVars
<1> QED BY <1>1, <1>4, <1>5, <1>6, <1>7, <1>8, <1>9 DEF DaemonNext, Main

ServerInv == PollLeft /\ TypeInv /\ StreamInv /\ AnswerInv

LEMMA InitServerInv == DaemonInit => ServerInv
BY InitTypes, InitStreamInv, InitAnswerInv DEF DaemonInit, ServerInv, PollLeft

LEMMA ServerInvNext == ServerInv /\ [DaemonNext]_<<httpVars, mainVars>> => ServerInv'
<1> SUFFICES ASSUME ServerInv, [DaemonNext]_<<httpVars, mainVars>> PROVE ServerInv'
  OBVIOUS
<1> USE DEF ServerInv
<1>1. PollLeft'
  BY DaemonSteps
<1>2. CASE [Next]_vars
  BY <1>1, <1>2, TypesNext, StreamInvNext, AnswerInvNext
<1>3. ASSUME NEW c \in Open, stage = "select", CloseConn(c)
      PROVE  ServerInv'
  <2>1. c \in Conns /\ phase[c] = "open" /\ c \notin todo
    BY <1>3 DEF Open, StreamInv, TodoOK
  <2>2. StreamInv'
    BY <1>3, <2>1, CloseStep
  <2> QED BY <1>1, <1>3, <2>1, <2>2, CloseTypes, AnswerClose
<1>4. CASE Forgotten \/ Dropped
  <2>1. /\ UNCHANGED <<kind, due, fin, net, got, recv, flags, send, stage, ready, todo, served>>
        /\ phase' = phase \/ (phase' = [c \in Conns |-> "closed"] /\ stage = "select")
        /\ userData' = userData \/ userData' = [c \in DOMAIN userData |-> FALSE]
    BY <1>4 DEF Forgotten, Dropped, clientVars, pollVars
  <2>2. /\ userData' \in [Conns \cup {Listener} -> BOOLEAN] /\ DOMAIN phase' = Conns
        /\ phase' \in [Conns -> {"new", "backlog", "open", "closed"}]
        /\ \A c \in Conns : phase[c] = "closed" => phase'[c] = "closed"
    BY <2>1 DEF TypeInv, TypeOK
  <2>3. TodoOK'
    BY <2>1 DEF StreamInv, TodoOK, Open
  <2>4. StreamInv'
    BY <2>1, <2>2, <2>3, QuietStep
  <2>5. DOMAIN fin' = Conns
    BY <2>1 DEF TypeInv, TypeOK
  <2>6. AnswerInv'
    BY <2>1, <2>2, <2>5, AnswerQuiet
  <2>7. TypeInv'
    BY <2>1, <2>2 DEF TypeInv, TypeOK
  <2> QED BY <1>1, <2>4, <2>6, <2>7
<1>5. CASE Broken
  <2>1. AnswerInv'
    <3>1. UNCHANGED <<kind, got, send, served, fin>>
      BY <1>5 DEF Broken, Throw, clientVars
    <3>2. \A c \in Conns : phase[c] = "closed" => phase'[c] = "closed"
      BY <1>5 DEF Broken
    <3>3. DOMAIN fin' = Conns
      BY <3>1 DEF TypeInv, TypeOK
    <3> QED BY <3>1, <3>2, <3>3, AnswerQuiet
  <2> QED BY <1>1, <1>5, <2>1, StreamBroken, BrokenTypes
<1> QED BY <1>2, <1>3, <1>4, <1>5, DaemonSteps

\* The requests taken up while the loop of main ends, and those that are handed on
\* once more when the server is destroyed with their connections still open, take
\* effect only when they are whole (Main.cpp, mg_mgr_free, mg_close_conn).
THEOREM DaemonTakesWholeRequests == DaemonSpec => []OnlyWholeRequestsTakeEffect
<1>1. ServerInv => OnlyWholeRequestsTakeEffect
  BY DEF ServerInv, StreamInv, ServedOK, Effective, OnlyWholeRequestsTakeEffect
<1> QED BY InitServerInv, ServerInvNext, <1>1, PTL DEF DaemonSpec

\* Nor does the end of the loop take a request out of turn, or twice: one that was
\* performed in the poll is not performed again when its connection is freed.
THEOREM DaemonServesInOrder == DaemonSpec => []ServedOnceInOrder
<1>1. ServerInv => ServedOnceInOrder
  BY DEF ServerInv, StreamInv, ServedOK, ServedOnceInOrder
<1> QED BY InitServerInv, ServerInvNext, <1>1, PTL DEF DaemonSpec

\* What clients that wait have received stays right, whenever the daemon stops.
THEOREM DaemonAnswersInOrder == DaemonSpec => []AnswersInOrder
<1>1. ServerInv => AnswersInOrder
  BY DEF ServerInv, AnswerInv, AnswerOK, GotRight, PieceOf, AnswersInOrder
<1> QED BY InitServerInv, ServerInvNext, <1>1, PTL DEF DaemonSpec

----------------------------------------------------------------------------
(* Types.                                                                  *)

LogInv ==
  /\ path \in 0..MaxHangups /\ log \in 0..path
  /\ ret \in {0, 1} /\ {told, starved} \subseteq BOOLEAN

LEMMA LogInvNext == LogInv /\ [DaemonNext]_<<httpVars, mainVars>> => LogInv'
<1> SUFFICES ASSUME LogInv, [DaemonNext]_<<httpVars, mainVars>> PROVE LogInv'
  OBVIOUS
<1> USE DEF LogInv
<1>1. CASE Hangup
  BY <1>1, DaemonAssumption DEF Hangup
<1>2. CASE Reopen \/ Act
  BY <1>2 DEF Reopen, Act, Leave, Unwind
<1>3. CASE LeaveByThrow \/ Abort \/ Free \/ Clients \/ UNCHANGED <<httpVars, mainVars>>
  BY <1>3 DEF LeaveByThrow, Abort, Unwind, Free, Clients, mainVars
<1>4. CASE PollStep \/ PollIdle \/ ReadSig \/ ResetSig \/ \E s \in Stops : Terminate(s)
  BY <1>4 DEF PollStep, PollIdle, ReadSig, ResetSig, Terminate
<1> QED BY <1>1, <1>2, <1>3, <1>4 DEF DaemonNext, Main, Operator

\* Every variable of the daemon and of its server keeps its type: no request
\* number, chunk or piece leaves the bounds, and no file is open that never was.
THEOREM DaemonTypes == DaemonSpec => []MainTypeOK
<1> DEFINE Inv == ServerInv /\ SignalInv /\ LogInv
<1>1. DaemonInit => Inv
  <2>1. ASSUME DaemonInit
        PROVE  LogInv
    <3>1. path = 0 /\ log = 0 /\ ret = 1 /\ told = FALSE /\ starved = FALSE
      BY <2>1 DEF DaemonInit
    <3>2. 0 \in 0..MaxHangups /\ 0 \in 0..0
      BY DaemonAssumption
    <3> QED BY <3>1, <3>2 DEF LogInv
  <2> QED BY <2>1, InitServerInv, InitSignalInv
<1>2. Inv /\ [DaemonNext]_<<httpVars, mainVars>> => Inv'
  <2>1. SignalInv /\ UNCHANGED <<httpVars, mainVars>> => SignalInv'
    BY DEF SignalInv, HangupsCounted, StopsAsked, StopsOnlyWhenTold, Held, Waits, mainVars
  <2> QED BY <2>1, ServerInvNext, SignalInvNext, LogInvNext
<1>3. Inv => MainTypeOK
  <2> SUFFICES ASSUME Inv PROVE MainTypeOK
    OBVIOUS
  <2>1. reopened \in 0..MaxHangups
    BY DaemonAssumption DEF SignalInv, HangupsCounted, LogInv, Bit
  <2> QED BY <2>1 DEF MainTypeOK, ServerInv, TypeInv, SignalInv, HangupsCounted, LogInv, Ended
<1> HIDE DEF Inv
<1> QED BY <1>1, <1>2, <1>3, PTL DEF DaemonSpec
=============================================================================
