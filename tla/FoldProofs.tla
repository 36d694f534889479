----------------------------- MODULE FoldProofs -----------------------------
(***************************************************************************)
(* What the folds of the community modules compute, for every set and       *)
(* every sequence: sums do not depend on the order in which elements are    *)
(* chosen, and a fold over a sequence takes its last element last.          *)
(***************************************************************************)
EXTENDS Integers, SequencesExt, FiniteSetTheorems, SequenceTheorems, TLAPS

\* Every set of natural numbers has a least element, because the intervals below
\* its members are ordered by inclusion and finite.
LEMMA LeastMember ==
  ASSUME NEW G \in SUBSET Nat, G # {}
  PROVE  \E x \in G : \A y \in G : x <= y
<1> DEFINE Upto(x) == 1 .. x
           U == {Upto(x) : x \in G}
           F == FiniteSubsetsOf(Nat)
           R == StrictSubsetOrdering(Nat)
<1>1. IsWellFoundedOn(R, F)
  BY FS_StrictSubsetOrderingWellFounded
<1>2. U \subseteq F
  <2> SUFFICES ASSUME NEW x \in G PROVE 1 .. x \in F
    OBVIOUS
  <2>1. IsFiniteSet(1 .. x)
    BY FS_Interval
  <2> QED BY <2>1 DEF FiniteSubsetsOf
<1>3. U # {}
  OBVIOUS
<1>4. \E u \in U : \A v \in U : ~ (<<v, u>> \in R)
  <2> HIDE DEF U, F, R
  <2> QED BY <1>1, <1>2, <1>3, WFMin
<1>5. PICK x \in G : \A v \in U : ~ (<<v, Upto(x)>> \in R)
  BY <1>4
<1>6. ASSUME NEW y \in G, y < x PROVE FALSE
  <2>1. ~ (<<Upto(y), Upto(x)>> \in R)
    BY <1>5
  <2>2. /\ Upto(y) \subseteq Upto(x) /\ Upto(x) \in SUBSET Nat
        /\ x \in Upto(x) /\ x \notin Upto(y)
    BY <1>6
  <2> QED BY <2>1, <2>2 DEF StrictSubsetOrdering
<1> QED BY <1>6

\* Induction over a set of numbers: that of those for which a fact holds.
LEMMA Induction ==
  ASSUME NEW G \in SUBSET Nat, 0 \in G, \A n \in G : n + 1 \in G
  PROVE  G = Nat
<1> SUFFICES ASSUME Nat \ G # {} PROVE FALSE
  OBVIOUS
<1>1. PICK x \in Nat \ G : \A y \in Nat \ G : x <= y
  BY LeastMember
<1>2. x # 0 /\ x - 1 \in Nat /\ ~ (x <= x - 1) /\ (x - 1) + 1 = x
  BY <1>1
<1>3. x - 1 \in G
  BY <1>1, <1>2
<1> QED BY <1>1, <1>2, <1>3

----------------------------------------------------------------------------
(* Folds over sequences.                                                   *)

\* Induction over sequences, from the front: a set of them that has the empty one and
\* with each one all that are longer by one has them all.
LEMMA SequenceInduction ==
  ASSUME NEW S, NEW G \in SUBSET Seq(S), << >> \in G,
         \A s \in G, e \in S : Append(s, e) \in G
  PROVE  G = Seq(S)
<1> DEFINE has(n) == \A s \in Seq(S) : Len(s) = n => s \in G
           H == {n \in Nat : has(n)}
<1>1. 0 \in H
  <2>1. \A s \in Seq(S) : Len(s) = 0 => s = << >>
    OBVIOUS
  <2> QED BY <2>1
<1>2. ASSUME NEW n \in H PROVE n + 1 \in H
  <2> SUFFICES ASSUME NEW s \in Seq(S), Len(s) = n + 1 PROVE s \in G
    OBVIOUS
  <2>1. n \in Nat /\ has(n)
    OBVIOUS
  <2>2. PICK r \in Seq(S), e \in S : s = Append(r, e)
    <3>1. s # << >>
      BY <2>1
    <3> QED BY <3>1, SequenceEmptyOrAppend
  <2>3. Len(s) = Len(r) + 1 /\ Len(r) \in Nat
    BY <2>2, AppendProperties
  <2>4. r \in G
    BY <2>1, <2>3
  <2> QED BY <2>2, <2>4
<1>3. H = Nat
  <2> HIDE DEF H
  <2>1. H \in SUBSET Nat
    BY DEF H
  <2> QED BY <1>1, <1>2, <2>1, Induction
<1> SUFFICES ASSUME NEW s \in Seq(S) PROVE s \in G
  OBVIOUS
<1>4. Len(s) \in H
  BY <1>3
<1>5. has(Len(s))
  <2> HIDE DEF has
  <2> QED BY <1>4
<1> QED BY <1>5

\* The greatest number of an interval.
LEMMA MaxUpto ==
  ASSUME NEW n \in Nat, NEW T \in SUBSET (1 .. n + 1)
  PROVE  /\ n + 1 \in T => Max(T) = n + 1
         /\ n + 1 \notin T => T \in SUBSET (1 .. n)
<1>1. ASSUME n + 1 \in T PROVE Max(T) = n + 1
  <2>1. n + 1 \in T /\ \A y \in T : n + 1 >= y
    BY <1>1
  <2>2. ASSUME NEW x \in T, \A y \in T : x >= y PROVE x = n + 1
    BY <2>1, <2>2
  <2> QED BY <2>1, <2>2, Zenon DEF Max
<1>2. ASSUME n + 1 \notin T PROVE T \in SUBSET (1 .. n)
  <2> SUFFICES ASSUME NEW x \in T PROVE x \in 1 .. n
    OBVIOUS
  <2>1. x \in 1 .. n + 1 /\ x # n + 1
    BY <1>2
  <2> QED BY <2>1
<1> QED BY <1>1, <1>2

LEMMA MinIn ==
  ASSUME NEW G \in SUBSET Nat, G # {}
  PROVE  Min(G) \in G /\ \A y \in G : Min(G) <= y
<1>1. \E x \in G : \A y \in G : x <= y
  BY LeastMember
<1> QED BY <1>1, Zenon DEF Min

\* A finite set of numbers has a greatest one.
LEMMA MaxIn ==
  ASSUME NEW n \in Nat, NEW T \in SUBSET (1 .. n), T # {}
  PROVE  Max(T) \in T /\ \A y \in T : Max(T) >= y
<1> DEFINE G == {n - x : x \in T}
<1>1. G \in SUBSET Nat /\ G # {}
  <2>1. ASSUME NEW x \in T PROVE n - x \in Nat
    <3>1. x \in 1 .. n
      OBVIOUS
    <3> QED BY <3>1
  <2> QED BY <2>1
<1>2. PICK g \in G : \A y \in G : g <= y
  <2> HIDE DEF G
  <2> QED BY <1>1, LeastMember
<1>3. PICK x \in T : g = n - x
  OBVIOUS
<1>4. ASSUME NEW y \in T PROVE x >= y
  <2>1. n - x <= n - y
    BY <1>2, <1>3
  <2>2. x \in 1 .. n /\ y \in 1 .. n
    OBVIOUS
  <2> QED BY <2>1, <2>2
<1> QED BY <1>3, <1>4, Zenon DEF Max

\* The last step of a fold is that of the greatest index.
LEMMA Upto ==
  ASSUME NEW n \in Nat
  PROVE  /\ 1 .. n + 1 \in SUBSET (1 .. n + 1) /\ 1 .. n + 1 # {}
         /\ Max(1 .. n + 1) = n + 1 /\ (1 .. n + 1) \ {n + 1} = 1 .. n
<1>1. n + 1 \in 1 .. n + 1 /\ n + 1 \in Nat
  OBVIOUS
<1>2. Max(1 .. n + 1) = n + 1
  BY <1>1, MaxUpto
<1>3. (1 .. n + 1) \ {n + 1} = 1 .. n
  OBVIOUS
<1> QED BY <1>1, <1>2, <1>3

\* The steps of a fold over a sequence of length n.
FoldsOver(f, base, step, n) ==
  \A T \in SUBSET (1 .. n) :
    f[T] = IF T = {} THEN base ELSE step[Max(T)][f[T \ {Max(T)}]]

\* There is a function of the sets of indices that does these steps.
LEMMA FoldExists ==
  ASSUME NEW Acc, NEW base \in Acc, NEW m \in Nat, NEW step \in [1 .. m -> [Acc -> Acc]]
  PROVE  \E f \in [SUBSET (1 .. m) -> Acc] : FoldsOver(f, base, step, m)
<1> DEFINE Has(n) == \E f \in [SUBSET (1 .. n) -> Acc] : FoldsOver(f, base, step, n)
           G == {n \in Nat : n <= m => Has(n)}
<1>1. 0 \in G
  <2> DEFINE f == [T \in SUBSET (1 .. 0) |-> base]
  <2>1. f \in [SUBSET (1 .. 0) -> Acc]
    OBVIOUS
  <2>2. \A T \in SUBSET (1 .. 0) : T = {}
    OBVIOUS
  <2>3. FoldsOver(f, base, step, 0)
    BY <2>2 DEF FoldsOver
  <2> QED BY <2>1, <2>3
<1>2. ASSUME NEW n \in G PROVE n + 1 \in G
  <2> SUFFICES ASSUME n + 1 <= m PROVE Has(n + 1)
    <3>1. n + 1 \in Nat
      OBVIOUS
    <3> HIDE DEF Has
    <3> QED BY <3>1
  <2>0. n \in Nat /\ n <= m /\ n + 1 \in 1 .. m /\ Has(n)
    <3> HIDE DEF Has
    <3> QED OBVIOUS
  <2>1. PICK f \in [SUBSET (1 .. n) -> Acc] : FoldsOver(f, base, step, n)
    BY <2>0
  <2> DEFINE g == [T \in SUBSET (1 .. n + 1) |->
                     IF n + 1 \in T THEN step[n + 1][f[T \ {n + 1}]] ELSE f[T]]
  <2>2. \A T \in SUBSET (1 .. n + 1) : T \ {n + 1} \in SUBSET (1 .. n)
    BY <2>0
  <2>3. \A T \in SUBSET (1 .. n + 1) : n + 1 \notin T => T \in SUBSET (1 .. n)
    BY <2>0
  <2>4. \A T \in SUBSET (1 .. n) : T \in SUBSET (1 .. n + 1) /\ n + 1 \notin T
    BY <2>0
  <2>5. g \in [SUBSET (1 .. n + 1) -> Acc]
    <3> SUFFICES ASSUME NEW T \in SUBSET (1 .. n + 1)
                 PROVE  (IF n + 1 \in T THEN step[n + 1][f[T \ {n + 1}]] ELSE f[T]) \in Acc
      OBVIOUS
    <3>1. step[n + 1] \in [Acc -> Acc]
      BY <2>0
    <3>2. f[T \ {n + 1}] \in Acc
      BY <2>2
    <3>3. n + 1 \notin T => f[T] \in Acc
      BY <2>3
    <3> QED BY <3>1, <3>2, <3>3
  <2>6. \A T \in SUBSET (1 .. n) : g[T] = f[T]
    BY <2>4
  <2>7. ASSUME NEW T \in SUBSET (1 .. n + 1)
        PROVE  g[T] = IF T = {} THEN base ELSE step[Max(T)][g[T \ {Max(T)}]]
    <3>1. CASE n + 1 \in T
      <4>1. Max(T) = n + 1
        BY <2>0, <3>1, MaxUpto
      <4>2. g[T] = step[n + 1][f[T \ {n + 1}]]
        BY <3>1
      <4>3. g[T \ {n + 1}] = f[T \ {n + 1}]
        BY <2>2, <2>6
      <4> HIDE DEF g
      <4> QED BY <3>1, <4>1, <4>2, <4>3
    <3>2. CASE n + 1 \notin T
      <4>1. T \in SUBSET (1 .. n)
        BY <2>3, <3>2
      <4>2. g[T] = f[T] /\ g[T \ {Max(T)}] = f[T \ {Max(T)}]
        <5>1. T \ {Max(T)} \in SUBSET (1 .. n)
          BY <4>1
        <5> HIDE DEF g
        <5> QED BY <2>6, <4>1, <5>1
      <4>3. f[T] = IF T = {} THEN base ELSE step[Max(T)][f[T \ {Max(T)}]]
        BY <2>1, <4>1 DEF FoldsOver
      <4> HIDE DEF g
      <4> QED BY <4>2, <4>3
    <3> QED BY <3>1, <3>2
  <2> HIDE DEF g
  <2>8. FoldsOver(g, base, step, n + 1)
    BY <2>7 DEF FoldsOver
  <2> QED BY <2>5, <2>8
<1>3. G = Nat
  <2> HIDE DEF G
  <2>1. G \in SUBSET Nat
    BY DEF G
  <2> QED BY <1>1, <1>2, <2>1, Induction
<1> QED
  <2>1. m \in G
    BY <1>3
  <2> HIDE DEF Has
  <2>2. Has(m)
    BY <2>1
  <2> QED BY <2>2 DEF Has

\* The values of a function of 0 .. m that is defined by recursion.
Recurs(f, base, step, m) ==
  \A n \in 0 .. m : f[n] = IF n = 0 THEN base ELSE step[n][f[n - 1]]

\* There is such a function.
LEMMA RoundsExist ==
  ASSUME NEW Acc, NEW base \in Acc, NEW m \in Nat, NEW step \in [1 .. m -> [Acc -> Acc]]
  PROVE  \E f \in [0 .. m -> Acc] : Recurs(f, base, step, m)
<1>1. PICK g \in [SUBSET (1 .. m) -> Acc] : FoldsOver(g, base, step, m)
  BY FoldExists
<1> DEFINE f == [n \in 0 .. m |-> g[1 .. n]]
<1>2. \A n \in 0 .. m : 1 .. n \in SUBSET (1 .. m)
  OBVIOUS
<1>3. f \in [0 .. m -> Acc]
  BY <1>2
<1>4. ASSUME NEW n \in 0 .. m
      PROVE  f[n] = IF n = 0 THEN base ELSE step[n][f[n - 1]]
  <2>1. CASE n = 0
    <3>1. 1 .. 0 = {} /\ {} \in SUBSET (1 .. m)
      OBVIOUS
    <3>2. g[{}] = base
      BY <1>1, <3>1 DEF FoldsOver
    <3> QED BY <2>1, <3>1, <3>2
  <2>2. CASE n # 0
    <3>1. PICK k \in Nat : n = k + 1
      <4>1. n - 1 \in Nat
        BY <2>2
      <4> QED BY <4>1
    <3>2. /\ 1 .. n # {} /\ Max(1 .. n) = n /\ (1 .. n) \ {n} = 1 .. n - 1
      <4>1. /\ 1 .. k + 1 # {} /\ Max(1 .. k + 1) = k + 1 /\ (1 .. k + 1) \ {k + 1} = 1 .. k
        BY Upto
      <4>2. n - 1 = k
        BY <3>1
      <4> QED BY <3>1, <4>1, <4>2
    <3>3. g[1 .. n] = step[n][g[1 .. n - 1]]
      BY <1>1, <1>2, <3>2 DEF FoldsOver
    <3>4. f[n] = g[1 .. n] /\ f[n - 1] = g[1 .. n - 1]
      BY <3>1
    <3> HIDE DEF f
    <3> QED BY <2>2, <3>3, <3>4
  <2> QED BY <2>1, <2>2
<1> HIDE DEF f
<1> QED BY <1>3, <1>4 DEF Recurs

----------------------------------------------------------------------------
(* Sums over finite sets.                                                  *)

\* The element that a fold over a set takes next.
Chosen(T) == CHOOSE x \in T : TRUE

\* f has the sums of v over the subsets of S.
IsSum(f, v, S) ==
  \A T \in SUBSET S : f[T] = IF T = {} THEN 0 ELSE v[Chosen(T)] + f[T \ {Chosen(T)}]

\* They are the sums of a finite set.
SetSums(f, v, S) ==
  /\ IsFiniteSet(S) /\ (\A x \in S : v[x] \in Int)
  /\ f \in [SUBSET S -> Int] /\ IsSum(f, v, S)

\* Facts about the finite subsets of a set, one with n elements and one more.
LEMMA OneLess ==
  ASSUME NEW S, IsFiniteSet(S), NEW n \in Nat, NEW T \in SUBSET S, Cardinality(T) = n + 1
  PROVE  /\ T # {} /\ Chosen(T) \in T
         /\ \A x \in T : T \ {x} \in SUBSET S /\ Cardinality(T \ {x}) = n
<1>1. IsFiniteSet(T)
  BY FS_Subset
<1>2. T # {}
  BY FS_EmptySet
<1>3. Chosen(T) \in T
  BY <1>2 DEF Chosen
<1>4. ASSUME NEW x \in T PROVE Cardinality(T \ {x}) = n
  <2>1. Cardinality(T \ {x}) = Cardinality(T) - 1
    BY <1>1, FS_RemoveElement
  <2> QED BY <2>1
<1> QED BY <1>2, <1>3, <1>4

\* There is such a function.
LEMMA SumExists ==
  ASSUME NEW S, IsFiniteSet(S), NEW v, \A x \in S : v[x] \in Int
  PROVE  \E f : SetSums(f, v, S)
<1> DEFINE Upper(n) == {T \in SUBSET S : Cardinality(T) <= n}
           SumsUpto(f, n) == \A T \in Upper(n) :
             f[T] = IF T = {} THEN 0 ELSE v[Chosen(T)] + f[T \ {Chosen(T)}]
           Has(n) == \E f \in [Upper(n) -> Int] : SumsUpto(f, n)
           G == {n \in Nat : Has(n)}
<1>1. \A T \in SUBSET S : /\ IsFiniteSet(T) /\ Cardinality(T) \in Nat
                          /\ Cardinality(T) = 0 <=> T = {}
                          /\ Cardinality(T) <= Cardinality(S)
  BY FS_Subset, FS_CardinalityType, FS_EmptySet
<1>2. 0 \in G
  <2> DEFINE f == [T \in Upper(0) |-> 0]
  <2>1. \A T \in Upper(0) : T = {}
    BY <1>1
  <2>2. f \in [Upper(0) -> Int] /\ SumsUpto(f, 0)
    BY <2>1
  <2> QED BY <2>2
<1>3. ASSUME NEW n \in G PROVE n + 1 \in G
  <2>0. n \in Nat /\ Has(n)
    OBVIOUS
  <2>1. PICK f \in [Upper(n) -> Int] : SumsUpto(f, n)
    BY <2>0
  <2> DEFINE g == [T \in Upper(n + 1) |->
                     IF T = {} THEN 0 ELSE v[Chosen(T)] + f[T \ {Chosen(T)}]]
  <2>2. ASSUME NEW T \in Upper(n + 1), T # {}
        PROVE  Chosen(T) \in T /\ T \ {Chosen(T)} \in Upper(n)
    <3>1. Cardinality(T) \in Nat /\ Cardinality(T) # 0 /\ Cardinality(T) <= n + 1
      BY <1>1, <2>2
    <3>2. PICK m \in Nat : Cardinality(T) = m + 1 /\ m <= n
      <4>1. Cardinality(T) - 1 \in Nat
        BY <3>1
      <4> QED BY <2>0, <3>1, <4>1
    <3> QED BY <3>2, OneLess
  <2>3. g \in [Upper(n + 1) -> Int]
    <3> SUFFICES ASSUME NEW T \in Upper(n + 1), T # {}
                 PROVE  v[Chosen(T)] + f[T \ {Chosen(T)}] \in Int
      OBVIOUS
    <3>1. v[Chosen(T)] \in Int /\ f[T \ {Chosen(T)}] \in Int
      BY <2>2
    <3> QED BY <3>1
  <2>4. ASSUME NEW T \in Upper(n) PROVE T \in Upper(n + 1) /\ g[T] = f[T]
    <3>1. T \in Upper(n + 1)
      BY <1>1, <2>0
    <3>2. f[T] = IF T = {} THEN 0 ELSE v[Chosen(T)] + f[T \ {Chosen(T)}]
      BY <2>1
    <3> HIDE DEF Upper
    <3> QED BY <3>1, <3>2
  <2>5. ASSUME NEW T \in Upper(n + 1), T # {}
        PROVE  g[T] = v[Chosen(T)] + g[T \ {Chosen(T)}]
    <3>1. g[T \ {Chosen(T)}] = f[T \ {Chosen(T)}]
      BY <2>2, <2>4, <2>5
    <3> HIDE DEF Upper
    <3> QED BY <2>5, <3>1
  <2>6. SumsUpto(g, n + 1)
    <3> HIDE DEF Upper
    <3> QED BY <2>5
  <2>7. Has(n + 1)
    <3> HIDE DEF Upper, SumsUpto, g
    <3> QED BY <2>3, <2>6
  <2> HIDE DEF Has
  <2> QED BY <2>0, <2>7
<1>4. G = Nat
  <2> HIDE DEF G
  <2>1. G \in SUBSET Nat
    BY DEF G
  <2> QED BY <1>2, <1>3, <2>1, Induction
<1>5. Has(Cardinality(S))
  <2>1. Cardinality(S) \in G
    BY <1>1, <1>4
  <2> HIDE DEF Has
  <2> QED BY <2>1
<1>6. Upper(Cardinality(S)) = SUBSET S
  BY <1>1
<1>7. PICK f \in [SUBSET S -> Int] : SumsUpto(f, Cardinality(S))
  <2> HIDE DEF SumsUpto, Upper
  <2> QED BY <1>5, <1>6 DEF Has
<1>8. IsSum(f, v, S)
  BY <1>6, <1>7 DEF IsSum
<1> QED BY <1>7, <1>8 DEF SetSums

\* Whichever element is taken out first, the sum is the same.
LEMMA SumRemove ==
  ASSUME NEW S, NEW v, NEW f, SetSums(f, v, S), NEW y \in S
  PROVE  f[S] = v[y] + f[S \ {y}]
<1>0. /\ IsFiniteSet(S) /\ (\A x \in S : v[x] \in Int)
      /\ f \in [SUBSET S -> Int] /\ IsSum(f, v, S)
  BY DEF SetSums
<1> DEFINE Whichever(T) == \A x \in T : f[T] = v[x] + f[T \ {x}]
           Has(n) == \A T \in SUBSET S : Cardinality(T) = n => Whichever(T)
           G == {n \in Nat : Has(n)}
<1>1. \A T \in SUBSET S : Cardinality(T) \in Nat /\ (Cardinality(T) = 0 => T = {})
  BY <1>0, FS_Subset, FS_CardinalityType, FS_EmptySet
<1>2. 0 \in G
  BY <1>1
<1>3. ASSUME NEW n \in G PROVE n + 1 \in G
  <2>0. n \in Nat /\ Has(n)
    OBVIOUS
  <2>1. ASSUME NEW T \in SUBSET S, Cardinality(T) = n + 1, NEW x \in T
        PROVE  f[T] = v[x] + f[T \ {x}]
    <3>1. PICK z \in T : z = Chosen(T) /\ f[T] = v[z] + f[T \ {z}]
      BY <1>0, <2>0, <2>1, OneLess DEF IsSum
    <3>2. CASE x = z
      BY <3>1, <3>2
    <3>3. CASE x # z
      <4>1. PICK A \in SUBSET S : A = T \ {z} /\ Cardinality(A) = n /\ x \in A
        <5>1. T \ {z} \in SUBSET S /\ Cardinality(T \ {z}) = n /\ x \in T \ {z}
          BY <1>0, <2>0, <2>1, <3>3, OneLess
        <5> QED BY <5>1
      <4>2. PICK B \in SUBSET S : B = T \ {x} /\ Cardinality(B) = n /\ z \in B
        <5>1. T \ {x} \in SUBSET S /\ Cardinality(T \ {x}) = n /\ z \in T \ {x}
          BY <1>0, <2>0, <2>1, <3>3, OneLess
        <5> QED BY <5>1
      <4>3. PICK C \in SUBSET S : C = A \ {x} /\ C = B \ {z}
        BY <4>1, <4>2
      <4>4. f[A] = v[x] + f[C]
        <5>1. f[A] = v[x] + f[A \ {x}]
          BY <2>0, <4>1
        <5> QED BY <4>3, <5>1
      <4>5. f[B] = v[z] + f[C]
        <5>1. f[B] = v[z] + f[B \ {z}]
          BY <2>0, <4>2
        <5> QED BY <4>3, <5>1
      <4>6. v[x] \in Int /\ v[z] \in Int /\ f[C] \in Int
        BY <1>0
      <4>7. f[T] = v[z] + f[A]
        BY <3>1, <4>1
      <4>8. f[T] = v[x] + f[B]
        BY <4>4, <4>5, <4>6, <4>7
      <4> QED BY <4>2, <4>8
    <3> QED BY <3>2, <3>3
  <2>2. Has(n + 1)
    BY <2>1
  <2> HIDE DEF Has
  <2> QED BY <2>0, <2>2
<1>4. G = Nat
  <2> HIDE DEF G
  <2>1. G \in SUBSET Nat
    BY DEF G
  <2> QED BY <1>2, <1>3, <2>1, Induction
<1>5. Has(Cardinality(S))
  <2>1. Cardinality(S) \in G
    BY <1>1, <1>4
  <2> HIDE DEF Has
  <2> QED BY <2>1
<1>6. Whichever(S)
  BY <1>5
<1> QED BY <1>6

\* The sum over a set does not depend on the larger set that it is seen in.
LEMMA SumSame ==
  ASSUME NEW S, IsFiniteSet(S), NEW R, NEW v, NEW f, NEW g,
         IsSum(f, v, S), IsSum(g, v, R), S \subseteq R
  PROVE  f[S] = g[S]
<1> DEFINE Has(n) == \A T \in SUBSET S : Cardinality(T) = n => f[T] = g[T]
           G == {n \in Nat : Has(n)}
<1>1. \A T \in SUBSET S : Cardinality(T) \in Nat /\ (Cardinality(T) = 0 => T = {})
  BY FS_Subset, FS_CardinalityType, FS_EmptySet
<1>2. 0 \in G
  <2>1. f[{}] = 0 /\ g[{}] = 0
    BY DEF IsSum
  <2> QED BY <1>1, <2>1
<1>3. ASSUME NEW n \in G PROVE n + 1 \in G
  <2>0. n \in Nat /\ Has(n)
    OBVIOUS
  <2>1. ASSUME NEW T \in SUBSET S, Cardinality(T) = n + 1
        PROVE  f[T] = g[T]
    <3>1. T # {} /\ Cardinality(T \ {Chosen(T)}) = n
      BY <2>0, <2>1, OneLess
    <3>2. f[T] = v[Chosen(T)] + f[T \ {Chosen(T)}] /\ g[T] = v[Chosen(T)] + g[T \ {Chosen(T)}]
      BY <3>1 DEF IsSum
    <3>3. f[T \ {Chosen(T)}] = g[T \ {Chosen(T)}]
      BY <2>0, <3>1
    <3> QED BY <3>2, <3>3
  <2>2. Has(n + 1)
    BY <2>1
  <2> HIDE DEF Has
  <2> QED BY <2>0, <2>2
<1>4. G = Nat
  <2> HIDE DEF G
  <2>1. G \in SUBSET Nat
    BY DEF G
  <2> QED BY <1>2, <1>3, <2>1, Induction
<1>5. Has(Cardinality(S))
  <2>1. Cardinality(S) \in G
    BY <1>1, <1>4
  <2> HIDE DEF Has
  <2> QED BY <2>1
<1> QED BY <1>5

\* A further element adds its value.
LEMMA SumAdd ==
  ASSUME NEW S, NEW x, x \notin S, NEW v, NEW R, R = S \cup {x},
         NEW f, SetSums(f, v, S), NEW g, SetSums(g, v, R)
  PROVE  g[R] = v[x] + f[S]
<1>1. g[R] = v[x] + g[R \ {x}]
  BY SumRemove
<1>2. R \ {x} = S
  OBVIOUS
<1>3. f[S] = g[S]
  BY SumSame DEF SetSums
<1> QED BY <1>1, <1>2, <1>3

----------------------------------------------------------------------------
(* Sequences of sequences, one behind the other.                            *)

\* f has the texts of the prefixes of ss.
IsFlat(f, ss) ==
  f = [i \in 1 .. Len(ss) |-> IF i = 1 THEN ss[i] ELSE f[i - 1] \o ss[i]]

\* The definition of FlattenSeq is a recursive function, which exists.
LEMMA FlattenFold ==
  ASSUME NEW S, NEW ss \in Seq(Seq(S)), Len(ss) # 0
  PROVE  \E f : IsFlat(f, ss) /\ FlattenSeq(ss) = f[Len(ss)] /\ f \in [1 .. Len(ss) -> Seq(S)]
<1> DEFINE m == Len(ss)
           Acc == Seq(S)
           step == [n \in 1 .. m |-> [a \in Acc |-> a \o ss[n]]]
           E == << >>
<1>1. m \in Nat /\ \A n \in 1 .. m : ss[n] \in Acc
  OBVIOUS
<1>2. \A a \in Acc, n \in 1 .. m : a \o ss[n] \in Acc
  BY <1>1, ConcatProperties
<1>3. step \in [1 .. m -> [Acc -> Acc]] /\ E \in Acc
  <2>1. E \in Acc
    BY EmptySeq
  <2> HIDE DEF m, Acc
  <2> QED BY <1>2, <2>1
<1>4. PICK f \in [0 .. m -> Acc] : Recurs(f, E, step, m)
  <2> HIDE DEF step, m, Acc, E
  <2> QED BY <1>1, <1>3, RoundsExist
<1>5. \A n \in 0 .. m : f[n] \in Acc /\ f[n] = IF n = 0 THEN E ELSE step[n][f[n - 1]]
  <2> HIDE DEF step, m, Acc, E
  <2> QED BY <1>4 DEF Recurs
<1>6. ASSUME NEW n \in 1 .. m
      PROVE  f[n] = IF n = 1 THEN ss[n] ELSE f[n - 1] \o ss[n]
  <2>1. n \in 0 .. m /\ n # 0 /\ n - 1 \in 0 .. m
    <3> HIDE DEF m
    <3> QED BY <1>1
  <2>2. f[n] = step[n][f[n - 1]] /\ f[n - 1] \in Acc
    <3> HIDE DEF step, m, Acc, E
    <3> QED BY <1>5, <2>1
  <2>3. f[n] = f[n - 1] \o ss[n]
    <3> HIDE DEF m, Acc, E
    <3> QED BY <2>2
  <2>4. CASE n = 1
    <3>1. 0 \in 0 .. m /\ n - 1 = 0
      <4> HIDE DEF m
      <4> QED BY <1>1, <2>4
    <3>2. f[0] = << >>
      <4> HIDE DEF step, m, Acc
      <4> QED BY <1>5, <3>1
    <3>3. ss[n] \in Seq(S)
      BY <1>1
    <3>4. << >> \o ss[n] = ss[n]
      BY <3>3, ConcatEmptySeq
    <3> QED BY <2>3, <2>4, <3>1, <3>2, <3>4
  <2> QED BY <2>3, <2>4
<1> DEFINE h == [i \in 1 .. m |-> f[i]]
<1>7. IsFlat(h, ss) /\ h \in [1 .. m -> Acc]
  <2>1. \A i \in 1 .. m : i # 1 => i - 1 \in 1 .. m
    <3> HIDE DEF m
    <3> QED BY <1>1
  <2>2. \A i \in 1 .. m : h[i] = IF i = 1 THEN ss[i] ELSE h[i - 1] \o ss[i]
    <3> HIDE DEF m, Acc
    <3> QED BY <1>6, <2>1
  <2>3. h = [i \in 1 .. m |-> IF i = 1 THEN ss[i] ELSE h[i - 1] \o ss[i]]
    <3>1. h = [i \in 1 .. m |-> h[i]]
      OBVIOUS
    <3> HIDE DEF h
    <3> QED BY <2>2, <3>1
  <2>4. \A i \in 1 .. m : i \in 0 .. m
    <3> HIDE DEF m
    <3> QED BY <1>1
  <2>5. h \in [1 .. m -> Acc]
    <3> HIDE DEF m, Acc
    <3> QED BY <1>4, <2>4
  <2> HIDE DEF h
  <2> QED BY <2>3, <2>5 DEF IsFlat
<1> DEFINE g == CHOOSE x : IsFlat(x, ss)
<1>8. IsFlat(g, ss)
  <2> HIDE DEF h
  <2> QED BY <1>7
<1>9. FlattenSeq(ss) = g[Len(ss)]
  BY Zenon DEF FlattenSeq, IsFlat
<1>10. \A i \in 1 .. m : g[i] = IF i = 1 THEN ss[i] ELSE g[i - 1] \o ss[i]
  <2> HIDE DEF g
  <2> QED BY <1>8 DEF IsFlat
<1> DEFINE G == {n \in Nat : n + 1 <= m => g[n + 1] \in Acc}
<1>11. G = Nat
  <2>1. 0 \in G
    <3>1. 1 <= m => 1 \in 1 .. m
      <4> HIDE DEF m
      <4> QED BY <1>1
    <3>2. 1 <= m => g[1] \in Acc
      <4> HIDE DEF g, m, Acc
      <4> QED BY <1>1, <1>10, <3>1
    <3> HIDE DEF g, m, Acc
    <3> QED BY <3>2
  <2>2. ASSUME NEW n \in G PROVE n + 1 \in G
    <3> SUFFICES ASSUME (n + 1) + 1 <= m PROVE g[(n + 1) + 1] \in Acc
      OBVIOUS
    <3> HIDE DEF g, m, Acc
    <3>1. n \in Nat /\ n + 1 <= m /\ (n + 1) + 1 \in 1 .. m /\ (n + 1) + 1 # 1
          /\ ((n + 1) + 1) - 1 = n + 1
      BY <1>1
    <3>2. g[n + 1] \in Acc
      BY <3>1
    <3>3. g[(n + 1) + 1] = g[n + 1] \o ss[(n + 1) + 1]
      BY <1>10, <3>1
    <3> QED BY <1>2, <3>1, <3>2, <3>3
  <2> HIDE DEF G
  <2>3. G \in SUBSET Nat
    BY DEF G
  <2> QED BY <2>1, <2>2, <2>3, Induction
<1>12. g \in [1 .. m -> Acc]
  <2>1. ASSUME NEW i \in 1 .. m PROVE g[i] \in Acc
    <3>1. i - 1 \in Nat /\ (i - 1) + 1 = i /\ i <= m
      <4> HIDE DEF m, g
      <4> QED BY <1>1
    <3>2. i - 1 \in G
      <4> HIDE DEF G
      <4> QED BY <1>11, <3>1
    <3> HIDE DEF g, m, Acc
    <3> QED BY <3>1, <3>2
  <2>2. g = [i \in 1 .. m |-> g[i]]
    <3> HIDE DEF g
    <3> QED BY <1>8 DEF IsFlat
  <2> HIDE DEF g, m, Acc
  <2> QED BY <2>1, <2>2
<1> HIDE DEF g
<1> QED BY <1>8, <1>9, <1>12

\* No sequences in a row.
LEMMA FlattenOfNothing == FlattenSeq(<<>>) = <<>>
BY Zenon, EmptySeq DEF FlattenSeq

\* One sequence more is put behind the others.
LEMMA FlattenOfMore ==
  ASSUME NEW S, NEW ss \in Seq(Seq(S)), NEW s \in Seq(S)
  PROVE  FlattenSeq(Append(ss, s)) = FlattenSeq(ss) \o s
<1> DEFINE us == Append(ss, s)
           m == Len(ss)
<1>1. /\ us \in Seq(Seq(S)) /\ Len(us) = m + 1 /\ m \in Nat /\ Len(us) # 0
      /\ us[m + 1] = s /\ \A i \in 1 .. m : us[i] = ss[i]
  OBVIOUS
<1> HIDE DEF us
<1>2. PICK g : IsFlat(g, us) /\ FlattenSeq(us) = g[Len(us)]
  BY <1>1, FlattenFold
<1>3. CASE m = 0
  <2>1. ss = << >> /\ us[1] = s /\ Len(us) = 1
    BY <1>1, <1>3
  <2>2. g[1] = s
    BY <1>2, <2>1 DEF IsFlat
  <2>3. FlattenSeq(ss) = << >>
    BY <2>1, FlattenOfNothing
  <2>4. << >> \o s = s
    BY ConcatEmptySeq
  <2>5. FlattenSeq(us) = s
    BY <1>2, <2>1, <2>2
  <2> QED BY <2>3, <2>4, <2>5 DEF us
<1>4. CASE m # 0
  <2>1. PICK f : IsFlat(f, ss) /\ FlattenSeq(ss) = f[m]
    BY <1>4, FlattenFold
  <2>2. \A i \in 1 .. m : f[i] = IF i = 1 THEN ss[i] ELSE f[i - 1] \o ss[i]
    BY <2>1 DEF IsFlat
  <2>3. \A i \in 1 .. m + 1 : g[i] = IF i = 1 THEN us[i] ELSE g[i - 1] \o us[i]
    BY <1>1, <1>2 DEF IsFlat
  <2> HIDE DEF m
  <2> DEFINE G == {n \in Nat : n + 1 <= m => f[n + 1] = g[n + 1]}
  <2>4. 0 \in G
    <3>1. 1 \in 1 .. m /\ 1 \in 1 .. m + 1
      BY <1>1, <1>4
    <3>2. f[1] = g[1]
      BY <1>1, <2>2, <2>3, <3>1
    <3> QED BY <3>2
  <2>5. ASSUME NEW n \in G PROVE n + 1 \in G
    <3> SUFFICES ASSUME (n + 1) + 1 <= m PROVE f[(n + 1) + 1] = g[(n + 1) + 1]
      OBVIOUS
    <3>1. /\ n \in Nat /\ n + 1 <= m /\ (n + 1) + 1 \in 1 .. m /\ (n + 1) + 1 \in 1 .. m + 1
          /\ (n + 1) + 1 # 1 /\ ((n + 1) + 1) - 1 = n + 1
      BY <1>1
    <3>2. f[n + 1] = g[n + 1] /\ us[(n + 1) + 1] = ss[(n + 1) + 1]
      BY <1>1, <3>1
    <3>3. f[(n + 1) + 1] = f[n + 1] \o ss[(n + 1) + 1]
      BY <2>2, <3>1
    <3>4. g[(n + 1) + 1] = g[n + 1] \o us[(n + 1) + 1]
      BY <2>3, <3>1
    <3> QED BY <3>2, <3>3, <3>4
  <2>6. G = Nat
    <3> HIDE DEF G
    <3>1. G \in SUBSET Nat
      BY DEF G
    <3> QED BY <2>4, <2>5, <3>1, Induction
  <2>7. m - 1 \in G
    <3> HIDE DEF G
    <3> QED BY <1>1, <1>4, <2>6
  <2>8. f[m] = g[m]
    BY <1>1, <2>7
  <2>9. g[m + 1] = g[m] \o s
    <3>1. m + 1 \in 1 .. m + 1 /\ m + 1 # 1 /\ (m + 1) - 1 = m
      BY <1>1, <1>4
    <3> QED BY <1>1, <2>3, <3>1
  <2> QED BY <1>1, <1>2, <2>1, <2>8, <2>9 DEF us
<1> QED BY <1>3, <1>4

\* What is put in a row has the elements of its parts.
LEMMA FlattenType ==
  ASSUME NEW S, NEW ss \in Seq(Seq(S))
  PROVE  FlattenSeq(ss) \in Seq(S)
<1>1. CASE Len(ss) = 0
  <2>1. ss = << >> /\ << >> \in Seq(S)
    BY <1>1
  <2> QED BY <2>1, FlattenOfNothing
<1>2. CASE Len(ss) # 0
  <2>1. PICK f : FlattenSeq(ss) = f[Len(ss)] /\ f \in [1 .. Len(ss) -> Seq(S)]
    BY <1>2, FlattenFold
  <2>2. Len(ss) \in 1 .. Len(ss)
    BY <1>2
  <2> QED BY <2>1, <2>2
<1> QED BY <1>1, <1>2

\* A sequence in front of others.
LEMMA FlattenOfFirst ==
  ASSUME NEW S, NEW ss \in Seq(Seq(S)), NEW s \in Seq(S)
  PROVE  FlattenSeq(<<s>> \o ss) = s \o FlattenSeq(ss)
<1> DEFINE G == {us \in Seq(Seq(S)) : FlattenSeq(<<s>> \o us) = s \o FlattenSeq(us)}
           one == <<s>>
<1>0. one \in Seq(Seq(S)) /\ one = Append(<< >>, s) /\ << >> \in Seq(Seq(S))
  OBVIOUS
<1>1. << >> \in G
  <2>1. one \o << >> = one /\ s \o << >> = s /\ << >> \o s = s
    <3> HIDE DEF one
    <3> QED BY <1>0, ConcatEmptySeq
  <2>2. FlattenSeq(one) = FlattenSeq(<< >>) \o s
    <3> HIDE DEF one
    <3> QED BY <1>0, FlattenOfMore
  <2> QED BY <1>0, <2>1, <2>2, FlattenOfNothing
<1>2. ASSUME NEW us \in G, NEW e \in Seq(S) PROVE Append(us, e) \in G
  <2>1. us \in Seq(Seq(S)) /\ FlattenSeq(one \o us) = s \o FlattenSeq(us)
    OBVIOUS
  <2> HIDE DEF one
  <2>2. /\ Append(us, e) \in Seq(Seq(S)) /\ one \o us \in Seq(Seq(S))
        /\ one \o Append(us, e) = Append(one \o us, e)
    BY <1>0, <2>1
  <2>3. FlattenSeq(us) \in Seq(S)
    BY <2>1, FlattenType
  <2>4. FlattenSeq(Append(one \o us, e)) = FlattenSeq(one \o us) \o e
    BY <2>2, FlattenOfMore
  <2>5. FlattenSeq(Append(us, e)) = FlattenSeq(us) \o e
    BY <2>1, FlattenOfMore
  <2>6. (s \o FlattenSeq(us)) \o e = s \o (FlattenSeq(us) \o e)
    BY <2>3, ConcatAssociative
  <2> QED BY <2>1, <2>2, <2>4, <2>5, <2>6 DEF one
<1>3. G = Seq(Seq(S))
  <2> HIDE DEF G
  <2>1. G \in SUBSET Seq(Seq(S))
    BY DEF G
  <2> QED BY <1>1, <1>2, <2>1, SequenceInduction
<1> QED BY <1>3

=============================================================================
