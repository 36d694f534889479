---------------------------- MODULE RoutesProofs ----------------------------
(***************************************************************************)
(* Proofs about modules Tokeniser, Routes and MCRoutes: the loop that pops a *)
(* tokeniser sees the parts of any text in order, and the router serves what *)
(* is documented, and tells what is there, whatever URI a client writes of   *)
(* parts of its choice.                                                     *)
(***************************************************************************)
EXTENDS MCRoutes, FoldProofs

----------------------------------------------------------------------------
(* The tokeniser.                                                          *)

\* std::find finds the first delimiter from a position on, or the end.
LEMMA FindFirst ==
  ASSUME NEW S, NEW b \in Seq(S), NEW delim, NEW from \in 1 .. Len(b) + 1
  PROVE  /\ Find(b, delim, from) \in from .. Len(b) + 1
         /\ Find(b, delim, from) <= Len(b) => b[Find(b, delim, from)] = delim
         /\ \A k \in from .. Find(b, delim, from) - 1 : b[k] # delim
<1> DEFINE G == {k \in from .. Len(b) : b[k] = delim} \cup {Len(b) + 1}
<1>1. G \in SUBSET Nat /\ G # {}
  OBVIOUS
<1>2. Find(b, delim, from) \in G /\ \A y \in G : Find(b, delim, from) <= y
  <2>1. Min(G) \in G /\ \A y \in G : Min(G) <= y
    <3> HIDE DEF G
    <3> QED BY <1>1, MinIn
  <2> QED BY <2>1 DEF Find
<1> QED BY <1>2

\* Where the tokeniser can be, and what it can have seen.
Positions(b) == [i : 1 .. Len(b) + 1, j : 1 .. Len(b) + 1]
Tops(S) == Seq(Seq(S))

\* A round of the loop.
Round(b, delim, l) ==
  IF Empty(b, l.pos) THEN l
  ELSE [pos |-> Pop(b, delim, l.pos), tops |-> Append(l.tops, Top(b, l.pos))]

\* The loop before its first round.
First(b, delim) == [pos |-> Reset(b, delim), tops |-> <<>>]

\* It begins at a position of the text.
LEMMA FirstType ==
  ASSUME NEW S, NEW b \in Seq(S), NEW delim
  PROVE  First(b, delim) \in [pos : Positions(b), tops : Tops(S)]
<1>1. Reset(b, delim) \in Positions(b)
  <2>1. 1 \in 1 .. Len(b) + 1
    OBVIOUS
  <2> QED BY <2>1, FindFirst DEF Reset, Positions
<1> QED BY <1>1 DEF First, Tops

\* A round stays within the text, and every top is a text.
LEMMA RoundTypes ==
  ASSUME NEW S, NEW b \in Seq(S), NEW delim, NEW l \in [pos : Positions(b), tops : Tops(S)]
  PROVE  Round(b, delim, l) \in [pos : Positions(b), tops : Tops(S)]
<1>0. l.pos.i \in 1 .. Len(b) + 1 /\ l.pos.j \in 1 .. Len(b) + 1 /\ Len(b) \in Nat
  BY DEF Positions
<1>1. Pop(b, delim, l.pos) \in Positions(b)
  <2>1. CASE l.pos.j # Len(b) + 1
    <3>1. l.pos.j + 1 \in 1 .. Len(b) + 1
      BY <1>0, <2>1
    <3>2. Find(b, delim, l.pos.j + 1) \in 1 .. Len(b) + 1
      BY <1>0, <3>1, FindFirst
    <3> QED BY <2>1, <3>1, <3>2 DEF Pop, Positions
  <2>2. CASE l.pos.j = Len(b) + 1
    BY <1>0, <2>2 DEF Pop, Positions
  <2> QED BY <2>1, <2>2
<1>2. Top(b, l.pos) \in Seq(S)
  <2>1. ASSUME NEW i \in 1 .. Len(b) + 1, NEW j \in 1 .. Len(b) + 1
        PROVE  SubSeq(b, i, j - 1) \in Seq(S)
    BY <1>0
  <2> QED BY <1>0, <2>1 DEF Top
<1>3. Append(l.tops, Top(b, l.pos)) \in Tops(S)
  BY <1>2 DEF Tops
<1> QED BY <1>1, <1>3 DEF Round

\* The loop as a function of the number of rounds.
IsLoop(f, b, delim) ==
  f = [n \in 0 .. Len(b) |-> IF n = 0 THEN First(b, delim) ELSE Round(b, delim, f[n - 1])]

\* There is such a function, and it does these rounds.
LEMMA LoopRounds ==
  ASSUME NEW S, NEW b \in Seq(S), NEW delim
  PROVE  \E f : /\ f[0] = First(b, delim)
                /\ \A n \in 1 .. Len(b) : f[n] = Round(b, delim, f[n - 1])
                /\ Loop(b, delim) = f[Len(b)]
<1> DEFINE Acc == [pos : Positions(b), tops : Tops(S)]
           m == Len(b)
           base == First(b, delim)
           step == [n \in 1 .. m |-> [l \in Acc |-> Round(b, delim, l)]]
<1>1. m \in Nat /\ step \in [1 .. m -> [Acc -> Acc]]
  BY RoundTypes
<1>2. base \in Acc
  BY FirstType
<1>3. PICK f \in [0 .. m -> Acc] : Recurs(f, base, step, m)
  <2> HIDE DEF Acc, m, step, base
  <2> QED BY <1>1, <1>2, RoundsExist
<1>4. ASSUME NEW n \in 0 .. m
      PROVE  f[n] = IF n = 0 THEN First(b, delim) ELSE Round(b, delim, f[n - 1])
  <2>1. CASE n = 0
    <3> HIDE DEF step
    <3> QED BY <1>3, <2>1 DEF Recurs
  <2>2. CASE n # 0
    <3>1. n \in 1 .. m /\ n - 1 \in 0 .. m
      <4> HIDE DEF m
      <4> QED BY <1>1, <2>2
    <3>2. f[n - 1] \in Acc
      BY <3>1
    <3>3. step[n] = [l \in Acc |-> Round(b, delim, l)]
      <4> HIDE DEF Acc, m
      <4> QED BY <3>1
    <3>4. f[n] = step[n][f[n - 1]]
      <4> HIDE DEF step, m, base, Acc
      <4> QED BY <1>3, <2>2 DEF Recurs
    <3> HIDE DEF Acc, step
    <3> QED BY <2>2, <3>2, <3>3, <3>4
  <2> QED BY <2>1, <2>2
<1>5. IsLoop(f, b, delim)
  <2> HIDE DEF Acc
  <2> QED BY <1>4 DEF IsLoop
<1> DEFINE g == CHOOSE h : IsLoop(h, b, delim)
<1>6. IsLoop(g, b, delim)
  <2>1. \E h : IsLoop(h, b, delim)
    BY <1>5
  <2> QED BY <2>1
<1>7. Loop(b, delim) = g[Len(b)]
  BY Zenon DEF Loop, IsLoop, First, Round
<1> HIDE DEF g
<1>8. g[0] = First(b, delim)
  <2>1. 0 \in 0 .. Len(b)
    BY <1>1
  <2> QED BY <1>6, <2>1 DEF IsLoop
<1>9. ASSUME NEW n \in 1 .. Len(b) PROVE g[n] = Round(b, delim, g[n - 1])
  <2>1. n \in 0 .. Len(b) /\ n # 0
    BY <1>1
  <2> QED BY <1>6, <2>1 DEF IsLoop
<1> QED BY <1>7, <1>8, <1>9

----------------------------------------------------------------------------
\* How many delimiters there are before a position.
Before(b, delim, k) == Cardinality({d \in Delims(b, delim) : d < k})

\* The count is a number and does not fall.
LEMMA BeforeIsMonotonic ==
  ASSUME NEW S, NEW b \in Seq(S), NEW delim
  PROVE  /\ \A k \in Int : Before(b, delim, k) \in Nat
         /\ \A k \in Int, l \in Int : k <= l => Before(b, delim, k) <= Before(b, delim, l)
<1> DEFINE D == Delims(b, delim)
<1>1. Len(b) \in Nat /\ D \in SUBSET (1 .. Len(b)) /\ \A d \in D : d \in Int /\ 1 <= d /\ d <= Len(b)
  BY DEF Delims
<1>2. IsFiniteSet(D)
  <2>1. IsFiniteSet(1 .. Len(b))
    BY <1>1, FS_Interval
  <2> HIDE DEF D
  <2> QED BY <1>1, <2>1, FS_Subset
<1>3. \A k \in Int : IsFiniteSet({d \in D : d < k})
  <2>1. \A k \in Int : {d \in D : d < k} \subseteq D
    OBVIOUS
  <2> HIDE DEF D
  <2> QED BY <1>2, <2>1, FS_Subset
<1>4. \A k \in Int : Before(b, delim, k) \in Nat
  BY <1>3, FS_CardinalityType DEF Before
<1>5. ASSUME NEW k \in Int, NEW l \in Int, k <= l
      PROVE  Before(b, delim, k) <= Before(b, delim, l)
  <2>1. {d \in D : d < k} \subseteq {d \in D : d < l}
    <3>1. \A d \in D : d < k => d < l
      BY <1>1, <1>5
    <3> HIDE DEF D
    <3> QED BY <3>1
  <2> QED BY <1>3, <2>1, FS_Subset DEF Before
<1> QED BY <1>4, <1>5

\* A delimiter counts from the next position on.
LEMMA BeforeSteps ==
  ASSUME NEW S, NEW b \in Seq(S), NEW delim
  PROVE  /\ Before(b, delim, 1) = 0
         /\ Before(b, delim, Len(b) + 1) = Cardinality(Delims(b, delim))
         /\ \A k \in Delims(b, delim) : Before(b, delim, k + 1) = Before(b, delim, k) + 1
         /\ \A i \in 1 .. Len(b) + 1, j \in 1 .. Len(b) + 1 :
              i <= j /\ (\A k \in i .. j - 1 : b[k] # delim)
                => Before(b, delim, j) = Before(b, delim, i)
<1> DEFINE D == Delims(b, delim)
<1>1. Len(b) \in Nat /\ D \in SUBSET (1 .. Len(b)) /\ \A d \in D : d \in Int /\ 1 <= d /\ d <= Len(b)
  BY DEF Delims
<1>2. IsFiniteSet(D)
  <2>1. IsFiniteSet(1 .. Len(b))
    BY <1>1, FS_Interval
  <2> HIDE DEF D
  <2> QED BY <1>1, <2>1, FS_Subset
<1>3. Before(b, delim, 1) = 0
  <2>1. {d \in D : d < 1} = {}
    <3>1. \A d \in D : ~ (d < 1)
      BY <1>1
    <3> HIDE DEF D
    <3> QED BY <3>1
  <2> QED BY <2>1, FS_EmptySet DEF Before
<1>4. Before(b, delim, Len(b) + 1) = Cardinality(D)
  <2>1. {d \in D : d < Len(b) + 1} = D
    <3>1. \A d \in D : d < Len(b) + 1
      BY <1>1
    <3> HIDE DEF D
    <3> QED BY <3>1
  <2> QED BY <2>1 DEF Before
<1>5. ASSUME NEW k \in D PROVE Before(b, delim, k + 1) = Before(b, delim, k) + 1
  <2>0. k \in Int /\ \A d \in D : d < k + 1 <=> d < k \/ d = k
    BY <1>1
  <2> HIDE DEF D
  <2>1. {d \in D : d < k + 1} = {d \in D : d < k} \cup {k}
    BY <2>0
  <2>2. k \notin {d \in D : d < k}
    BY <2>0
  <2>3. IsFiniteSet({d \in D : d < k})
    <3>1. {d \in D : d < k} \subseteq D
      OBVIOUS
    <3> QED BY <1>2, <3>1, FS_Subset
  <2>4. Cardinality({d \in D : d < k} \cup {k}) = Cardinality({d \in D : d < k}) + 1
    BY <2>2, <2>3, FS_AddElement
  <2> QED BY <2>1, <2>4 DEF Before, D
<1>6. ASSUME NEW i \in 1 .. Len(b) + 1, NEW j \in 1 .. Len(b) + 1,
             i <= j, \A k \in i .. j - 1 : b[k] # delim
      PROVE  Before(b, delim, j) = Before(b, delim, i)
  <2>1. {d \in D : d < j} = {d \in D : d < i}
    <3>1. ASSUME NEW d \in D PROVE d < j <=> d < i
      <4>1. b[d] = delim /\ d \in Int /\ i \in Int /\ j \in Int
        BY <1>1 DEF Delims
      <4>2. d \notin i .. j - 1
        BY <1>6, <4>1
      <4> HIDE DEF D
      <4> QED BY <1>6, <4>1, <4>2
    <3> HIDE DEF D
    <3> QED BY <3>1
  <2> QED BY <2>1 DEF Before
<1> QED BY <1>3, <1>4, <1>5, <1>6

\* Two delimiters, or an end of the text and one, with none between them, hold the
\* part of that number.
LEMMA PartBetween ==
  ASSUME NEW S, NEW b \in Seq(S), NEW delim,
         NEW i \in 1 .. Len(b) + 1, NEW j \in i .. Len(b) + 1,
         i = 1 \/ b[i - 1] = delim, j = Len(b) + 1 \/ b[j] = delim,
         \A k \in i .. j - 1 : b[k] # delim
  PROVE  Part(b, delim, Before(b, delim, i) + 1) = SubSeq(b, i, j - 1)
<1> DEFINE D == Delims(b, delim)
           at == {k \in 1 .. Len(b) : b[k] # delim /\ Before(b, delim, k) = Before(b, delim, i)}
           B(k) == Before(b, delim, k)
<1>1. Len(b) \in Nat /\ i \in Int /\ j \in Int /\ j \in 1 .. Len(b) + 1 /\ i <= j
  OBVIOUS
<1>2. \A k \in 1 .. Len(b) : k \in D <=> b[k] = delim
  BY DEF Delims
<1>3. /\ \A k \in Int : B(k) \in Int
      /\ \A k \in Int, l \in Int : k <= l => B(k) <= B(l)
      /\ \A k \in D : B(k + 1) = B(k) + 1
  BY BeforeIsMonotonic, BeforeSteps
<1>4. B(j) = B(i)
  BY <1>1, BeforeSteps
<1>5. \A k \in i .. j - 1 : B(k) = B(i)
  <2> HIDE DEF B
  <2> QED BY <1>1, <1>3, <1>4
<1>6. ASSUME NEW k \in 1 .. Len(b), k < i, b[k] # delim PROVE B(k) < B(i)
  <2>1. i # 1 /\ b[i - 1] = delim /\ i - 1 \in 1 .. Len(b)
    BY <1>1, <1>6
  <2>2. B((i - 1) + 1) = B(i - 1) + 1 /\ k <= i - 1
    <3>1. i - 1 \in D
      BY <1>2, <2>1
    <3>2. B((i - 1) + 1) = B(i - 1) + 1
      <4> HIDE DEF B, D
      <4> QED BY <1>3, <3>1
    <3>3. k <= i - 1
      BY <1>1, <1>6
    <3> HIDE DEF B
    <3> QED BY <3>2, <3>3
  <2>3. (i - 1) + 1 = i
    BY <1>1
  <2> HIDE DEF B
  <2> QED BY <1>1, <1>3, <2>2, <2>3
<1>7. ASSUME NEW k \in 1 .. Len(b), k >= j, b[k] # delim PROVE B(i) < B(k)
  <2>1. j \in 1 .. Len(b) /\ b[j] = delim /\ k # j
    BY <1>1, <1>7
  <2>2. B(j + 1) = B(j) + 1 /\ j + 1 <= k
    <3>1. j \in D
      BY <1>2, <2>1
    <3>2. B(j + 1) = B(j) + 1
      <4> HIDE DEF B, D
      <4> QED BY <1>3, <3>1
    <3>3. j + 1 <= k
      BY <1>1, <1>7, <2>1
    <3> HIDE DEF B
    <3> QED BY <3>2, <3>3
  <2> HIDE DEF B
  <2> QED BY <1>1, <1>3, <1>4, <2>2
<1>8. at = i .. j - 1
  <2>1. ASSUME NEW k \in at PROVE k \in i .. j - 1
    <3>1. k \in 1 .. Len(b) /\ b[k] # delim /\ B(k) = B(i) /\ B(k) \in Int
      BY <1>3
    <3>2. ~ (k < i) /\ ~ (k >= j)
      <4>1. i \in Int /\ B(i) \in Int
        BY <1>1, <1>3
      <4>2. k < i => B(k) < B(i)
        <5> HIDE DEF B, at
        <5> QED BY <1>6, <3>1
      <4>3. k >= j => B(i) < B(k)
        <5> HIDE DEF B, at
        <5> QED BY <1>7, <3>1
      <4> HIDE DEF B, at
      <4> QED BY <3>1, <4>1, <4>2, <4>3
    <3> QED BY <1>1, <3>1, <3>2
  <2>2. ASSUME NEW k \in i .. j - 1 PROVE k \in at
    <3>1. k \in 1 .. Len(b) /\ b[k] # delim
      BY <1>1
    <3> QED BY <1>5, <3>1
  <2> HIDE DEF at
  <2> QED BY <2>1, <2>2
<1>9. Part(b, delim, B(i) + 1) = IF at = {} THEN <<>> ELSE SubSeq(b, Min(at), Max(at))
  <2>1. (B(i) + 1) - 1 = B(i)
    BY <1>1, <1>3
  <2> QED BY <2>1 DEF Part, Before
<1> HIDE DEF at, B
<1>10. CASE i = j
  <2>1. at = {} /\ SubSeq(b, i, j - 1) = <<>>
    BY <1>1, <1>8, <1>10
  <2> QED BY <1>9, <2>1 DEF B
<1>11. CASE i # j
  <2>1. i \in at /\ j - 1 \in at /\ at # {} /\ at \in SUBSET (1 .. Len(b)) /\ at \in SUBSET Nat
    <3>1. i \in i .. j - 1 /\ j - 1 \in i .. j - 1
      BY <1>1, <1>11
    <3>2. \A k \in i .. j - 1 : k \in 1 .. Len(b) /\ k \in Nat
      BY <1>1
    <3>3. i .. j - 1 \in SUBSET (1 .. Len(b)) /\ i .. j - 1 \in SUBSET Nat
      BY <3>2
    <3> QED BY <1>8, <3>1, <3>3
  <2>2. Min(at) = i
    <3>1. Min(at) \in at /\ \A y \in at : Min(at) <= y
      BY <2>1, MinIn
    <3> QED BY <1>1, <1>8, <2>1, <3>1
  <2>3. Max(at) = j - 1
    <3>1. Max(at) \in at /\ \A y \in at : Max(at) >= y
      BY <1>1, <2>1, MaxIn
    <3> QED BY <1>1, <1>8, <2>1, <3>1
  <2> QED BY <1>9, <2>1, <2>2, <2>3 DEF B
<1> QED BY <1>10, <1>11

\* Where the loop is after n rounds: at a part that a delimiter or the front opens,
\* with the parts before it taken, or at the end with all of them.
Taken(b, delim, l) == \A q \in 1 .. Len(l.tops) : l.tops[q] = Part(b, delim, q)

AtPart(b, delim, l) ==
  /\ l.pos.i \in 1 .. Len(b)
  /\ l.pos.j = Find(b, delim, l.pos.i)
  /\ l.pos.i = 1 \/ b[l.pos.i - 1] = delim
  /\ Len(l.tops) = Before(b, delim, l.pos.i)

AtEnd(b, delim, l) == Empty(b, l.pos) /\ Len(l.tops) = PartCount(b, delim)

Progress(b, delim, l, n) ==
  /\ Taken(b, delim, l)
  /\ \/ AtEnd(b, delim, l)
     \/ AtPart(b, delim, l) /\ l.pos.i >= n + 1

\* It begins at the first part, or at the end of no text.
LEMMA FirstProgress ==
  ASSUME NEW S, NEW b \in Seq(S), NEW delim
  PROVE  Progress(b, delim, First(b, delim), 0)
<1> DEFINE l == First(b, delim)
<1>1. l.tops = <<>> /\ l.pos.i = 1 /\ l.pos.j = Find(b, delim, 1)
  BY DEF First, Reset
<1> SUFFICES Progress(b, delim, l, 0)
  OBVIOUS
<1> HIDE DEF l
<1>2. Taken(b, delim, l)
  BY <1>1 DEF Taken
<1>3. CASE b = <<>>
  <2>1. Delims(b, delim) = {} /\ Len(b) = 0
    BY <1>3 DEF Delims
  <2>2. PartCount(b, delim) = 0
    BY <1>3, <2>1, FS_EmptySet DEF PartCount
  <2> QED BY <1>1, <1>2, <2>1, <2>2 DEF Progress, AtEnd, Empty
<1>4. CASE b # <<>>
  <2>1. 1 \in 1 .. Len(b) /\ Before(b, delim, 1) = 0
    BY <1>4, EmptySeq, BeforeSteps
  <2> QED BY <1>1, <1>2, <2>1 DEF Progress, AtPart
<1> QED BY <1>3, <1>4

\* A round takes the part that it is at and moves on by a character at least.
LEMMA RoundProgress ==
  ASSUME NEW S, NEW b \in Seq(S), NEW delim, NEW n \in Nat,
         NEW l \in [pos : Positions(b), tops : Tops(S)], Progress(b, delim, l, n)
  PROVE  Progress(b, delim, Round(b, delim, l), n + 1)
<1>1. CASE AtEnd(b, delim, l)
  <2>1. Round(b, delim, l) = l
    BY <1>1 DEF AtEnd, Round
  <2>2. Taken(b, delim, l)
    BY DEF Progress
  <2> QED BY <1>1, <2>1, <2>2, Zenon DEF Progress
<1>2. CASE ~ AtEnd(b, delim, l)
  <2> DEFINE i == l.pos.i
             j == l.pos.j
             r == Round(b, delim, l)
             t == Len(l.tops)
  <2> SUFFICES Progress(b, delim, r, n + 1)
    OBVIOUS
  <2>1. /\ Taken(b, delim, l) /\ i \in 1 .. Len(b) /\ j = Find(b, delim, i)
        /\ i = 1 \/ b[i - 1] = delim
        /\ t = Before(b, delim, i) /\ i >= n + 1
    BY <1>2 DEF Progress, AtPart
  <2>2. Len(b) \in Nat /\ l.tops \in Seq(Seq(S)) /\ t \in Nat
    BY DEF Tops
  <2>3. /\ j \in i .. Len(b) + 1 /\ (j <= Len(b) => b[j] = delim)
        /\ \A k \in i .. j - 1 : b[k] # delim
    <3>1. i \in 1 .. Len(b) + 1
      BY <2>1, <2>2
    <3> HIDE DEF i, j
    <3> QED BY <2>1, <3>1, FindFirst
  <2>4. ~ Empty(b, l.pos)
    BY <2>1, <2>2 DEF Empty
  <2>5. r.pos = Pop(b, delim, l.pos) /\ r.tops = Append(l.tops, Top(b, l.pos))
    BY <2>4 DEF Round
  <2>6. Top(b, l.pos) \in Seq(S) /\ Top(b, l.pos) = SubSeq(b, i, j - 1)
    <3>1. \A k \in i .. j - 1 : b[k] \in S
      BY <2>1, <2>2, <2>3
    <3>2. SubSeq(b, i, j - 1) \in Seq(S)
      <4>1. i \in Int /\ j - 1 \in Int
        BY <2>1, <2>3
      <4> HIDE DEF i, j
      <4> QED BY <3>1, <4>1, SubSeqProperties
    <3> QED BY <3>2 DEF Top
  <2>7. Top(b, l.pos) = Part(b, delim, t + 1)
    <3>1. i \in 1 .. Len(b) + 1 /\ (j = Len(b) + 1 \/ b[j] = delim)
      BY <2>1, <2>2, <2>3
    <3>2. Part(b, delim, Before(b, delim, i) + 1) = SubSeq(b, i, j - 1)
      <4> HIDE DEF i, j
      <4> QED BY <2>1, <2>3, <3>1, PartBetween
    <3> QED BY <2>1, <2>6, <3>2
  <2>8. Len(r.tops) = t + 1
    BY <2>2, <2>5, <2>6, AppendProperties
  <2>9. Taken(b, delim, r)
    <3> SUFFICES ASSUME NEW q \in 1 .. t + 1 PROVE r.tops[q] = Part(b, delim, q)
      BY <2>8 DEF Taken
    <3>1. CASE q = t + 1
      <4>1. Append(l.tops, Top(b, l.pos))[Len(l.tops) + 1] = Top(b, l.pos)
        <5> DEFINE s == l.tops
                   e == Top(b, l.pos)
        <5> HIDE DEF s, e
        <5>1. s \in Seq(Seq(S)) /\ e \in Seq(S)
          BY <2>2, <2>6 DEF s, e
        <5>2. Append(s, e)[Len(s) + 1] = e
          BY <5>1
        <5> QED BY <5>2 DEF s, e
      <4> HIDE DEF r
      <4> QED BY <2>5, <2>7, <3>1, <4>1
    <3>2. CASE q # t + 1
      <4>1. q \in 1 .. Len(l.tops)
        BY <2>2, <3>2
      <4>2. Append(l.tops, Top(b, l.pos))[q] = l.tops[q]
        BY <2>2, <2>6, <4>1, AppendProperties
      <4> HIDE DEF t, r
      <4> QED BY <2>1, <2>5, <4>1, <4>2 DEF Taken
    <3> QED BY <3>1, <3>2
  <2>10. CASE j = Len(b) + 1
    <3>1. Empty(b, r.pos)
      <4>1. Pop(b, delim, l.pos).i = j
        BY <2>10 DEF Pop, Positions
      <4> QED BY <2>5, <2>10, <4>1 DEF Empty
    <3>2. Cardinality(Delims(b, delim)) = t
      <4>1. i \in 1 .. Len(b) + 1 /\ j \in 1 .. Len(b) + 1 /\ i <= j
        BY <2>1, <2>2, <2>10
      <4>2. Before(b, delim, j) = Before(b, delim, i)
        <5> HIDE DEF i, j
        <5> QED BY <2>3, <4>1, BeforeSteps
      <4>3. Before(b, delim, Len(b) + 1) = Cardinality(Delims(b, delim))
        BY BeforeSteps
      <4> QED BY <2>1, <2>10, <4>2, <4>3
    <3>3. b # <<>> /\ Len(b) \notin Delims(b, delim)
      <4>1. Len(b) \in i .. j - 1 /\ Len(b) # 0
        BY <2>1, <2>2, <2>10
      <4>2. b[Len(b)] # delim
        <5> HIDE DEF i, j
        <5> QED BY <2>3, <4>1
      <4> QED BY <4>1, <4>2 DEF Delims
    <3>4. PartCount(b, delim) = t + 1
      BY <3>2, <3>3 DEF PartCount
    <3> HIDE DEF r, t
    <3>5. AtEnd(b, delim, r)
      BY <2>8, <3>1, <3>4 DEF AtEnd
    <3> QED BY <2>9, <3>5, Zenon DEF Progress
  <2>11. CASE j # Len(b) + 1
    <3>1. /\ j \in 1 .. Len(b) /\ b[j] = delim /\ j \in Delims(b, delim)
          /\ i \in 1 .. Len(b) + 1 /\ j \in 1 .. Len(b) + 1 /\ i <= j
      BY <2>1, <2>2, <2>3, <2>11 DEF Delims
    <3>2. Before(b, delim, j + 1) = t + 1
      <4>1. Before(b, delim, j) = Before(b, delim, i)
        <5> HIDE DEF i, j
        <5> QED BY <2>3, <3>1, BeforeSteps
      <4>2. Before(b, delim, j + 1) = Before(b, delim, j) + 1
        <5> HIDE DEF j
        <5> QED BY <3>1, BeforeSteps
      <4> QED BY <2>1, <4>1, <4>2
    <3>3. r.pos.i = j + 1 /\ r.pos.j = Find(b, delim, j + 1)
      BY <2>5, <2>11 DEF Pop
    <3>4. CASE j = Len(b)
      <4>1. Empty(b, r.pos)
        BY <3>3, <3>4 DEF Empty
      <4>2. Cardinality(Delims(b, delim)) = t + 1
        <5>1. Before(b, delim, Len(b) + 1) = Cardinality(Delims(b, delim))
          BY BeforeSteps
        <5> QED BY <3>2, <3>4, <5>1
      <4>3. Len(b) \in Delims(b, delim)
        BY <3>1, <3>4
      <4>4. PartCount(b, delim) = t + 1
        BY <2>2, <4>2, <4>3 DEF PartCount
      <4> HIDE DEF r, t
      <4>5. AtEnd(b, delim, r)
        BY <2>8, <4>1, <4>4 DEF AtEnd
      <4> QED BY <2>9, <4>5, Zenon DEF Progress
    <3>5. CASE j # Len(b)
      <4>1. j + 1 \in 1 .. Len(b) /\ (j + 1) - 1 = j /\ j + 1 >= (n + 1) + 1
        BY <2>1, <2>2, <3>1, <3>5
      <4> HIDE DEF i, j, t, r
      <4>2. AtPart(b, delim, r)
        BY <2>8, <3>1, <3>2, <3>3, <4>1 DEF AtPart
      <4> QED BY <2>9, <3>3, <4>1, <4>2 DEF Progress
    <3> QED BY <3>4, <3>5
  <2> QED BY <2>10, <2>11
<1> QED BY <1>1, <1>2

\* The loop of every caller sees the parts of any text, and ends.
THEOREM TextIsSplit ==
  \A S, delim : \A b \in Seq(S) : SplitsIntoParts(b, delim)
<1> SUFFICES ASSUME NEW S, NEW delim, NEW b \in Seq(S) PROVE SplitsIntoParts(b, delim)
  OBVIOUS
<1> DEFINE m == Len(b)
           Acc == [pos : Positions(b), tops : Tops(S)]
<1>1. PICK f : /\ f[0] = First(b, delim)
               /\ \A n \in 1 .. m : f[n] = Round(b, delim, f[n - 1])
               /\ Loop(b, delim) = f[m]
  BY LoopRounds
<1> DEFINE G == {n \in Nat : n <= m => f[n] \in Acc /\ Progress(b, delim, f[n], n)}
<1>2. m \in Nat
  OBVIOUS
<1>3. 0 \in G
  <2>1. First(b, delim) \in Acc
    BY FirstType
  <2> HIDE DEF Acc
  <2> QED BY <1>1, <2>1, FirstProgress
<1>4. ASSUME NEW n \in G PROVE n + 1 \in G
  <2> SUFFICES ASSUME n + 1 <= m
               PROVE  f[n + 1] \in Acc /\ Progress(b, delim, f[n + 1], n + 1)
    OBVIOUS
  <2>1. n \in Nat /\ n <= m /\ n + 1 \in 1 .. m /\ (n + 1) - 1 = n
    BY <1>2
  <2>2. f[n] \in Acc /\ Progress(b, delim, f[n], n)
    BY <2>1
  <2>3. f[n + 1] = Round(b, delim, f[n])
    BY <1>1, <2>1
  <2> QED BY <2>1, <2>2, <2>3, RoundTypes, RoundProgress
<1>5. G = Nat
  <2> HIDE DEF G
  <2>1. G \in SUBSET Nat
    BY DEF G
  <2> QED BY <1>3, <1>4, <2>1, Induction
<1> DEFINE l == Loop(b, delim)
<1>6. l \in Acc /\ Progress(b, delim, l, m)
  <2>1. m \in G
    BY <1>2, <1>5
  <2> QED BY <1>1, <1>2, <2>1
<1>7. AtEnd(b, delim, l)
  <2>1. AtPart(b, delim, l) /\ l.pos.i >= m + 1 => FALSE
    BY <1>2 DEF AtPart
  <2> QED BY <1>6, <2>1 DEF Progress
<1>8. l.tops \in Seq(Seq(S)) /\ Taken(b, delim, l)
  BY <1>6 DEF Tops, Progress
<1>9. l.tops = [n \in 1 .. PartCount(b, delim) |-> Part(b, delim, n)]
  <2> DEFINE t == l.tops
  <2>1. DOMAIN t = 1 .. Len(t) /\ t = [n \in 1 .. Len(t) |-> t[n]]
    <3> HIDE DEF t
    <3>1. t \in [1 .. Len(t) -> Seq(S)]
      BY <1>8, LenProperties DEF t
    <3> QED BY <3>1
  <2>2. \A n \in 1 .. Len(t) : t[n] = Part(b, delim, n)
    BY <1>8 DEF Taken
  <2>3. Len(t) = PartCount(b, delim)
    BY <1>7 DEF AtEnd
  <2> HIDE DEF t
  <2> QED BY <2>1, <2>2, <2>3 DEF t
<1> QED BY <1>7, <1>9 DEF SplitsIntoParts, Tokens, AtEnd

----------------------------------------------------------------------------
(* Parts of a longer text.                                                 *)

\* The text c has one more part than b.
Lengthens(c, b, delim, part, S) ==
  LET n == Cardinality(Delims(b, delim)) IN
  /\ c \in Seq(S) /\ Len(c) = Len(b) + 1 + Len(part)
  /\ Len(c) \in Delims(c, delim) <=> part = <<>>
  /\ Cardinality(Delims(c, delim)) = n + 1
  /\ \A q \in 1 .. n + 1 : Part(c, delim, q) = Part(b, delim, q)
  /\ Part(c, delim, n + 2) = part

\* A further part behind a delimiter leaves the earlier ones as they are.
LEMMA PartsOfLonger ==
  ASSUME NEW S, NEW delim \in S, NEW b \in Seq(S), NEW part \in Seq(S),
         \A k \in 1 .. Len(part) : part[k] # delim,
         NEW c, c = b \o <<delim>> \o part
  PROVE  Lengthens(c, b, delim, part, S)
<1> DEFINE m == Len(b)
           n == Len(part)
           N == Cardinality(Delims(b, delim))
<1>1. /\ m \in Nat /\ n \in Nat /\ c \in Seq(S) /\ Len(c) = m + 1 + n
      /\ \A k \in 1 .. m : c[k] = b[k]
      /\ c[m + 1] = delim
      /\ \A k \in 1 .. n : c[m + 1 + k] = part[k]
  OBVIOUS
<1> HIDE DEF m, n
<1>2. \A k \in m + 2 .. Len(c) : c[k] # delim
  <2> SUFFICES ASSUME NEW k \in m + 2 .. Len(c) PROVE c[k] # delim
    OBVIOUS
  <2>1. PICK l \in 1 .. n : k = m + 1 + l
    <3>1. k - (m + 1) \in 1 .. n /\ k = m + 1 + (k - (m + 1))
      BY <1>1
    <3> QED BY <3>1
  <2> QED BY <1>1, <2>1 DEF n
<1>3. /\ m + 1 \in Delims(c, delim)
      /\ \A k \in 1 .. m : k \in Delims(c, delim) <=> k \in Delims(b, delim)
      /\ \A k \in Int : k \in Delims(c, delim) => k \in 1 .. m + 1
      /\ \A k \in Delims(b, delim) : k \in 1 .. m
  BY <1>1, <1>2 DEF Delims, m
<1>4. \A k \in 1 .. m + 1 : Before(c, delim, k) = Before(b, delim, k)
  <2> SUFFICES ASSUME NEW k \in 1 .. m + 1 PROVE Before(c, delim, k) = Before(b, delim, k)
    OBVIOUS
  <2>1. \A d \in Delims(c, delim) : d < k => d \in Delims(b, delim)
    <3> SUFFICES ASSUME NEW d \in Delims(c, delim), d < k PROVE d \in Delims(b, delim)
      OBVIOUS
    <3>1. d \in Int
      BY DEF Delims
    <3>2. d \in 1 .. m + 1
      BY <1>3, <3>1
    <3>3. d \in 1 .. m
      BY <1>1, <3>2
    <3> QED BY <1>3, <3>3
  <2>2. \A d \in Delims(b, delim) : d \in Delims(c, delim)
    BY <1>3
  <2>3. {d \in Delims(c, delim) : d < k} = {d \in Delims(b, delim) : d < k}
    BY <2>1, <2>2
  <2> QED BY <2>3 DEF Before
<1>5. /\ N \in Nat /\ Before(b, delim, m + 1) = N
      /\ \A k \in 1 .. m : Before(b, delim, k) <= N
  <2>1. Before(b, delim, m + 1) = N
    BY BeforeSteps DEF m
  <2>2. m + 1 \in Int /\ \A k \in 1 .. m : k \in Int /\ k <= m + 1
    BY <1>1
  <2> HIDE DEF N
  <2> QED BY <2>1, <2>2, BeforeIsMonotonic
<1>6. \A k \in m + 2 .. Len(c) + 1 : Before(c, delim, k) = N + 1
  <2> SUFFICES ASSUME NEW k \in m + 2 .. Len(c) + 1 PROVE Before(c, delim, k) = N + 1
    OBVIOUS
  <2>1. Before(c, delim, m + 1) = N /\ (m + 1) + 1 = m + 2
    <3>1. m + 1 \in 1 .. m + 1 /\ (m + 1) + 1 = m + 2
      BY <1>1
    <3> HIDE DEF N
    <3> QED BY <1>4, <1>5, <3>1
  <2>2. Before(c, delim, (m + 1) + 1) = Before(c, delim, m + 1) + 1
    <3>1. \A l \in Delims(c, delim) : Before(c, delim, l + 1) = Before(c, delim, l) + 1
      BY <1>1, BeforeSteps
    <3>2. m + 1 \in Delims(c, delim)
      BY <1>3
    <3> QED BY <3>1, <3>2
  <2>3. /\ m + 2 \in 1 .. Len(c) + 1 /\ k \in 1 .. Len(c) + 1 /\ m + 2 <= k
        /\ \A l \in m + 2 .. k - 1 : c[l] # delim
    <3>1. m + 2 \in 1 .. Len(c) + 1 /\ k \in 1 .. Len(c) + 1 /\ m + 2 <= k
      BY <1>1
    <3>2. \A l \in m + 2 .. k - 1 : l \in m + 2 .. Len(c)
      BY <1>1
    <3> QED BY <1>2, <3>1, <3>2
  <2>4. Before(c, delim, k) = Before(c, delim, m + 2)
    BY <1>1, <2>3, BeforeSteps
  <2> HIDE DEF N
  <2> QED BY <2>1, <2>2, <2>4
<1>7. Cardinality(Delims(c, delim)) = N + 1
  <2>1. Len(c) + 1 \in m + 2 .. Len(c) + 1
    BY <1>1
  <2>2. Before(c, delim, Len(c) + 1) = Cardinality(Delims(c, delim))
    BY <1>1, BeforeSteps
  <2> HIDE DEF N
  <2> QED BY <1>6, <2>1, <2>2
<1>8. Part(c, delim, N + 2) = part
  <2>1. Part(c, delim, Before(c, delim, m + 2) + 1) = SubSeq(c, m + 2, (Len(c) + 1) - 1)
    <3>1. /\ m + 2 \in 1 .. Len(c) + 1 /\ Len(c) + 1 \in m + 2 .. Len(c) + 1
          /\ c[(m + 2) - 1] = delim /\ \A k \in m + 2 .. (Len(c) + 1) - 1 : c[k] # delim
      BY <1>1, <1>2
    <3> QED BY <1>1, <3>1, PartBetween
  <2>2. Before(c, delim, m + 2) = N + 1 /\ (N + 1) + 1 = N + 2
    <3>1. m + 2 \in m + 2 .. Len(c) + 1
      BY <1>1
    <3> HIDE DEF N
    <3> QED BY <1>5, <1>6, <3>1
  <2>3. SubSeq(c, m + 2, (Len(c) + 1) - 1) = part
    <3> DEFINE front == b \o <<delim>>
    <3>1. front \in Seq(S) /\ Len(front) = m + 1 /\ c = front \o part
      BY DEF m
    <3>2. (Len(c) + 1) - 1 = m + 1 + n
      BY <1>1
    <3>3. CASE part = <<>>
      <4>1. n = 0 /\ m + 1 + n < m + 2 /\ m + 2 \in Int /\ m + 1 + n \in Int
        BY <1>1, <3>3 DEF n
      <4> QED BY <3>2, <3>3, <4>1, SubSeqEmpty
    <3>4. CASE part # <<>>
      <4>1. n # 0
        BY <3>4 DEF n
      <4>2. /\ m + 2 \in Len(front) + 1 .. Len(front) + Len(part)
            /\ m + 1 + n \in Len(front) + 1 .. Len(front) + Len(part)
            /\ (m + 2) - Len(front) = 1 /\ (m + 1 + n) - Len(front) = n
        BY <1>1, <3>1, <4>1 DEF n
      <4>3. SubSeq(c, m + 2, m + 1 + n) = SubSeq(part, 1, n)
        <5> DEFINE x == m + 2
                   y == m + 1 + n
        <5> HIDE DEF front, x, y
        <5>1. /\ x \in Len(front) + 1 .. Len(front) + Len(part)
              /\ y \in Len(front) + 1 .. Len(front) + Len(part)
              /\ x - Len(front) = 1 /\ y - Len(front) = n
          BY <4>2 DEF x, y
        <5>2. SubSeq(front \o part, x, y) = SubSeq(part, x - Len(front), y - Len(front))
          BY <3>1, <5>1, SubSeqOfConcat2
        <5> QED BY <3>1, <5>1, <5>2 DEF x, y
      <4>4. SubSeq(part, 1, n) = part
        BY SubSeqFull DEF n
      <4> QED BY <3>2, <4>3, <4>4
    <3> QED BY <3>3, <3>4
  <2> QED BY <2>1, <2>2, <2>3
<1>9. ASSUME NEW q \in 1 .. N + 1 PROVE Part(c, delim, q) = Part(b, delim, q)
  <2> DEFINE atb == {k \in 1 .. Len(b) : b[k] # delim /\ Before(b, delim, k) = q - 1}
             atc == {k \in 1 .. Len(c) : c[k] # delim /\ Before(c, delim, k) = q - 1}
  <2>1. /\ Part(b, delim, q) = IF atb = {} THEN <<>> ELSE SubSeq(b, Min(atb), Max(atb))
        /\ Part(c, delim, q) = IF atc = {} THEN <<>> ELSE SubSeq(c, Min(atc), Max(atc))
    BY DEF Part, Before
  <2>2. atb = atc
    <3>1. ASSUME NEW k \in atb PROVE k \in atc
      <4>1. k \in 1 .. m /\ k \in 1 .. m + 1 /\ k \in 1 .. Len(c)
        BY <1>1 DEF m
      <4> QED BY <1>1, <1>4, <4>1
    <3>2. ASSUME NEW k \in atc PROVE k \in atb
      <4>1. k \in 1 .. Len(c) /\ c[k] # delim /\ Before(c, delim, k) = q - 1
        OBVIOUS
      <4>2. k # m + 1
        BY <1>1, <4>1
      <4>3. k \notin m + 2 .. Len(c) + 1
        <5> HIDE DEF N
        <5> QED BY <1>5, <1>6, <4>1
      <4>4. k \in 1 .. m /\ k \in 1 .. m + 1
        BY <1>1, <4>1, <4>2, <4>3
      <4> QED BY <1>1, <1>4, <4>1, <4>4 DEF m
    <3> HIDE DEF atb, atc
    <3> QED BY <3>1, <3>2
  <2>3. CASE atb = {}
    <3> HIDE DEF atb, atc
    <3> QED BY <2>1, <2>2, <2>3
  <2>4. CASE atb # {}
    <3>1. Min(atb) \in 1 .. m /\ Max(atb) \in 1 .. m
      <4>1. atb \in SUBSET (1 .. m) /\ atb \in SUBSET Nat
        BY <1>1 DEF m
      <4> HIDE DEF atb, m
      <4> QED BY <1>1, <2>4, <4>1, MinIn, MaxIn
    <3>2. \A x \in 1 .. m, y \in 1 .. m : SubSeq(c, x, y) = SubSeq(b, x, y)
      <4>1. <<delim>> \o part \in Seq(S) /\ c = b \o (<<delim>> \o part)
        OBVIOUS
      <4> QED BY <4>1, SubSeqOfConcat1 DEF m
    <3> HIDE DEF atb, atc
    <3> QED BY <2>1, <2>2, <2>4, <3>1, <3>2
  <2> QED BY <2>3, <2>4
<1>10. Len(c) \in Delims(c, delim) <=> part = <<>>
  <2>1. CASE part = <<>>
    <3>1. n = 0 /\ Len(c) = m + 1
      BY <1>1, <2>1 DEF n
    <3> QED BY <1>3, <2>1, <3>1
  <2>2. CASE part # <<>>
    <3>1. n # 0
      BY <2>2 DEF n
    <3>2. Len(c) \in m + 2 .. Len(c)
      BY <1>1, <3>1
    <3> QED BY <1>2, <2>2, <3>2 DEF Delims
  <2> QED BY <2>1, <2>2
<1> QED BY <1>1, <1>7, <1>8, <1>9, <1>10 DEF m, n, Lengthens

----------------------------------------------------------------------------
(* The URI and its parts.                                                  *)

\* What URIs are made of.
Chars == Words \cup {",", "/", "api"}

\* What is behind the leading slash.
Rest == Tail(uri)

\* How many there are behind the leading one.
Slashes == Cardinality(Delims(Rest, "/"))

\* The parts are those that the client may write, and a URI begins with a slash.
TypeInv ==
  /\ parts \in Seq(Parts \cup NameParts)
  /\ \A k \in 1 .. Len(parts) : k <= 2 => parts[k] \in Parts
  /\ uri \in Seq(Chars) /\ uri # <<>> /\ uri[1] = "/" /\ Rest # <<>>

\* The parts of the path are "api" and those that the client wrote.
PathInv ==
  /\ Slashes = Len(parts)
  /\ Part(Rest, "/", 1) = <<"api">>
  /\ \A q \in 1 .. Len(parts) : Part(Rest, "/", q + 1) = parts[q]
  /\ Len(Rest) \in Delims(Rest, "/") <=> parts # <<>> /\ parts[Len(parts)] = <<>>

\* No part holds a slash.
LEMMA PartsAreWords ==
  ASSUME NEW part \in Parts \cup NameParts
  PROVE  /\ part \in Seq(Words \cup {","}) /\ part \in Seq(Chars)
         /\ \A k \in 1 .. Len(part) : part[k] # "/"
<1>1. part \in Seq(Words \cup {","})
  BY PartsAssumption
<1>2. part \in Seq(Chars)
  <2>1. Words \cup {","} \subseteq Chars
    BY DEF Chars
  <2> QED BY <1>1, <2>1, SeqMonotonic
<1>3. \A w \in Words \cup {","} : w # "/"
  BY DEF Words
<1>4. \A k \in 1 .. Len(part) : part[k] \in Words \cup {","}
  BY <1>1, ElementOfSeq
<1> QED BY <1>1, <1>2, <1>3, <1>4

\* The URI of the API itself.
LEMMA TypeOfInit == Init => TypeInv
<1> SUFFICES ASSUME Init PROVE TypeInv
  OBVIOUS
<1>1. parts = <<>> /\ uri = <<"/", "api">>
  BY DEF Init
<1>2. Tail(<<"/", "api">>) = <<"api">>
  OBVIOUS
<1>3. uri \in Seq(Chars)
  <2>1. "/" \in Chars /\ "api" \in Chars
    BY DEF Chars
  <2> QED BY <1>1, <2>1
<1> QED BY <1>1, <1>2, <1>3 DEF TypeInv, Rest

\* It has one part.
LEMMA PathOfInit == Init => PathInv
<1> SUFFICES ASSUME Init PROVE PathInv
  OBVIOUS
<1>1. parts = <<>> /\ uri = <<"/", "api">>
  BY DEF Init
<1> DEFINE b == <<"api">>
<1>2. Rest = b
  BY <1>1 DEF Rest
<1>3. /\ b \in Seq({"api"}) /\ Len(b) = 1 /\ b[1] = "api" /\ "api" # "/"
      /\ SubSeq(b, 1, 1) = b
  <2>1. b \in Seq({"api"}) /\ Len(b) = 1 /\ b[1] = "api"
    OBVIOUS
  <2>2. SubSeq(b, 1, Len(b)) = b
    <3> HIDE DEF b
    <3> QED BY <2>1, SubSeqFull
  <2> HIDE DEF b
  <2> QED BY <2>1, <2>2
<1> HIDE DEF b
<1>4. Delims(b, "/") = {}
  BY <1>3 DEF Delims
<1>5. Cardinality(Delims(b, "/")) = 0
  BY <1>4, FS_EmptySet
<1>6. Part(b, "/", 1) = b
  <2>1. Part(b, "/", Before(b, "/", 1) + 1) = SubSeq(b, 1, 2 - 1)
    <3>1. /\ 1 \in 1 .. Len(b) + 1 /\ 2 \in 1 .. Len(b) + 1 /\ 2 = Len(b) + 1
          /\ \A k \in 1 .. 2 - 1 : b[k] # "/"
      BY <1>3
    <3> QED BY <1>3, <3>1, PartBetween
  <2>2. Before(b, "/", 1) = 0
    BY <1>3, BeforeSteps
  <2> QED BY <1>3, <2>1, <2>2
<1>7. Len(parts) = 0
  BY <1>1
<1> QED BY <1>1, <1>2, <1>4, <1>5, <1>6, <1>7 DEF PathInv, Slashes, b

\* A further part is written behind a slash.
LEMMA StepKeeps ==
  ASSUME TypeInv, PathInv, [Next]_<<parts, uri>>
  PROVE  TypeInv' /\ PathInv'
<1>1. CASE UNCHANGED <<parts, uri>>
  <2>1. TypeInv'
    BY <1>1 DEF TypeInv, Rest
  <2>2. PathInv'
    BY <1>1 DEF PathInv, Rest, Slashes
  <2> QED BY <2>1, <2>2
<1>2. ASSUME NEW part \in Parts \cup NameParts, Extend(part) PROVE TypeInv' /\ PathInv'
  <2> DEFINE n == Len(parts)
             rest == Tail(uri)
             c == rest \o <<"/">> \o part
  <2>1. /\ part \in IF Len(parts) < 2 THEN Parts ELSE NameParts
        /\ parts' = Append(parts, part) /\ uri' = uri \o <<"/">> \o part
    BY <1>2 DEF Extend
  <2>2. /\ part \in Seq(Chars) /\ \A k \in 1 .. Len(part) : part[k] # "/"
    BY PartsAreWords
  <2>3. /\ parts \in Seq(Parts \cup NameParts)
        /\ \A k \in 1 .. Len(parts) : k <= 2 => parts[k] \in Parts
        /\ uri \in Seq(Chars) /\ uri # <<>> /\ uri[1] = "/" /\ rest # <<>>
        /\ "/" \in Chars /\ rest \in Seq(Chars)
    <3>1. uri \in Seq(Chars) /\ uri # <<>>
      BY DEF TypeInv
    <3>2. rest \in Seq(Chars)
      BY <3>1, HeadTailProperties
    <3> QED BY <3>2 DEF TypeInv, Rest, Chars
  <2>4. /\ n \in Nat /\ parts' \in Seq(Parts \cup NameParts) /\ Len(parts') = n + 1
        /\ parts'[n + 1] = part /\ \A k \in 1 .. n : parts'[k] = parts[k]
    BY <2>1, <2>3, AppendProperties
  <2>5. uri' \in Seq(Chars) /\ uri' # <<>> /\ uri'[1] = "/" /\ Tail(uri') = c
    <3> DEFINE t == <<"/">> \o part
    <3>0. <<"/">> \in Seq(Chars) /\ t \in Seq(Chars)
      BY <2>2, <2>3
    <3>1. uri' = uri \o t /\ c = rest \o t
      <4> DEFINE slash == <<"/">>
      <4> HIDE DEF slash, rest
      <4>1. (uri \o slash) \o part = uri \o (slash \o part)
        BY <2>2, <2>3, <3>0, ConcatAssociative DEF slash
      <4>2. (rest \o slash) \o part = rest \o (slash \o part)
        BY <2>2, <2>3, <3>0, ConcatAssociative DEF slash
      <4> QED BY <2>1, <4>1, <4>2 DEF slash
    <3> HIDE DEF t, c
    <3>2. uri = <<"/">> \o rest
      BY <2>3
    <3>3. uri' = <<"/">> \o (rest \o t)
      <4>1. (<<"/">> \o rest) \o t = <<"/">> \o (rest \o t)
        BY <2>3, <3>0, ConcatAssociative
      <4> QED BY <3>1, <3>2, <4>1
    <3>4. c \in Seq(Chars)
      BY <2>3, <3>0, <3>1
    <3> QED BY <2>3, <3>0, <3>1, <3>3, <3>4
  <2> HIDE DEF rest, c, n
  <2>6. /\ c \in Seq(Chars) /\ Len(c) = Len(rest) + 1 + Len(part)
        /\ Len(c) \in Delims(c, "/") <=> part = <<>>
        /\ Cardinality(Delims(c, "/")) = Cardinality(Delims(rest, "/")) + 1
        /\ \A q \in 1 .. Cardinality(Delims(rest, "/")) + 1 : Part(c, "/", q) = Part(rest, "/", q)
        /\ Part(c, "/", Cardinality(Delims(rest, "/")) + 2) = part
    <3>1. c = rest \o <<"/">> \o part
      BY DEF c
    <3> DEFINE slash == "/"
    <3>2. /\ slash \in Chars /\ rest \in Seq(Chars) /\ part \in Seq(Chars)
          /\ c = rest \o <<slash>> \o part
          /\ \A k \in 1 .. Len(part) : part[k] # slash
      BY <2>2, <2>3, <3>1
    <3> HIDE DEF slash
    <3>3. Lengthens(c, rest, slash, part, Chars)
      BY <3>2, PartsOfLonger
    <3> QED BY <3>3 DEF slash, Lengthens
  <2>7. /\ Cardinality(Delims(rest, "/")) = n
        /\ Part(rest, "/", 1) = <<"api">>
        /\ \A q \in 1 .. n : Part(rest, "/", q + 1) = parts[q]
    BY DEF PathInv, Slashes, Rest, rest, n
  <2>8. TypeInv'
    <3>1. \A k \in 1 .. Len(parts') : k <= 2 => parts'[k] \in Parts
      <4> SUFFICES ASSUME NEW k \in 1 .. Len(parts'), k <= 2 PROVE parts'[k] \in Parts
        OBVIOUS
      <4>1. CASE k = n + 1
        <5>1. n < 2
          BY <2>4, <4>1
        <5> QED BY <2>1, <2>4, <4>1, <5>1 DEF n
      <4>2. CASE k # n + 1
        <5>1. k \in 1 .. n
          BY <2>4, <4>2
        <5> QED BY <2>3, <2>4, <5>1 DEF n
      <4> QED BY <4>1, <4>2
    <3>2. c # <<>>
      <4>1. Len(c) # 0
        BY <2>2, <2>3, <2>6
      <4> QED BY <4>1
    <3> QED BY <2>4, <2>5, <3>1, <3>2 DEF TypeInv, Rest
  <2>9. PathInv'
    <3>1. Cardinality(Delims(c, "/")) = Len(parts')
      BY <2>4, <2>6, <2>7
    <3>2. Part(c, "/", 1) = <<"api">>
      <4>1. 1 \in 1 .. n + 1
        BY <2>4
      <4> QED BY <2>6, <2>7, <4>1
    <3>3. ASSUME NEW q \in 1 .. Len(parts') PROVE Part(c, "/", q + 1) = parts'[q]
      <4>1. CASE q = n + 1
        <5>1. q + 1 = n + 2
          BY <2>4, <4>1
        <5> QED BY <2>4, <2>6, <2>7, <4>1, <5>1
      <4>2. CASE q # n + 1
        <5>1. q \in 1 .. n /\ q + 1 \in 1 .. n + 1
          BY <2>4, <4>2
        <5> QED BY <2>4, <2>6, <2>7, <5>1
      <4> QED BY <4>1, <4>2
    <3>4. parts' # <<>> /\ parts'[Len(parts')] = part
      BY <2>4
    <3> QED BY <2>5, <2>6, <3>1, <3>2, <3>3, <3>4 DEF PathInv, Rest, Slashes
  <2> QED BY <2>8, <2>9
<1> QED BY <1>1, <1>2 DEF Next

\* Both are invariants of every client.
LEMMA Keeps == Spec => [](TypeInv /\ PathInv)
<1>1. Init => TypeInv /\ PathInv
  BY TypeOfInit, PathOfInit
<1>2. TypeInv /\ PathInv /\ [Next]_<<parts, uri>> => (TypeInv /\ PathInv)'
  BY StepKeeps
<1> QED BY <1>1, <1>2, PTL DEF Spec

\* On every URI that a client writes, and on every part as a list, the loops that pop a
\* tokeniser see the parts between the delimiters, in order, and end.
THEOREM TokensAreRight == Spec => []TokensAreParts
<1>1. TypeInv => TokensAreParts
  <2> SUFFICES ASSUME TypeInv PROVE TokensAreParts
    OBVIOUS
  <2>1. SplitsIntoParts(uri, "/")
    <3>1. uri \in Seq(Chars)
      BY DEF TypeInv
    <3> QED BY <3>1, TextIsSplit
  <2>2. ASSUME NEW k \in DOMAIN parts PROVE SplitsIntoParts(parts[k], ",")
    <3>1. parts[k] \in Parts \cup NameParts
      BY DEF TypeInv
    <3>2. parts[k] \in Seq(Chars)
      BY <3>1, PartsAreWords
    <3> QED BY <3>2, TextIsSplit
  <2> QED BY <2>1, <2>2 DEF TokensAreParts
<1> QED BY <1>1, Keeps, PTL

\* The path that the router works on is the one that the client means.
LEMMA PathIsMeant ==
  ASSUME TypeInv, PathInv
  PROVE  Meant \in Seq(Parts \cup NameParts) /\ Tail(Path(uri)) = Meant
         /\ \A k \in 1 .. Len(Meant) : k <= 2 => Meant[k] \in Parts
<1> DEFINE b == Rest
           n == Len(parts)
           f == Path(uri)
           last == IF Len(b) \in Delims(b, "/") THEN 0 ELSE 1
<1>1. /\ b \in Seq(Chars) /\ b # <<>> /\ n \in Nat
      /\ parts \in Seq(Parts \cup NameParts)
      /\ \A k \in 1 .. n : k <= 2 => parts[k] \in Parts
  <2>1. uri \in Seq(Chars) /\ uri # <<>>
    BY DEF TypeInv
  <2>2. b \in Seq(Chars)
    BY <2>1, HeadTailProperties DEF Rest
  <2> QED BY <2>2 DEF TypeInv
<1>2. /\ Cardinality(Delims(b, "/")) = n
      /\ \A q \in 1 .. n : Part(b, "/", q + 1) = parts[q]
      /\ Len(b) \in Delims(b, "/") <=> parts # <<>> /\ parts[n] = <<>>
  BY DEF PathInv, Slashes
<1>3. f = [q \in 1 .. n + last |-> Part(b, "/", q)]
  <2>1. SplitsIntoParts(b, "/")
    BY <1>1, TextIsSplit
  <2>2. PartCount(b, "/") = n + last
    BY <1>1, <1>2 DEF PartCount
  <2>3. f = Tokens(b, "/")
    BY DEF Path, Rest, TypeInv
  <2> QED BY <2>1, <2>2, <2>3 DEF SplitsIntoParts
<1> HIDE DEF f, b
<1>4. CASE parts # <<>> /\ parts[n] = <<>>
  <2>1. Meant = SubSeq(parts, 1, n - 1) /\ n >= 1
    BY <1>1, <1>4 DEF Meant
  <2>2. f = [q \in 1 .. n |-> Part(b, "/", q)]
    BY <1>1, <1>2, <1>3, <1>4
  <2>3. \A q \in 1 .. n - 1 : Part(b, "/", q + 1) = parts[q]
    BY <1>1, <1>2
  <2>4. Tail(f) = [q \in 1 .. n - 1 |-> Part(b, "/", q + 1)]
    BY <1>1, <2>1, <2>2
  <2>5. SubSeq(parts, 1, n - 1) = [q \in 1 .. n - 1 |-> parts[q]]
    BY <1>1, <2>1
  <2>6. Tail(f) = Meant
    BY <2>1, <2>3, <2>4, <2>5
  <2>7. /\ Meant \in Seq(Parts \cup NameParts) /\ Len(Meant) = n - 1
        /\ \A k \in 1 .. n - 1 : Meant[k] = parts[k]
    <3> DEFINE W == Parts \cup NameParts
    <3>1. parts \in Seq(W) /\ \A k \in 1 .. n - 1 : parts[k] \in W
      BY <1>1
    <3>2. SubSeq(parts, 1, n - 1) \in Seq(W) /\ Len(SubSeq(parts, 1, n - 1)) = n - 1
      <4> DEFINE y == n - 1
      <4>1. y \in Int /\ y >= 0 /\ 1 \in Int /\ \A k \in 1 .. y : parts[k] \in W
        BY <1>1, <2>1, <3>1
      <4> HIDE DEF W, y
      <4>2. SubSeq(parts, 1, y) \in Seq(W)
        BY <4>1, SubSeqProperties
      <4>3. Len(SubSeq(parts, 1, y)) = IF 1 <= y THEN y - 1 + 1 ELSE 0
        BY <4>1, SubSeqProperties
      <4>4. Len(SubSeq(parts, 1, y)) = y
        BY <4>1, <4>3
      <4> QED BY <4>2, <4>4 DEF y
    <3> QED BY <2>1, <2>5, <3>2
  <2> QED BY <1>1, <2>6, <2>7 DEF f
<1>5. CASE ~ (parts # <<>> /\ parts[n] = <<>>)
  <2>1. Meant = parts
    BY <1>5 DEF Meant
  <2>2. f = [q \in 1 .. n + 1 |-> Part(b, "/", q)]
    BY <1>1, <1>2, <1>3, <1>5
  <2>3. Tail(f) = [q \in 1 .. n |-> Part(b, "/", q + 1)]
    BY <1>1, <2>2
  <2>4. parts = [q \in 1 .. n |-> parts[q]]
    BY <1>1
  <2>5. Tail(f) = Meant
    BY <1>2, <2>1, <2>3, <2>4
  <2> QED BY <1>1, <2>1, <2>5 DEF f
<1> QED BY <1>4, <1>5

----------------------------------------------------------------------------
(* Lists of entities.                                                      *)

\* The values of a function on a finite set are finitely many.
LEMMA FiniteImage ==
  ASSUME NEW I, IsFiniteSet(I), NEW f
  PROVE  IsFiniteSet({f[x] : x \in I})
<1> DEFINE g == [x \in I |-> f[x]]
           R == {f[x] : x \in I}
<1>1. g \in Surjection(I, R)
  BY DEF Surjection
<1> HIDE DEF g, R
<1>2. IsFiniteSet(R)
  BY <1>1, FS_Surjection
<1> QED BY <1>2 DEF R

\* More than one is two that differ.
LEMMA TwoMembers ==
  ASSUME NEW T, IsFiniteSet(T)
  PROVE  Cardinality(T) > 1 <=> \E x \in T, y \in T : x # y
<1>1. Cardinality(T) \in Nat
  BY FS_CardinalityType
<1>2. ASSUME Cardinality(T) > 1 PROVE \E x \in T, y \in T : x # y
  <2>1. T # {}
    BY <1>2, FS_EmptySet
  <2>2. PICK x \in T : TRUE
    BY <2>1
  <2>3. T # {x}
    BY <1>2, FS_Singleton
  <2> QED BY <2>2, <2>3
<1>3. ASSUME NEW x \in T, NEW y \in T, x # y PROVE Cardinality(T) > 1
  <2>1. IsFiniteSet({x}) /\ Cardinality({x}) = 1 /\ IsFiniteSet({x, y})
    BY FS_Singleton, FS_Subset
  <2>2. Cardinality({x, y}) = 2
    <3>1. {x, y} = {x} \cup {y} /\ y \notin {x}
      BY <1>3
    <3>2. Cardinality({x} \cup {y}) = Cardinality({x}) + 1
      BY <2>1, <3>1, FS_AddElement
    <3> QED BY <2>1, <3>1, <3>2
  <2>3. Cardinality({x, y}) <= Cardinality(T)
    <3>1. {x, y} \subseteq T
      OBVIOUS
    <3> QED BY <3>1, FS_Subset
  <2> QED BY <1>1, <2>2, <2>3
<1> QED BY <1>2, <1>3

\* What the part means and what the tokeniser makes of it: as many entities, and the
\* same ones.
Lists(part) ==
  /\ Known(Parse(part)) /\ Many(Parse(part)) <=>
       Cardinality(Listing(part)) > 1 /\ Listing(part) \subseteq Entities
  /\ \A e : Parse(part) = {<<e>>} <=> Listing(part) = {e}

\* Every part is empty or a stretch of the text that begins with no delimiter, and
\* every character but delimiters is in one.
Stretches(b, delim) ==
  /\ \A n \in 1 .. PartCount(b, delim) :
       \/ Part(b, delim, n) = <<>>
       \/ \E i, j \in 1 .. Len(b) : /\ i <= j /\ b[i] # delim
                                    /\ Part(b, delim, n) = SubSeq(b, i, j)
  /\ \A k \in 1 .. Len(b) : b[k] # delim =>
       \E n \in 1 .. PartCount(b, delim) : \E i, j \in 1 .. Len(b) :
         i <= k /\ k <= j /\ Part(b, delim, n) = SubSeq(b, i, j)
  /\ PartCount(b, delim) \in Nat

\* Parts are such stretches, whatever the text.
LEMMA PartsStretch ==
  ASSUME NEW S, NEW b \in Seq(S), NEW delim
  PROVE  Stretches(b, delim)
<1> DEFINE B(k) == Before(b, delim, k)
           at(n) == {k \in 1 .. Len(b) : b[k] # delim /\ B(k) = n - 1}
           N == PartCount(b, delim)
           C == Cardinality(Delims(b, delim))
           m == Len(b)
<1>0. /\ m \in Nat /\ m = Len(b) /\ (\A k \in Int : B(k) \in Nat) /\ C \in Nat /\ B(m + 1) = C
      /\ \A k \in Int, l \in Int : k <= l => B(k) <= B(l)
  <2>1. /\ \A k \in Int : B(k) \in Nat
        /\ \A k \in Int, l \in Int : k <= l => B(k) <= B(l)
    BY BeforeIsMonotonic
  <2>2. B(m + 1) = C
    BY BeforeSteps
  <2>3. m + 1 \in Int
    OBVIOUS
  <2> HIDE DEF B, C
  <2> QED BY <2>1, <2>2, <2>3
<1>1. /\ N \in Nat
      /\ m \in Delims(b, delim) => N = C
      /\ m \notin Delims(b, delim) /\ m # 0 => N = C + 1
  <2>1. m = 0 <=> b = <<>>
    OBVIOUS
  <2>2. N = C + (IF b = <<>> \/ m \in Delims(b, delim) THEN 0 ELSE 1)
    BY DEF PartCount
  <2>3. b = <<>> => Delims(b, delim) = {}
    BY DEF Delims
  <2> HIDE DEF C, m, N
  <2> QED BY <1>0, <2>1, <2>2, <2>3
<1>2. \A n : Part(b, delim, n) = IF at(n) = {} THEN <<>> ELSE SubSeq(b, Min(at(n)), Max(at(n)))
  BY DEF Part, Before
<1>3. ASSUME NEW n, at(n) # {}
      PROVE  /\ Min(at(n)) \in at(n) /\ Max(at(n)) \in at(n)
             /\ \A k \in at(n) : Min(at(n)) <= k /\ k <= Max(at(n))
  <2> DEFINE T == at(n)
  <2>1. T \in SUBSET Nat /\ T \in SUBSET (1 .. Len(b)) /\ T # {} /\ Len(b) \in Nat
    <3>1. T \subseteq 1 .. Len(b) /\ Len(b) \in Nat
      OBVIOUS
    <3> HIDE DEF T
    <3> QED BY <1>3, <3>1 DEF T
  <2> HIDE DEF T
  <2>2. Min(T) \in T /\ \A k \in T : Min(T) <= k
    BY <2>1, MinIn
  <2>3. Max(T) \in T /\ \A k \in T : Max(T) >= k
    BY <2>1, MaxIn
  <2>4. \A k \in T : k \in Int
    BY <2>1
  <2>5. \A k \in T : k <= Max(T)
    BY <2>3, <2>4
  <2> QED BY <2>2, <2>3, <2>5 DEF T
<1>4. ASSUME NEW n \in 1 .. N, Part(b, delim, n) # <<>>
      PROVE  \E i, j \in 1 .. Len(b) : /\ i <= j /\ b[i] # delim
                                       /\ Part(b, delim, n) = SubSeq(b, i, j)
  <2>1. at(n) # {}
    BY <1>2, <1>4
  <2>2. /\ Min(at(n)) \in 1 .. Len(b) /\ Max(at(n)) \in 1 .. Len(b)
        /\ Min(at(n)) <= Max(at(n)) /\ b[Min(at(n))] # delim
    <3>1. /\ Min(at(n)) \in at(n) /\ Max(at(n)) \in at(n)
          /\ \A k \in at(n) : Min(at(n)) <= k
      BY <1>3, <2>1
    <3>2. \A k \in at(n) : k \in 1 .. Len(b) /\ b[k] # delim
      OBVIOUS
    <3> HIDE DEF at
    <3> QED BY <3>1, <3>2
  <2>3. Part(b, delim, n) = SubSeq(b, Min(at(n)), Max(at(n)))
    BY <1>2, <2>1
  <2> HIDE DEF at
  <2> QED BY <2>2, <2>3
<1>5. ASSUME NEW k \in 1 .. Len(b), b[k] # delim
      PROVE  \E n \in 1 .. N : \E i, j \in 1 .. Len(b) :
               i <= k /\ k <= j /\ Part(b, delim, n) = SubSeq(b, i, j)
  <2> DEFINE n == B(k) + 1
  <2>1. B(k) \in Nat /\ n - 1 = B(k) /\ n \in Nat /\ n >= 1 /\ k \in Int /\ m # 0
    <3>1. k \in Int /\ m # 0
      OBVIOUS
    <3>2. B(k) \in Nat
      <4> HIDE DEF B
      <4> QED BY <1>0, <3>1
    <3> HIDE DEF B
    <3> QED BY <3>1, <3>2
  <2>2. n <= N
    <3>1. CASE m \in Delims(b, delim)
      <4>1. k <= m /\ b[m] = delim /\ m \in Int
        BY <1>0, <3>1 DEF Delims
      <4>2. B(m + 1) = B(m) + 1
        BY <3>1, BeforeSteps
      <4> HIDE DEF N, C, B, m
      <4>3. B(k) <= B(m) /\ B(m) \in Nat
        BY <1>0, <2>1, <4>1
      <4> QED BY <1>0, <1>1, <2>1, <3>1, <4>2, <4>3
    <3>2. CASE m \notin Delims(b, delim)
      <4>1. k <= m + 1 /\ m + 1 \in Int
        OBVIOUS
      <4> HIDE DEF N, C, B, m
      <4>2. B(k) <= B(m + 1)
        BY <1>0, <2>1, <4>1
      <4> QED BY <1>0, <1>1, <2>1, <3>2, <4>2
    <3> QED BY <3>1, <3>2
  <2>3. n \in 1 .. N
    <3> HIDE DEF N, B
    <3> QED BY <1>1, <2>1, <2>2
  <2>4. k \in at(n)
    BY <1>5, <2>1
  <2>5. /\ at(n) # {} /\ Min(at(n)) \in at(n) /\ Max(at(n)) \in at(n)
        /\ Min(at(n)) <= k /\ k <= Max(at(n))
    <3>1. at(n) # {}
      BY <2>4
    <3> HIDE DEF at, n
    <3> QED BY <1>3, <2>4, <3>1
  <2>6. \A x \in at(n) : x \in 1 .. Len(b)
    OBVIOUS
  <2>7. Part(b, delim, n) = SubSeq(b, Min(at(n)), Max(at(n)))
    <3> HIDE DEF n
    <3> QED BY <1>2, <2>5
  <2> HIDE DEF at, n, N
  <2> QED BY <2>3, <2>5, <2>6, <2>7
<1> HIDE DEF N
<1> QED BY <1>1, <1>4, <1>5 DEF Stretches, N

\* The entities that a part lists are its parts between commas.
LEMMA ParseParts ==
  ASSUME NEW S, NEW b \in Seq(S)
  PROVE  /\ Parse(b) = {Part(b, ",", n) : n \in 1 .. PartCount(b, ",")}
         /\ IsFiniteSet(Parse(b))
<1> DEFINE N == PartCount(b, ",")
           I == 1 .. N
           f == [n \in I |-> Part(b, ",", n)]
<1>1. Parse(b) = {f[n] : n \in I}
  <2>1. Tokens(b, ",") = f
    <3>1. SplitsIntoParts(b, ",")
      BY TextIsSplit
    <3> QED BY <3>1 DEF SplitsIntoParts
  <2> HIDE DEF N
  <2> QED BY <2>1 DEF Parse
<1>2. IsFiniteSet(I)
  <2>1. N \in Nat
    <3>1. Stretches(b, ",")
      BY PartsStretch
    <3> QED BY <3>1 DEF Stretches
  <2> HIDE DEF N
  <2>2. N \in Int /\ 1 \in Int
    BY <2>1
  <2> QED BY <2>2, FS_Interval
<1>3. IsFiniteSet({f[n] : n \in I})
  <2> HIDE DEF I, f
  <2> QED BY <1>2, FiniteImage
<1>4. {f[n] : n \in I} = {Part(b, ",", n) : n \in I}
  <2> HIDE DEF I
  <2> QED OBVIOUS
<1> QED BY <1>1, <1>3, <1>4

\* A stretch of length one.
LEMMA OneCharacter ==
  ASSUME NEW S, NEW b \in Seq(S), NEW i \in 1 .. Len(b), NEW j \in 1 .. Len(b), i <= j,
         Len(SubSeq(b, i, j)) = 1
  PROVE  i = j /\ SubSeq(b, i, j) = <<b[i]>>
<1>1. \A k \in i .. j : b[k] \in S
  OBVIOUS
<1>2. Len(SubSeq(b, i, j)) = IF i <= j THEN j - i + 1 ELSE 0
  BY <1>1, SubSeqProperties
<1>3. i = j
  BY <1>2
<1>4. SubSeq(b, i, i) = <<b[i]>> \o SubSeq(b, i + 1, i)
  BY SubSeqRecursiveFirst
<1>5. SubSeq(b, i + 1, i) = <<>>
  BY SubSeqEmpty
<1>6. <<b[i]>> \in Seq(S)
  OBVIOUS
<1>7. <<b[i]>> \o <<>> = <<b[i]>>
  BY <1>6, ConcatEmptySeq
<1> QED BY <1>3, <1>4, <1>5, <1>7

\* The code's reading of a part that the client may write.
LEMMA ListingIsParsed ==
  ASSUME NEW part \in Parts
  PROVE  Lists(part)
<1> DEFINE L == Listing(part)
           P == Parse(part)
           comma == ","
           N == PartCount(part, comma)
<1>1. /\ part \in Seq(Chars) /\ Len(part) \in Nat /\ DOMAIN part = 1 .. Len(part)
      /\ L = {} \/ \A token \in P : Len(token) = 1
  <2>1. part \in Seq(Chars)
    BY PartsAreWords
  <2>2. L = {} \/ \A token \in P : Len(token) = 1
    BY PartsAssumption
  <2> QED BY <2>1, <2>2
<1>2. L = {part[k] : k \in 1 .. Len(part)} \ {comma}
  BY <1>1 DEF Listing
<1>3. IsFiniteSet(L)
  <2>1. IsFiniteSet(1 .. Len(part))
    <3>1. 1 \in Int /\ Len(part) \in Int
      BY <1>1
    <3> QED BY <3>1, FS_Interval
  <2>2. IsFiniteSet({part[k] : k \in 1 .. Len(part)})
    BY <2>1, FiniteImage
  <2>3. L \subseteq {part[k] : k \in 1 .. Len(part)}
    BY <1>2
  <2> QED BY <2>2, <2>3, FS_Subset
<1>4. P = {Part(part, comma, n) : n \in 1 .. N} /\ IsFiniteSet(P)
  BY <1>1, ParseParts
<1>5. Stretches(part, comma)
  BY <1>1, PartsStretch
<1>6. /\ \A n \in 1 .. N :
           \/ Part(part, comma, n) = <<>>
           \/ \E i, j \in 1 .. Len(part) : /\ i <= j /\ part[i] # comma
                                           /\ Part(part, comma, n) = SubSeq(part, i, j)
      /\ \A k \in 1 .. Len(part) : part[k] # comma =>
           \E n \in 1 .. N : \E i, j \in 1 .. Len(part) :
             i <= k /\ k <= j /\ Part(part, comma, n) = SubSeq(part, i, j)
  <2> HIDE DEF comma
  <2> QED BY <1>5 DEF Stretches
<1>7. /\ Many(P) <=> \E x \in P, y \in P : x # y
      /\ Cardinality(L) > 1 <=> \E x \in L, y \in L : x # y
  <2> HIDE DEF P, L
  <2>0. IsFiniteSet(P)
    BY <1>4
  <2>1. Cardinality(P) > 1 <=> \E x \in P, y \in P : x # y
    BY <2>0, TwoMembers
  <2>2. Cardinality(L) > 1 <=> \E x \in L, y \in L : x # y
    BY <1>3, TwoMembers
  <2> QED BY <2>1, <2>2 DEF Many
<1> HIDE DEF L, P, comma, N
<1> SUFFICES /\ Known(P) /\ Many(P) <=> Cardinality(L) > 1 /\ L \subseteq Entities
             /\ \A e : P = {<<e>>} <=> L = {e}
  BY DEF Lists, P, L
<1>8. CASE L = {}
  <2>1. \A k \in 1 .. Len(part) : part[k] = comma
    BY <1>2, <1>8
  <2>2. \A t \in P : t = <<>>
    BY <1>4, <1>6, <2>1
  <2>3. \A e : <<e>> # <<>>
    OBVIOUS
  <2> QED BY <1>7, <1>8, <2>2, <2>3
<1>9. CASE \A token \in P : Len(token) = 1
  <2>1. ASSUME NEW t \in P PROVE \E w \in L : t = <<w>>
    <3>1. PICK n \in 1 .. N : t = Part(part, comma, n)
      BY <1>4
    <3>2. t # <<>> /\ Len(t) = 1
      BY <1>9
    <3>3. PICK i, j \in 1 .. Len(part) : i <= j /\ part[i] # comma /\ t = SubSeq(part, i, j)
      BY <1>6, <3>1, <3>2
    <3>4. t = <<part[i]>>
      BY <1>1, <3>2, <3>3, OneCharacter
    <3> QED BY <1>2, <3>3, <3>4
  <2>2. ASSUME NEW w \in L PROVE <<w>> \in P
    <3>1. PICK k \in 1 .. Len(part) : w = part[k] /\ part[k] # comma
      BY <1>2
    <3>2. PICK n \in 1 .. N : \E i, j \in 1 .. Len(part) :
            i <= k /\ k <= j /\ Part(part, comma, n) = SubSeq(part, i, j)
      BY <1>6, <3>1
    <3>3. PICK i, j \in 1 .. Len(part) :
            i <= k /\ k <= j /\ Part(part, comma, n) = SubSeq(part, i, j)
      BY <3>2
    <3>4. SubSeq(part, i, j) \in P
      BY <1>4, <3>3
    <3>5. Len(SubSeq(part, i, j)) = 1
      BY <1>9, <3>4
    <3>6. i <= j
      BY <3>3
    <3>7. i = j /\ SubSeq(part, i, j) = <<part[i]>>
      BY <1>1, <3>5, <3>6, OneCharacter
    <3>8. k = i
      BY <3>3, <3>7
    <3> QED BY <3>1, <3>4, <3>7, <3>8
  <2>3. \A v, w : <<v>> = <<w>> => v = w
    OBVIOUS
  <2>4. Known(P) <=> L \subseteq Entities
    <3>1. ASSUME Known(P), NEW w \in L PROVE w \in Entities
      <4>1. <<w>> \in {<<e>> : e \in Entities}
        BY <2>2, <3>1 DEF Known
      <4> QED BY <2>3, <4>1
    <3>2. ASSUME L \subseteq Entities PROVE Known(P)
      BY <2>1, <3>2 DEF Known
    <3> QED BY <3>1, <3>2
  <2>5. (\E x \in P, y \in P : x # y) <=> (\E x \in L, y \in L : x # y)
    BY <2>1, <2>2, <2>3
  <2>6. ASSUME NEW e PROVE P = {<<e>>} <=> L = {e}
    <3>1. ASSUME P = {<<e>>} PROVE L = {e}
      <4>1. \A w \in L : w = e
        BY <2>2, <2>3, <3>1
      <4>2. e \in L
        BY <2>1, <2>3, <3>1
      <4> QED BY <4>1, <4>2
    <3>2. ASSUME L = {e} PROVE P = {<<e>>}
      <4>1. \A t \in P : t = <<e>>
        BY <2>1, <3>2
      <4>2. <<e>> \in P
        BY <2>2, <3>2
      <4> QED BY <4>1, <4>2
    <3> QED BY <3>1, <3>2
  <2> QED BY <1>7, <2>4, <2>5, <2>6
<1> QED BY <1>1, <1>8, <1>9

----------------------------------------------------------------------------
(* Refusals.  Every resource can be read, so a path is one exactly if GET is *)
(* served there.                                                            *)

\* What a call tells of the path does not depend on the method, and GET is among the
\* methods that are served, if any.
Tells(r, get) ==
  /\ r.uri = get.uri /\ (get.uri <=> get.call # None)
  /\ r.call # None => r.uri

\* A resource can be read, and every method has a call.
Methodical(calls) == "GET" \in DOMAIN calls /\ \A m \in DOMAIN calls : calls[m] # None

\* The end of a path tells the same for every method.
LEMMA LeafTells ==
  ASSUME NEW m \in Methods, NEW calls, Methodical(calls)
  PROVE  Tells(Leaf(m, calls), Leaf("GET", calls))
BY DEF Leaf, Tells, Methodical

\* So does a miss.
LEMMA MissTells == Tells(Miss, Miss)
BY DEF Miss, Tells

\* The same, for each of the requests.
LEMMA ReadTells ==
  ASSUME NEW m \in Methods, NEW p, NEW get, get # None
  PROVE  Tells(ReadRequest(m, p, get), ReadRequest("GET", p, get))
<1>1. Methodical([GET |-> get])
  BY DEF Methodical
<1> QED BY <1>1, LeafTells, MissTells DEF ReadRequest

\* Markets.
LEMMA MarketTells ==
  ASSUME NEW m \in Methods, NEW p
  PROVE  Tells(MarketRequest(m, p), MarketRequest("GET", p))
<1>1. /\ Methodical([GET |-> "getMarket", POST |-> "postMarket"])
      /\ Methodical([GET |-> "getMarket", PUT |-> "putMarket"])
  BY DEF Methodical, None
<1>2. CASE p = <<>>
  BY <1>1, <1>2, LeafTells DEF MarketRequest
<1>3. CASE p # <<>> /\ Len(p) = 1
  BY <1>1, <1>3, LeafTells DEF MarketRequest
<1>4. CASE p # <<>> /\ Len(p) # 1
  BY <1>4, MissTells DEF MarketRequest
<1> QED BY <1>2, <1>3, <1>4

\* Traders.
LEMMA TraderTells ==
  ASSUME NEW m \in Methods, NEW p
  PROVE  Tells(TraderRequest(m, p), TraderRequest("GET", p))
<1>1. /\ Methodical([GET |-> "getTrader", POST |-> "postTrader"])
      /\ Methodical([GET |-> "getTrader", PUT |-> "putTrader"])
  BY DEF Methodical, None
<1>2. CASE p = <<>>
  BY <1>1, <1>2, LeafTells DEF TraderRequest
<1>3. CASE p # <<>> /\ Len(p) = 1
  BY <1>1, <1>3, LeafTells DEF TraderRequest
<1>4. CASE p # <<>> /\ Len(p) # 1
  BY <1>4, MissTells DEF TraderRequest
<1> QED BY <1>2, <1>3, <1>4

\* Orders.
LEMMA OrderTells ==
  ASSUME NEW m \in Methods, NEW p
  PROVE  Tells(OrderRequest(m, p), OrderRequest("GET", p))
<1>1. /\ Methodical([GET |-> "getOrder"])
      /\ Methodical([GET |-> "getOrder", POST |-> "postOrder"])
      /\ Methodical([GET |-> "getOrder", PUT |-> "putOrder", DELETE |-> "deleteOrder"])
  BY DEF Methodical, None
<1>2. CASE p = <<>>
  BY <1>1, <1>2, LeafTells DEF OrderRequest
<1>3. CASE p # <<>> /\ Len(p) = 1
  BY <1>1, <1>3, LeafTells DEF OrderRequest
<1>4. CASE p # <<>> /\ Len(p) = 2
  BY <1>1, <1>4, LeafTells DEF OrderRequest
<1>5. CASE p # <<>> /\ Len(p) \notin {1, 2}
  BY <1>5, MissTells DEF OrderRequest
<1> QED BY <1>2, <1>3, <1>4, <1>5

\* Trades.
LEMMA TradeTells ==
  ASSUME NEW m \in Methods, NEW p
  PROVE  Tells(TradeRequest(m, p), TradeRequest("GET", p))
<1>1. /\ Methodical([GET |-> "getTrade"])
      /\ Methodical([GET |-> "getTrade", POST |-> "postTrade"])
      /\ Methodical([GET |-> "getTrade", DELETE |-> "deleteTrade"])
  BY DEF Methodical, None
<1>2. CASE p = <<>>
  BY <1>1, <1>2, LeafTells DEF TradeRequest
<1>3. CASE p # <<>> /\ Len(p) = 1
  BY <1>1, <1>3, LeafTells DEF TradeRequest
<1>4. CASE p # <<>> /\ Len(p) = 2
  BY <1>1, <1>4, LeafTells DEF TradeRequest
<1>5. CASE p # <<>> /\ Len(p) \notin {1, 2}
  BY <1>5, MissTells DEF TradeRequest
<1> QED BY <1>2, <1>3, <1>4, <1>5

\* Positions.
LEMMA PosnTells ==
  ASSUME NEW m \in Methods, NEW p
  PROVE  Tells(PosnRequest(m, p), PosnRequest("GET", p))
<1>1. Methodical([GET |-> "getPosn"])
  BY DEF Methodical, None
<1> QED BY <1>1, LeafTells, MissTells DEF PosnRequest

\* Lists.
LEMMA ListTells ==
  ASSUME NEW m \in Methods, NEW p, NEW get, get # None
  PROVE  Tells(ListRequest(m, p, get), ListRequest("GET", p, get))
<1>1. Methodical([GET |-> get])
  BY DEF Methodical
<1> QED BY <1>1, LeafTells, MissTells DEF ListRequest

\* One entity is not many, and is not another one.
LEMMA OneEntity ==
  /\ \A e : ~Many({e})
  /\ \A a, b : {<<a>>} = {<<b>>} => a = b
<1>1. \A e : Cardinality({e}) = 1
  BY FS_Singleton
<1>2. ASSUME NEW a, NEW b, {<<a>>} = {<<b>>} PROVE a = b
  <2>1. <<a>> = <<b>>
    BY <1>2
  <2> QED BY <2>1
<1>3. \A e : ~Many({e})
  BY <1>1 DEF Many
<1> QED BY <1>2, <1>3

\* The cases of a request with the entities es below the path's first part.
LEMMA RecTells ==
  ASSUME NEW m \in Methods, NEW p
  PROVE  Tells(RecRequest(m, p), RecRequest("GET", p))
<1> DEFINE es == Parse(p[1])
<1>0. {"getRec", "getAsset", "getContr"} \cap {None} = {}
  BY DEF None
<1>9. /\ \A e : ~Many({e})
      /\ {<<"asset">>} # {<<"contr">>}
      /\ {<<"asset">>} # {<<"market">>}
      /\ {<<"asset">>} # {<<"trader">>}
      /\ {<<"contr">>} # {<<"market">>}
      /\ {<<"contr">>} # {<<"trader">>}
      /\ {<<"market">>} # {<<"trader">>}
  BY OneEntity, Zenon
<1>1. CASE p = <<>>
  <2>1. Methodical([GET |-> "getRec"])
    BY DEF Methodical, None
  <2> QED BY <1>1, <2>1, LeafTells DEF RecRequest
<1>2. CASE p # <<>> /\ Known(es) /\ Many(es)
  BY <1>9, <1>0, <1>2, ListTells DEF RecRequest
<1>3. CASE p # <<>> /\ ~(Known(es) /\ Many(es)) /\ es = {<<"asset">>}
  BY <1>9, <1>0, <1>3, ReadTells DEF RecRequest
<1>4. CASE p # <<>> /\ ~(Known(es) /\ Many(es)) /\ es = {<<"contr">>}
  BY <1>9, <1>0, <1>4, ReadTells DEF RecRequest
<1>5. CASE p # <<>> /\ ~(Known(es) /\ Many(es)) /\ es = {<<"market">>}
  BY <1>9, <1>5, MarketTells DEF RecRequest
<1>6. CASE p # <<>> /\ ~(Known(es) /\ Many(es)) /\ es = {<<"trader">>}
  BY <1>9, <1>6, TraderTells DEF RecRequest
<1>7. CASE /\ p # <<>> /\ ~(Known(es) /\ Many(es))
           /\ es \notin {{<<"asset">>}, {<<"contr">>}, {<<"market">>}, {<<"trader">>}}
  BY <1>9, <1>7, MissTells DEF RecRequest
<1> QED BY <1>1, <1>2, <1>3, <1>4, <1>5, <1>6, <1>7

\* The same below the other name.
LEMMA SessTells ==
  ASSUME NEW m \in Methods, NEW p
  PROVE  Tells(SessRequest(m, p), SessRequest("GET", p))
<1> DEFINE es == Parse(p[1])
<1>0. {"getSess", "getView"} \cap {None} = {}
  BY DEF None
<1>9. /\ \A e : ~Many({e})
      /\ {<<"order">>} # {<<"trade">>}
      /\ {<<"order">>} # {<<"posn">>}
      /\ {<<"order">>} # {<<"view">>}
      /\ {<<"trade">>} # {<<"posn">>}
      /\ {<<"trade">>} # {<<"view">>}
      /\ {<<"posn">>} # {<<"view">>}
  BY OneEntity, Zenon
<1>1. CASE p = <<>>
  <2>1. Methodical([GET |-> "getSess"])
    BY DEF Methodical, None
  <2> QED BY <1>1, <2>1, LeafTells DEF SessRequest
<1>2. CASE p # <<>> /\ Known(es) /\ Many(es)
  BY <1>9, <1>0, <1>2, ListTells DEF SessRequest
<1>3. CASE p # <<>> /\ ~(Known(es) /\ Many(es)) /\ es = {<<"order">>}
  BY <1>9, <1>0, <1>3, OrderTells DEF SessRequest
<1>4. CASE p # <<>> /\ ~(Known(es) /\ Many(es)) /\ es = {<<"trade">>}
  BY <1>9, <1>0, <1>4, TradeTells DEF SessRequest
<1>5. CASE p # <<>> /\ ~(Known(es) /\ Many(es)) /\ es = {<<"posn">>}
  BY <1>9, <1>5, PosnTells DEF SessRequest
<1>6. CASE p # <<>> /\ ~(Known(es) /\ Many(es)) /\ es = {<<"view">>}
  BY <1>9, <1>0, <1>6, ReadTells DEF SessRequest
<1>7. CASE /\ p # <<>> /\ ~(Known(es) /\ Many(es))
           /\ es \notin {{<<"order">>}, {<<"trade">>}, {<<"posn">>}, {<<"view">>}}
  BY <1>9, <1>7, MissTells DEF SessRequest
<1> QED BY <1>1, <1>2, <1>3, <1>4, <1>5, <1>6, <1>7

\* The same for every path.
LEMMA RestTells ==
  ASSUME NEW m \in Methods, NEW p
  PROVE  Tells(RestRequest(m, p), RestRequest("GET", p))
<1>0. "getView" # None
  BY DEF None
<1>1. CASE p # <<>> /\ p[1] = <<"rec">>
  BY <1>1, RecTells DEF RestRequest
<1>2. CASE p # <<>> /\ p[1] = <<"sess">>
  BY <1>2, SessTells DEF RestRequest
<1>3. CASE p # <<>> /\ p[1] = <<"view">>
  BY <1>0, <1>3, ReadTells DEF RestRequest
<1>4. CASE p = <<>> \/ p[1] \notin {<<"rec">>, <<"sess">>, <<"view">>}
  BY <1>4, MissTells DEF RestRequest
<1> QED BY <1>1, <1>2, <1>3, <1>4

\* On every URI: a client is told that a method is not allowed exactly where another
\* one is, and that there is nothing exactly where no method is served.
THEOREM RefusalsAreTrue == Spec => []RefusalsTellWhatIsThere
<1>1. RefusalsTellWhatIsThere
  <2> SUFFICES ASSUME NEW m \in Methods
               PROVE  /\ MethodNotAllowed(m, uri) <=>
                           ~Served(m, uri) /\ \E other \in Methods : Served(other, uri)
                      /\ NotFound(m, uri) <=> \A other \in Methods : ~Served(other, uri)
    BY DEF RefusalsTellWhatIsThere
  <2> DEFINE get == Route("GET", uri)
  <2>1. \A n \in Methods : Tells(Route(n, uri), get)
    BY RestTells DEF Route
  <2>2. "GET" \in Methods
    BY DEF Methods
  <2> QED BY <2>1, <2>2 DEF Tells, MethodNotAllowed, NotFound, Served
<1> QED BY <1>1, PTL

----------------------------------------------------------------------------
(* What is accepted: a list stands for what it comes to.                   *)

Comes(p, names, least, most) ==
  /\ Len(p) \in Len(names) + least..Len(names) + most
  /\ p[1] = <<names[1]>>
  /\ Len(names) = 2 => Listing(p[2]) = {names[2]}

Several(p) ==
  /\ Len(p) = 2 /\ p[1] \in {<<"rec">>, <<"sess">>}
  /\ Cardinality(Listing(p[2])) > 1 /\ Listing(p[2]) \subseteq Entities

Resources(m, p) == \E r \in Listed : m = r.method /\ Comes(p, r.names, r.least, r.most)

Accepted(m, p) == Resources(m, p) \/ (m = "GET" /\ Several(p))

\* A path below a name, with a list behind it.
One(p, x, least, most) == p[1] = <<x>> /\ Len(p) \in 1 + least .. 1 + most
Two(p, x, y, least, most) ==
  p[1] = <<x>> /\ Len(p) \in 2 + least .. 2 + most /\ Listing(p[2]) = {y}

\* They are what Comes says of one name and of two.
LEMMA NamesCome ==
  ASSUME NEW p, NEW least \in Int, NEW most \in Int
  PROVE  /\ \A x : Comes(p, <<x>>, least, most) <=> One(p, x, least, most)
         /\ \A x, y : Comes(p, <<x, y>>, least, most) <=> Two(p, x, y, least, most)
<1>1. ASSUME NEW x PROVE Comes(p, <<x>>, least, most) <=> One(p, x, least, most)
  BY DEF Comes, One
<1>2. ASSUME NEW x, NEW y
      PROVE  Comes(p, <<x, y>>, least, most) <=> Two(p, x, y, least, most)
  BY DEF Comes, Two
<1> QED BY <1>1, <1>2

\* The listed resources, one by one.
LEMMA ListedOneByOne ==
  ASSUME NEW m, NEW p
  PROVE  Resources(m, p) <=>
           \/ m = "GET" /\ One(p, "rec", 0, 0)
           \/ m = "GET" /\ Two(p, "rec", "asset", 0, 1)
           \/ m = "GET" /\ Two(p, "rec", "contr", 0, 1)
           \/ m = "GET" /\ Two(p, "rec", "market", 0, 1)
           \/ m = "POST" /\ Two(p, "rec", "market", 0, 0)
           \/ m = "PUT" /\ Two(p, "rec", "market", 1, 1)
           \/ m = "GET" /\ Two(p, "rec", "trader", 0, 1)
           \/ m = "POST" /\ Two(p, "rec", "trader", 0, 0)
           \/ m = "PUT" /\ Two(p, "rec", "trader", 1, 1)
           \/ m = "GET" /\ One(p, "sess", 0, 0)
           \/ m = "GET" /\ Two(p, "sess", "order", 0, 2)
           \/ m = "POST" /\ Two(p, "sess", "order", 1, 1)
           \/ m = "PUT" /\ Two(p, "sess", "order", 2, 2)
           \/ m = "DELETE" /\ Two(p, "sess", "order", 2, 2)
           \/ m = "GET" /\ Two(p, "sess", "trade", 0, 2)
           \/ m = "POST" /\ Two(p, "sess", "trade", 1, 1)
           \/ m = "DELETE" /\ Two(p, "sess", "trade", 2, 2)
           \/ m = "GET" /\ Two(p, "sess", "posn", 0, 2)
           \/ m = "GET" /\ Two(p, "sess", "view", 0, 1)
           \/ m = "GET" /\ One(p, "view", 0, 1)
<1> DEFINE B(names, least, most) == Comes(p, names, least, most)
<1>1. Resources(m, p) <=>
        \/ m = "GET" /\ B(<<"rec">>, 0, 0)
        \/ m = "GET" /\ B(<<"rec", "asset">>, 0, 1)
        \/ m = "GET" /\ B(<<"rec", "contr">>, 0, 1)
        \/ m = "GET" /\ B(<<"rec", "market">>, 0, 1)
        \/ m = "POST" /\ B(<<"rec", "market">>, 0, 0)
        \/ m = "PUT" /\ B(<<"rec", "market">>, 1, 1)
        \/ m = "GET" /\ B(<<"rec", "trader">>, 0, 1)
        \/ m = "POST" /\ B(<<"rec", "trader">>, 0, 0)
        \/ m = "PUT" /\ B(<<"rec", "trader">>, 1, 1)
        \/ m = "GET" /\ B(<<"sess">>, 0, 0)
        \/ m = "GET" /\ B(<<"sess", "order">>, 0, 2)
        \/ m = "POST" /\ B(<<"sess", "order">>, 1, 1)
        \/ m = "PUT" /\ B(<<"sess", "order">>, 2, 2)
        \/ m = "DELETE" /\ B(<<"sess", "order">>, 2, 2)
        \/ m = "GET" /\ B(<<"sess", "trade">>, 0, 2)
        \/ m = "POST" /\ B(<<"sess", "trade">>, 1, 1)
        \/ m = "DELETE" /\ B(<<"sess", "trade">>, 2, 2)
        \/ m = "GET" /\ B(<<"sess", "posn">>, 0, 2)
        \/ m = "GET" /\ B(<<"sess", "view">>, 0, 1)
        \/ m = "GET" /\ B(<<"view">>, 0, 1)
  BY DEF Resources, Listed, Resource
<1>2. \A least \in Int, most \in Int :
        /\ \A x : B(<<x>>, least, most) <=> One(p, x, least, most)
        /\ \A x, y : B(<<x, y>>, least, most) <=> Two(p, x, y, least, most)
  BY NamesCome
<1>3. 0 \in Int /\ 1 \in Int /\ 2 \in Int
  OBVIOUS
<1> HIDE DEF B
<1> QED BY <1>1, <1>2, <1>3

\* What is behind a first name.
LEMMA AcceptedRec ==
  ASSUME NEW W, NEW p \in Seq(Seq(W)), p # <<>>, p[1] = <<"rec">>, NEW m
  PROVE  Accepted(m, p) <=>
           \/ m = "GET" /\ Len(p) = 1
           \/ /\ m = "GET" /\ Len(p) \in 2 .. 3
              /\ Listing(p[2]) \in {{"asset"}, {"contr"}, {"market"}, {"trader"}}
           \/ m = "POST" /\ Len(p) = 2 /\ Listing(p[2]) \in {{"market"}, {"trader"}}
           \/ m = "PUT" /\ Len(p) = 3 /\ Listing(p[2]) \in {{"market"}, {"trader"}}
           \/ /\ m = "GET" /\ Len(p) = 2
              /\ Cardinality(Listing(p[2])) > 1 /\ Listing(p[2]) \subseteq Entities
<1>1. Len(p) \in Nat
  OBVIOUS
<1>2. <<"rec">> # <<"sess">> /\ <<"rec">> # <<"view">>
  OBVIOUS
<1>3. Several(p) <=>
        /\ Len(p) = 2 /\ Cardinality(Listing(p[2])) > 1
        /\ Listing(p[2]) \subseteq Entities
  BY DEF Several
<1>4. /\ \A a, b : ~ One(p, "sess", a, b) /\ ~ One(p, "view", a, b)
      /\ \A a, b, y : ~ Two(p, "sess", y, a, b)
      /\ One(p, "rec", 0, 0) <=> Len(p) = 1
      /\ \A y : /\ Two(p, "rec", y, 0, 0) <=> Len(p) = 2 /\ Listing(p[2]) = {y}
                /\ Two(p, "rec", y, 1, 1) <=> Len(p) = 3 /\ Listing(p[2]) = {y}
                /\ Two(p, "rec", y, 0, 1) <=> Len(p) \in 2 .. 3 /\ Listing(p[2]) = {y}
  BY <1>1, <1>2 DEF One, Two
<1>5. Resources(m, p) <=>
           \/ m = "GET" /\ One(p, "rec", 0, 0)
           \/ m = "GET" /\ Two(p, "rec", "asset", 0, 1)
           \/ m = "GET" /\ Two(p, "rec", "contr", 0, 1)
           \/ m = "GET" /\ Two(p, "rec", "market", 0, 1)
           \/ m = "POST" /\ Two(p, "rec", "market", 0, 0)
           \/ m = "PUT" /\ Two(p, "rec", "market", 1, 1)
           \/ m = "GET" /\ Two(p, "rec", "trader", 0, 1)
           \/ m = "POST" /\ Two(p, "rec", "trader", 0, 0)
           \/ m = "PUT" /\ Two(p, "rec", "trader", 1, 1)
  BY <1>4, ListedOneByOne
<1> QED BY <1>3, <1>4, <1>5 DEF Accepted

\* The same below the other name.
LEMMA AcceptedSess ==
  ASSUME NEW W, NEW p \in Seq(Seq(W)), p # <<>>, p[1] = <<"sess">>, NEW m
  PROVE  Accepted(m, p) <=>
           \/ m = "GET" /\ Len(p) = 1
           \/ /\ m = "GET" /\ Len(p) \in 2 .. 4
              /\ Listing(p[2]) \in {{"order"}, {"trade"}, {"posn"}}
           \/ m = "GET" /\ Len(p) \in 2 .. 3 /\ Listing(p[2]) = {"view"}
           \/ m = "POST" /\ Len(p) = 3 /\ Listing(p[2]) \in {{"order"}, {"trade"}}
           \/ m = "PUT" /\ Len(p) = 4 /\ Listing(p[2]) = {"order"}
           \/ m = "DELETE" /\ Len(p) = 4 /\ Listing(p[2]) \in {{"order"}, {"trade"}}
           \/ /\ m = "GET" /\ Len(p) = 2
              /\ Cardinality(Listing(p[2])) > 1 /\ Listing(p[2]) \subseteq Entities
<1>1. Len(p) \in Nat
  OBVIOUS
<1>2. <<"sess">> # <<"rec">> /\ <<"sess">> # <<"view">>
  OBVIOUS
<1>3. Several(p) <=>
        /\ Len(p) = 2 /\ Cardinality(Listing(p[2])) > 1
        /\ Listing(p[2]) \subseteq Entities
  BY DEF Several
<1>4. /\ \A a, b : ~ One(p, "rec", a, b) /\ ~ One(p, "view", a, b)
      /\ \A a, b, y : ~ Two(p, "rec", y, a, b)
      /\ One(p, "sess", 0, 0) <=> Len(p) = 1
      /\ \A y : /\ Two(p, "sess", y, 1, 1) <=> Len(p) = 3 /\ Listing(p[2]) = {y}
                /\ Two(p, "sess", y, 2, 2) <=> Len(p) = 4 /\ Listing(p[2]) = {y}
                /\ Two(p, "sess", y, 0, 1) <=> Len(p) \in 2 .. 3 /\ Listing(p[2]) = {y}
                /\ Two(p, "sess", y, 0, 2) <=> Len(p) \in 2 .. 4 /\ Listing(p[2]) = {y}
  BY <1>1, <1>2 DEF One, Two
<1>5. Resources(m, p) <=>
           \/ m = "GET" /\ One(p, "sess", 0, 0)
           \/ m = "GET" /\ Two(p, "sess", "order", 0, 2)
           \/ m = "POST" /\ Two(p, "sess", "order", 1, 1)
           \/ m = "PUT" /\ Two(p, "sess", "order", 2, 2)
           \/ m = "DELETE" /\ Two(p, "sess", "order", 2, 2)
           \/ m = "GET" /\ Two(p, "sess", "trade", 0, 2)
           \/ m = "POST" /\ Two(p, "sess", "trade", 1, 1)
           \/ m = "DELETE" /\ Two(p, "sess", "trade", 2, 2)
           \/ m = "GET" /\ Two(p, "sess", "posn", 0, 2)
           \/ m = "GET" /\ Two(p, "sess", "view", 0, 1)
  BY <1>4, ListedOneByOne
<1> QED BY <1>3, <1>4, <1>5 DEF Accepted

\* Below no other name is there more than the view.
LEMMA AcceptedElse ==
  ASSUME NEW W, NEW p \in Seq(Seq(W)), NEW m,
         p = <<>> \/ p[1] \notin {<<"rec">>, <<"sess">>}
  PROVE  Accepted(m, p) <=> p # <<>> /\ p[1] = <<"view">> /\ m = "GET" /\ Len(p) \in 1 .. 2
<1>1. Len(p) \in Nat /\ (p = <<>> <=> Len(p) = 0)
  OBVIOUS
<1>0. p = <<>> \/ (p # <<>> /\ p[1] # <<"rec">> /\ p[1] # <<"sess">>)
  OBVIOUS
<1>2. ~ Several(p)
  <2>1. CASE p = <<>>
    BY <1>1, <2>1 DEF Several
  <2>2. CASE p[1] # <<"rec">> /\ p[1] # <<"sess">>
    BY <2>2 DEF Several
  <2> QED BY <1>0, <2>1, <2>2
<1>3. /\ \A y : /\ ~ Two(p, "rec", y, 0, 0) /\ ~ Two(p, "rec", y, 0, 1) /\ ~ Two(p, "rec", y, 1, 1)
                /\ ~ Two(p, "sess", y, 1, 1) /\ ~ Two(p, "sess", y, 2, 2)
                /\ ~ Two(p, "sess", y, 0, 1) /\ ~ Two(p, "sess", y, 0, 2)
      /\ ~ One(p, "rec", 0, 0) /\ ~ One(p, "sess", 0, 0)
      /\ One(p, "view", 0, 1) <=> p # <<>> /\ p[1] = <<"view">> /\ Len(p) \in 1 .. 2
  <2>1. CASE p = <<>>
    <3>1. Len(p) = 0
      BY <2>1
    <3> QED BY <2>1, <3>1 DEF One, Two
  <2>2. CASE p # <<>> /\ p[1] # <<"rec">> /\ p[1] # <<"sess">>
    BY <1>1, <2>2 DEF One, Two
  <2> QED BY <1>0, <2>1, <2>2
<1>4. Resources(m, p) <=>
         m = "GET" /\ One(p, "view", 0, 1)
  BY <1>3, ListedOneByOne
<1> QED BY <1>2, <1>3, <1>4 DEF Accepted

----------------------------------------------------------------------------
(* What is served.                                                         *)

\* A call is made.
Serves(r) == r.call # None

\* At the end of a path: for the methods that it lists.
LEMMA LeafServes ==
  ASSUME NEW m, NEW calls, Methodical(calls)
  PROVE  Serves(Leaf(m, calls)) <=> m \in DOMAIN calls
BY DEF Leaf, Serves, Methodical

\* Nowhere else.
LEMMA MissServes == ~ Serves(Miss)
BY DEF Miss, Serves

\* What can only be read: all of it, one, or a list.
LEMMA ReadServes ==
  ASSUME NEW m, NEW p, NEW get, get # None
  PROVE  /\ Serves(ReadRequest(m, p, get)) <=> m = "GET" /\ Len(p) <= 1
         /\ Serves(ListRequest(m, p, get)) <=> m = "GET" /\ Len(p) = 1
<1>1. Methodical([GET |-> get]) /\ DOMAIN [GET |-> get] = {"GET"}
  BY DEF Methodical
<1>2. Serves(Leaf(m, [GET |-> get])) <=> m = "GET"
  BY <1>1, LeafServes
<1> QED BY <1>2, MissServes DEF ReadRequest, ListRequest

\* Markets: created below the name, changed at their own path.
LEMMA MarketServes ==
  ASSUME NEW m, NEW W, NEW p \in Seq(Seq(W))
  PROVE  Serves(MarketRequest(m, p)) <=>
           \/ m = "GET" /\ Len(p) \in 0 .. 1
           \/ m = "POST" /\ Len(p) = 0
           \/ m = "PUT" /\ Len(p) = 1
<1>0. Len(p) \in Nat /\ (p = <<>> <=> Len(p) = 0)
  OBVIOUS
<1>1. /\ Methodical([GET |-> "getMarket", POST |-> "postMarket"])
      /\ Methodical([GET |-> "getMarket", PUT |-> "putMarket"])
      /\ DOMAIN [GET |-> "getMarket", POST |-> "postMarket"] = {"GET", "POST"}
      /\ DOMAIN [GET |-> "getMarket", PUT |-> "putMarket"] = {"GET", "PUT"}
  BY DEF Methodical, None
<1>2. /\ Serves(Leaf(m, [GET |-> "getMarket", POST |-> "postMarket"])) <=> m \in {"GET", "POST"}
      /\ Serves(Leaf(m, [GET |-> "getMarket", PUT |-> "putMarket"])) <=> m \in {"GET", "PUT"}
  BY <1>1, LeafServes
<1>3. CASE p = <<>>
  <2>1. Len(p) = 0
    BY <1>0, <1>3
  <2>2. MarketRequest(m, p) = Leaf(m, [GET |-> "getMarket", POST |-> "postMarket"])
    BY <1>3 DEF MarketRequest
  <2> QED BY <1>2, <2>1, <2>2
<1>4. CASE p # <<>> /\ Len(p) = 1
  <2>1. MarketRequest(m, p) = Leaf(m, [GET |-> "getMarket", PUT |-> "putMarket"])
    BY <1>4 DEF MarketRequest
  <2> QED BY <1>2, <1>4, <2>1
<1>5. CASE p # <<>> /\ Len(p) # 1
  <2>1. MarketRequest(m, p) = Miss
    BY <1>5 DEF MarketRequest
  <2> QED BY <1>0, <1>5, <2>1, MissServes
<1> QED BY <1>3, <1>4, <1>5

\* Traders: likewise.
LEMMA TraderServes ==
  ASSUME NEW m, NEW W, NEW p \in Seq(Seq(W))
  PROVE  Serves(TraderRequest(m, p)) <=>
           \/ m = "GET" /\ Len(p) \in 0 .. 1
           \/ m = "POST" /\ Len(p) = 0
           \/ m = "PUT" /\ Len(p) = 1
<1>0. Len(p) \in Nat /\ (p = <<>> <=> Len(p) = 0)
  OBVIOUS
<1>1. /\ Methodical([GET |-> "getTrader", POST |-> "postTrader"])
      /\ Methodical([GET |-> "getTrader", PUT |-> "putTrader"])
      /\ DOMAIN [GET |-> "getTrader", POST |-> "postTrader"] = {"GET", "POST"}
      /\ DOMAIN [GET |-> "getTrader", PUT |-> "putTrader"] = {"GET", "PUT"}
  BY DEF Methodical, None
<1>2. /\ Serves(Leaf(m, [GET |-> "getTrader", POST |-> "postTrader"])) <=> m \in {"GET", "POST"}
      /\ Serves(Leaf(m, [GET |-> "getTrader", PUT |-> "putTrader"])) <=> m \in {"GET", "PUT"}
  BY <1>1, LeafServes
<1>3. CASE p = <<>>
  <2>1. Len(p) = 0
    BY <1>0, <1>3
  <2>2. TraderRequest(m, p) = Leaf(m, [GET |-> "getTrader", POST |-> "postTrader"])
    BY <1>3 DEF TraderRequest
  <2> QED BY <1>2, <2>1, <2>2
<1>4. CASE p # <<>> /\ Len(p) = 1
  <2>1. TraderRequest(m, p) = Leaf(m, [GET |-> "getTrader", PUT |-> "putTrader"])
    BY <1>4 DEF TraderRequest
  <2> QED BY <1>2, <1>4, <2>1
<1>5. CASE p # <<>> /\ Len(p) # 1
  <2>1. TraderRequest(m, p) = Miss
    BY <1>5 DEF TraderRequest
  <2> QED BY <1>0, <1>5, <2>1, MissServes
<1> QED BY <1>3, <1>4, <1>5

\* Orders: created at a market, changed and withdrawn at their own path.
LEMMA OrderServes ==
  ASSUME NEW m, NEW W, NEW p \in Seq(Seq(W))
  PROVE  Serves(OrderRequest(m, p)) <=>
           \/ m = "GET" /\ Len(p) \in 0 .. 2
           \/ m = "POST" /\ Len(p) = 1
           \/ m \in {"PUT", "DELETE"} /\ Len(p) = 2
<1>0. Len(p) \in Nat /\ (p = <<>> <=> Len(p) = 0)
  OBVIOUS
<1> DEFINE l0 == [GET |-> "getOrder"]
           l1 == [GET |-> "getOrder", POST |-> "postOrder"]
           l2 == [GET |-> "getOrder", PUT |-> "putOrder", DELETE |-> "deleteOrder"]
<1>1. /\ Methodical(l0) /\ Methodical(l1) /\ Methodical(l2)
      /\ DOMAIN l0 = {"GET"} /\ DOMAIN l1 = {"GET", "POST"}
      /\ DOMAIN l2 = {"GET", "PUT", "DELETE"}
  BY DEF Methodical, None
<1>2. /\ Serves(Leaf(m, l0)) <=> m = "GET"
      /\ Serves(Leaf(m, l1)) <=> m \in {"GET", "POST"}
      /\ Serves(Leaf(m, l2)) <=> m \in {"GET", "PUT", "DELETE"}
  <2> HIDE DEF l0, l1, l2
  <2> QED BY <1>1, LeafServes
<1>3. CASE p = <<>>
  <2>1. Len(p) = 0
    BY <1>0, <1>3
  <2>2. OrderRequest(m, p) = Leaf(m, l0)
    BY <1>3 DEF OrderRequest
  <2> HIDE DEF l0
  <2> QED BY <1>2, <2>1, <2>2
<1>4. CASE p # <<>> /\ Len(p) = 1
  <2>1. OrderRequest(m, p) = Leaf(m, l1)
    BY <1>4 DEF OrderRequest
  <2> HIDE DEF l1
  <2> QED BY <1>2, <1>4, <2>1
<1>5. CASE p # <<>> /\ Len(p) = 2
  <2>1. OrderRequest(m, p) = Leaf(m, l2)
    BY <1>5 DEF OrderRequest
  <2> HIDE DEF l2
  <2> QED BY <1>2, <1>5, <2>1
<1>6. CASE p # <<>> /\ Len(p) \notin {1, 2}
  <2>1. OrderRequest(m, p) = Miss
    BY <1>6 DEF OrderRequest
  <2> QED BY <1>0, <1>6, <2>1, MissServes
<1> QED BY <1>3, <1>4, <1>5, <1>6

\* Trades: likewise, but they are not changed.
LEMMA TradeServes ==
  ASSUME NEW m, NEW W, NEW p \in Seq(Seq(W))
  PROVE  Serves(TradeRequest(m, p)) <=>
           \/ m = "GET" /\ Len(p) \in 0 .. 2
           \/ m = "POST" /\ Len(p) = 1
           \/ m = "DELETE" /\ Len(p) = 2
<1>0. Len(p) \in Nat /\ (p = <<>> <=> Len(p) = 0)
  OBVIOUS
<1> DEFINE l0 == [GET |-> "getTrade"]
           l1 == [GET |-> "getTrade", POST |-> "postTrade"]
           l2 == [GET |-> "getTrade", DELETE |-> "deleteTrade"]
<1>1. /\ Methodical(l0) /\ Methodical(l1) /\ Methodical(l2)
      /\ DOMAIN l0 = {"GET"} /\ DOMAIN l1 = {"GET", "POST"}
      /\ DOMAIN l2 = {"GET", "DELETE"}
  BY DEF Methodical, None
<1>2. /\ Serves(Leaf(m, l0)) <=> m = "GET"
      /\ Serves(Leaf(m, l1)) <=> m \in {"GET", "POST"}
      /\ Serves(Leaf(m, l2)) <=> m \in {"GET", "DELETE"}
  <2> HIDE DEF l0, l1, l2
  <2> QED BY <1>1, LeafServes
<1>3. CASE p = <<>>
  <2>1. Len(p) = 0
    BY <1>0, <1>3
  <2>2. TradeRequest(m, p) = Leaf(m, l0)
    BY <1>3 DEF TradeRequest
  <2> HIDE DEF l0
  <2> QED BY <1>2, <2>1, <2>2
<1>4. CASE p # <<>> /\ Len(p) = 1
  <2>1. TradeRequest(m, p) = Leaf(m, l1)
    BY <1>4 DEF TradeRequest
  <2> HIDE DEF l1
  <2> QED BY <1>2, <1>4, <2>1
<1>5. CASE p # <<>> /\ Len(p) = 2
  <2>1. TradeRequest(m, p) = Leaf(m, l2)
    BY <1>5 DEF TradeRequest
  <2> HIDE DEF l2
  <2> QED BY <1>2, <1>5, <2>1
<1>6. CASE p # <<>> /\ Len(p) \notin {1, 2}
  <2>1. TradeRequest(m, p) = Miss
    BY <1>6 DEF TradeRequest
  <2> QED BY <1>0, <1>6, <2>1, MissServes
<1> QED BY <1>3, <1>4, <1>5, <1>6

\* Positions: only read, at every depth.
LEMMA PosnServes ==
  ASSUME NEW m, NEW p
  PROVE  Serves(PosnRequest(m, p)) <=> m = "GET" /\ Len(p) <= 2
<1>1. Methodical([GET |-> "getPosn"]) /\ DOMAIN [GET |-> "getPosn"] = {"GET"}
  BY DEF Methodical, None
<1>2. Serves(Leaf(m, [GET |-> "getPosn"])) <=> m = "GET"
  BY <1>1, LeafServes
<1> QED BY <1>2, MissServes DEF PosnRequest

\* The cases of a request below the name rec, by what its part lists.
LEMMA RecServes ==
  ASSUME NEW m, NEW W, NEW p \in Seq(Seq(W)), p # <<>> => Lists(p[1])
  PROVE  Serves(RecRequest(m, p)) <=>
           \/ m = "GET" /\ Len(p) = 0
           \/ /\ m = "GET" /\ Len(p) \in 1 .. 2
              /\ Listing(p[1]) \in {{"asset"}, {"contr"}, {"market"}, {"trader"}}
           \/ m = "POST" /\ Len(p) = 1 /\ Listing(p[1]) \in {{"market"}, {"trader"}}
           \/ m = "PUT" /\ Len(p) = 2 /\ Listing(p[1]) \in {{"market"}, {"trader"}}
           \/ /\ m = "GET" /\ Len(p) = 1
              /\ Cardinality(Listing(p[1])) > 1 /\ Listing(p[1]) \subseteq Entities
<1> DEFINE es == Parse(p[1])
           L == Listing(p[1])
<1> SUFFICES Serves(RecRequest(m, p)) <=>
             \/ m = "GET" /\ Len(p) = 0
             \/ /\ m = "GET" /\ Len(p) \in 1 .. 2
                /\ L \in {{"asset"}, {"contr"}, {"market"}, {"trader"}}
             \/ m = "POST" /\ Len(p) = 1 /\ L \in {{"market"}, {"trader"}}
             \/ m = "PUT" /\ Len(p) = 2 /\ L \in {{"market"}, {"trader"}}
             \/ /\ m = "GET" /\ Len(p) = 1
                /\ Cardinality(L) > 1 /\ L \subseteq Entities
  OBVIOUS
<1>0. Len(p) \in Nat /\ (p = <<>> <=> Len(p) = 0)
  OBVIOUS
<1>1. CASE p = <<>>
  <2>1. Methodical([GET |-> "getRec"]) /\ DOMAIN [GET |-> "getRec"] = {"GET"}
    BY DEF Methodical, None
  <2>2. RecRequest(m, p) = Leaf(m, [GET |-> "getRec"])
    BY <1>1 DEF RecRequest
  <2> QED BY <1>0, <1>1, <2>1, <2>2, LeafServes
<1>2. ASSUME p # <<>>
      PROVE  /\ Known(es) /\ Many(es) <=> Cardinality(L) > 1 /\ L \subseteq Entities
             /\ \A e : es = {<<e>>} <=> L = {e}
             /\ \A e : L = {e} => ~ (Cardinality(L) > 1)
             /\ Tail(p) \in Seq(Seq(W)) /\ Len(Tail(p)) = Len(p) - 1
             /\ Len(p) >= 1
  <2>1. /\ Known(es) /\ Many(es) <=> Cardinality(L) > 1 /\ L \subseteq Entities
        /\ \A e : es = {<<e>>} <=> L = {e}
    BY <1>2 DEF Lists
  <2>2. \A e : L = {e} => ~ (Cardinality(L) > 1)
    <3>1. \A e : L = {e} => Cardinality(L) = 1
      BY FS_Singleton
    <3> HIDE DEF L
    <3> SUFFICES ASSUME NEW e, L = {e} PROVE ~ (Cardinality(L) > 1)
      OBVIOUS
    <3>2. Cardinality(L) = 1
      BY <3>1, Zenon
    <3> QED BY <3>2
  <2>3. Tail(p) \in Seq(Seq(W)) /\ Len(Tail(p)) = Len(p) - 1 /\ Len(p) >= 1
    BY <1>0, <1>2
  <2> HIDE DEF L, es
  <2> QED BY <2>1, <2>2, <2>3
<1>3. /\ \A e : ~Many({e})
      /\ {<<"asset">>} # {<<"contr">>}
      /\ {<<"asset">>} # {<<"market">>}
      /\ {<<"asset">>} # {<<"trader">>}
      /\ {<<"contr">>} # {<<"market">>}
      /\ {<<"contr">>} # {<<"trader">>}
      /\ {<<"market">>} # {<<"trader">>}
  BY OneEntity, Zenon
<1>4. CASE p # <<>> /\ Known(es) /\ Many(es)
  <2>1. RecRequest(m, p) = ListRequest(m, p, "getRec")
    BY <1>3, <1>4 DEF RecRequest
  <2>2. Serves(RecRequest(m, p)) <=> m = "GET" /\ Len(p) = 1
    BY <2>1, ReadServes DEF None
  <2>3. Cardinality(L) > 1 /\ L \subseteq Entities /\ \A e : L # {e}
    BY <1>2, <1>4
  <2> HIDE DEF L
  <2> QED BY <1>0, <1>4, <2>2, <2>3
<1>5. ASSUME NEW e \in {"asset", "contr"}, p # <<>>, es = {<<e>>}
      PROVE  /\ Serves(RecRequest(m, p)) <=> m = "GET" /\ Len(p) \in 1 .. 2
             /\ L = {e} /\ ~ (Cardinality(L) > 1) /\ Len(p) >= 1
  <2>1. RecRequest(m, p) \in {ReadRequest(m, Tail(p), "getAsset"), ReadRequest(m, Tail(p), "getContr")}
    BY <1>3, <1>5 DEF RecRequest
  <2>2. Serves(RecRequest(m, p)) <=> m = "GET" /\ Len(Tail(p)) <= 1
    BY <2>1, ReadServes DEF None
  <2>3. L = {e} /\ ~ (Cardinality(L) > 1) /\ Len(p) >= 1 /\ Len(Tail(p)) = Len(p) - 1
    BY <1>2, <1>5
  <2>4. Len(Tail(p)) <= 1 <=> Len(p) \in 1 .. 2
    <3> DEFINE n == Len(p)
               k == Len(Tail(p))
    <3>1. n \in Nat /\ k = n - 1 /\ n >= 1
      BY <1>0, <2>3
    <3> HIDE DEF n, k
    <3>2. k <= 1 <=> n \in 1 .. 2
      BY <3>1
    <3> QED BY <3>2 DEF n, k
  <2> HIDE DEF L
  <2> QED BY <2>2, <2>3, <2>4
<1>6. ASSUME NEW e \in {"market", "trader"}, p # <<>>, es = {<<e>>}
      PROVE  /\ Serves(RecRequest(m, p)) <=>
                  \/ m = "GET" /\ Len(p) \in 1 .. 2
                  \/ m = "POST" /\ Len(p) = 1
                  \/ m = "PUT" /\ Len(p) = 2
             /\ L = {e} /\ ~ (Cardinality(L) > 1) /\ Len(p) >= 1
  <2>1. RecRequest(m, p) \in {MarketRequest(m, Tail(p)), TraderRequest(m, Tail(p))}
    BY <1>3, <1>6 DEF RecRequest
  <2>2. Tail(p) \in Seq(Seq(W))
    BY <1>2, <1>6
  <2>3. Serves(RecRequest(m, p)) <=>
          \/ m = "GET" /\ Len(Tail(p)) \in 0 .. 1
          \/ m = "POST" /\ Len(Tail(p)) = 0
          \/ m = "PUT" /\ Len(Tail(p)) = 1
    BY <2>1, <2>2, MarketServes, TraderServes
  <2>4. L = {e} /\ ~ (Cardinality(L) > 1) /\ Len(p) >= 1 /\ Len(Tail(p)) = Len(p) - 1
    BY <1>2, <1>6
  <2> QED BY <1>0, <2>3, <2>4
<1>7. CASE /\ p # <<>> /\ ~(Known(es) /\ Many(es))
           /\ es \notin {{<<"asset">>}, {<<"contr">>}, {<<"market">>}, {<<"trader">>}}
  <2>1. RecRequest(m, p) = Miss
    BY <1>7 DEF RecRequest
  <2>2. /\ L \notin {{"asset"}, {"contr"}, {"market"}, {"trader"}}
        /\ ~ (Cardinality(L) > 1 /\ L \subseteq Entities)
        /\ Len(p) # 0
    BY <1>0, <1>2, <1>7
  <2> HIDE DEF L
  <2> QED BY <2>1, <2>2, MissServes
<1>8. CASE p # <<>> /\ ~(Known(es) /\ Many(es))
  <2>1. CASE es \in {{<<"asset">>}, {<<"contr">>}}
    <3>1. PICK e \in {"asset", "contr"} : es = {<<e>>}
      BY <2>1
    <3>2. /\ Serves(RecRequest(m, p)) <=> m = "GET" /\ Len(p) \in 1 .. 2
          /\ L = {e} /\ ~ (Cardinality(L) > 1) /\ Len(p) >= 1
      BY <1>5, <1>8, <3>1
    <3> HIDE DEF L
    <3>3. L \in {{"asset"}, {"contr"}, {"market"}, {"trader"}} /\ L \notin {{"market"}, {"trader"}}
      BY <3>2
    <3>4. Len(p) # 0 /\ ~ (Cardinality(L) > 1)
      BY <1>0, <3>2
    <3> QED BY <3>2, <3>3, <3>4
  <2>2. CASE es \in {{<<"market">>}, {<<"trader">>}}
    <3>1. PICK e \in {"market", "trader"} : es = {<<e>>}
      BY <2>2
    <3>2. /\ Serves(RecRequest(m, p)) <=>
                  \/ m = "GET" /\ Len(p) \in 1 .. 2
                  \/ m = "POST" /\ Len(p) = 1
                  \/ m = "PUT" /\ Len(p) = 2
          /\ L = {e} /\ ~ (Cardinality(L) > 1) /\ Len(p) >= 1
      BY <1>6, <1>8, <3>1
    <3> HIDE DEF L
    <3>3. L \in {{"market"}, {"trader"}}
      BY <3>2
    <3> QED BY <1>0, <3>2, <3>3
  <2> QED BY <1>7, <1>8, <2>1, <2>2
<1> QED BY <1>1, <1>4, <1>8

\* The cases of a request below the name sess.
LEMMA SessServes ==
  ASSUME NEW m, NEW W, NEW p \in Seq(Seq(W)), p # <<>> => Lists(p[1])
  PROVE  Serves(SessRequest(m, p)) <=>
           \/ m = "GET" /\ Len(p) = 0
           \/ /\ m = "GET" /\ Len(p) \in 1 .. 3
              /\ Listing(p[1]) \in {{"order"}, {"trade"}, {"posn"}}
           \/ m = "GET" /\ Len(p) \in 1 .. 2 /\ Listing(p[1]) = {"view"}
           \/ m = "POST" /\ Len(p) = 2 /\ Listing(p[1]) \in {{"order"}, {"trade"}}
           \/ m = "PUT" /\ Len(p) = 3 /\ Listing(p[1]) = {"order"}
           \/ m = "DELETE" /\ Len(p) = 3 /\ Listing(p[1]) \in {{"order"}, {"trade"}}
           \/ /\ m = "GET" /\ Len(p) = 1
              /\ Cardinality(Listing(p[1])) > 1 /\ Listing(p[1]) \subseteq Entities
<1> DEFINE es == Parse(p[1])
           L == Listing(p[1])
<1> SUFFICES Serves(SessRequest(m, p)) <=>
             \/ m = "GET" /\ Len(p) = 0
             \/ /\ m = "GET" /\ Len(p) \in 1 .. 3
                /\ L \in {{"order"}, {"trade"}, {"posn"}}
             \/ m = "GET" /\ Len(p) \in 1 .. 2 /\ L = {"view"}
             \/ m = "POST" /\ Len(p) = 2 /\ L \in {{"order"}, {"trade"}}
             \/ m = "PUT" /\ Len(p) = 3 /\ L = {"order"}
             \/ m = "DELETE" /\ Len(p) = 3 /\ L \in {{"order"}, {"trade"}}
             \/ /\ m = "GET" /\ Len(p) = 1
                /\ Cardinality(L) > 1 /\ L \subseteq Entities
  OBVIOUS
<1>0. Len(p) \in Nat /\ (p = <<>> <=> Len(p) = 0)
  OBVIOUS
<1>1. CASE p = <<>>
  <2>1. Methodical([GET |-> "getSess"]) /\ DOMAIN [GET |-> "getSess"] = {"GET"}
    BY DEF Methodical, None
  <2>2. SessRequest(m, p) = Leaf(m, [GET |-> "getSess"])
    BY <1>1 DEF SessRequest
  <2> QED BY <1>0, <1>1, <2>1, <2>2, LeafServes
<1>2. ASSUME p # <<>>
      PROVE  /\ Known(es) /\ Many(es) <=> Cardinality(L) > 1 /\ L \subseteq Entities
             /\ \A e : es = {<<e>>} <=> L = {e}
             /\ \A e : L = {e} => ~ (Cardinality(L) > 1)
             /\ Tail(p) \in Seq(Seq(W)) /\ Len(Tail(p)) = Len(p) - 1
             /\ Len(p) >= 1
  <2>1. /\ Known(es) /\ Many(es) <=> Cardinality(L) > 1 /\ L \subseteq Entities
        /\ \A e : es = {<<e>>} <=> L = {e}
    BY <1>2 DEF Lists
  <2>2. \A e : L = {e} => ~ (Cardinality(L) > 1)
    <3>1. \A e : L = {e} => Cardinality(L) = 1
      BY FS_Singleton
    <3> HIDE DEF L
    <3> SUFFICES ASSUME NEW e, L = {e} PROVE ~ (Cardinality(L) > 1)
      OBVIOUS
    <3>2. Cardinality(L) = 1
      BY <3>1, Zenon
    <3> QED BY <3>2
  <2>3. Tail(p) \in Seq(Seq(W)) /\ Len(Tail(p)) = Len(p) - 1 /\ Len(p) >= 1
    BY <1>0, <1>2
  <2> HIDE DEF L, es
  <2> QED BY <2>1, <2>2, <2>3
<1>3. /\ \A e : ~Many({e})
      /\ {<<"order">>} # {<<"trade">>}
      /\ {<<"order">>} # {<<"posn">>}
      /\ {<<"order">>} # {<<"view">>}
      /\ {<<"trade">>} # {<<"posn">>}
      /\ {<<"trade">>} # {<<"view">>}
      /\ {<<"posn">>} # {<<"view">>}
  BY OneEntity, Zenon
<1>4. CASE p # <<>> /\ Known(es) /\ Many(es)
  <2>1. SessRequest(m, p) = ListRequest(m, p, "getSess")
    BY <1>3, <1>4 DEF SessRequest
  <2>2. Serves(SessRequest(m, p)) <=> m = "GET" /\ Len(p) = 1
    BY <2>1, ReadServes DEF None
  <2>3. Cardinality(L) > 1 /\ L \subseteq Entities /\ \A e : L # {e}
    BY <1>2, <1>4
  <2> HIDE DEF L
  <2> QED BY <1>0, <1>4, <2>2, <2>3
<1>5. CASE p # <<>> /\ ~ (Known(es) /\ Many(es)) /\ es = {<<"order">>}
  <2>1. SessRequest(m, p) = OrderRequest(m, Tail(p))
    BY <1>3, <1>5 DEF SessRequest
  <2>2. /\ L = {"order"} /\ ~ (Cardinality(L) > 1) /\ Len(p) >= 1
        /\ Tail(p) \in Seq(Seq(W)) /\ Len(Tail(p)) = Len(p) - 1
    BY <1>2, <1>5
  <2>3. Serves(SessRequest(m, p)) <=>
          \/ m = "GET" /\ Len(Tail(p)) \in 0 .. 2
          \/ m = "POST" /\ Len(Tail(p)) = 1
          \/ m \in {"PUT", "DELETE"} /\ Len(Tail(p)) = 2
    BY <2>1, <2>2, OrderServes
  <2> HIDE DEF L
  <2>4. /\ L \in {{"order"}, {"trade"}, {"posn"}} /\ L \in {{"order"}, {"trade"}}
        /\ L # {"view"} /\ L = {"order"}
    BY <2>2
  <2>5. /\ Len(Tail(p)) \in 0 .. 2 <=> Len(p) \in 1 .. 3
        /\ Len(Tail(p)) <= 2 <=> Len(p) \in 1 .. 3
        /\ Len(Tail(p)) <= 1 <=> Len(p) \in 1 .. 2
        /\ Len(Tail(p)) = 1 <=> Len(p) = 2
        /\ Len(Tail(p)) = 2 <=> Len(p) = 3
        /\ Len(p) # 0
    <3> DEFINE n == Len(p)
               k == Len(Tail(p))
    <3>1. n \in Nat /\ k = n - 1 /\ n >= 1
      BY <1>0, <2>2
    <3> HIDE DEF n, k
    <3>2. /\ k \in 0 .. 2 <=> n \in 1 .. 3
          /\ k <= 2 <=> n \in 1 .. 3
          /\ k <= 1 <=> n \in 1 .. 2
          /\ k = 1 <=> n = 2
          /\ k = 2 <=> n = 3
          /\ n # 0
      BY <3>1
    <3> QED BY <3>2 DEF n, k
  <2>6. ~ (Cardinality(L) > 1)
    BY <2>2
  <2> QED BY <2>3, <2>4, <2>5, <2>6
<1>6. CASE p # <<>> /\ ~ (Known(es) /\ Many(es)) /\ es = {<<"trade">>}
  <2>1. SessRequest(m, p) = TradeRequest(m, Tail(p))
    BY <1>3, <1>6 DEF SessRequest
  <2>2. /\ L = {"trade"} /\ ~ (Cardinality(L) > 1) /\ Len(p) >= 1
        /\ Tail(p) \in Seq(Seq(W)) /\ Len(Tail(p)) = Len(p) - 1
    BY <1>2, <1>6
  <2>3. Serves(SessRequest(m, p)) <=>
          \/ m = "GET" /\ Len(Tail(p)) \in 0 .. 2
          \/ m = "POST" /\ Len(Tail(p)) = 1
          \/ m = "DELETE" /\ Len(Tail(p)) = 2
    BY <2>1, <2>2, TradeServes
  <2> HIDE DEF L
  <2>4. L \in {{"order"}, {"trade"}, {"posn"}} /\ L \in {{"order"}, {"trade"}} /\ L \notin {{"view"}, {"order"}}
    BY <2>2
  <2>5. /\ Len(Tail(p)) \in 0 .. 2 <=> Len(p) \in 1 .. 3
        /\ Len(Tail(p)) <= 2 <=> Len(p) \in 1 .. 3
        /\ Len(Tail(p)) <= 1 <=> Len(p) \in 1 .. 2
        /\ Len(Tail(p)) = 1 <=> Len(p) = 2
        /\ Len(Tail(p)) = 2 <=> Len(p) = 3
        /\ Len(p) # 0
    <3> DEFINE n == Len(p)
               k == Len(Tail(p))
    <3>1. n \in Nat /\ k = n - 1 /\ n >= 1
      BY <1>0, <2>2
    <3> HIDE DEF n, k
    <3>2. /\ k \in 0 .. 2 <=> n \in 1 .. 3
          /\ k <= 2 <=> n \in 1 .. 3
          /\ k <= 1 <=> n \in 1 .. 2
          /\ k = 1 <=> n = 2
          /\ k = 2 <=> n = 3
          /\ n # 0
      BY <3>1
    <3> QED BY <3>2 DEF n, k
  <2>6. ~ (Cardinality(L) > 1)
    BY <2>2
  <2> QED BY <2>3, <2>4, <2>5, <2>6
<1>7. CASE p # <<>> /\ ~ (Known(es) /\ Many(es)) /\ es = {<<"posn">>}
  <2>1. SessRequest(m, p) = PosnRequest(m, Tail(p))
    BY <1>3, <1>7 DEF SessRequest
  <2>2. L = {"posn"} /\ ~ (Cardinality(L) > 1) /\ Len(p) >= 1 /\ Len(Tail(p)) = Len(p) - 1
    BY <1>2, <1>7
  <2>3. Serves(SessRequest(m, p)) <=> m = "GET" /\ Len(Tail(p)) <= 2
    BY <2>1, PosnServes
  <2> HIDE DEF L
  <2>4. L \in {{"order"}, {"trade"}, {"posn"}} /\ L \notin {{"order"}, {"trade"}} /\ L \notin {{"view"}, {"order"}}
    BY <2>2
  <2>5. /\ Len(Tail(p)) \in 0 .. 2 <=> Len(p) \in 1 .. 3
        /\ Len(Tail(p)) <= 2 <=> Len(p) \in 1 .. 3
        /\ Len(Tail(p)) <= 1 <=> Len(p) \in 1 .. 2
        /\ Len(Tail(p)) = 1 <=> Len(p) = 2
        /\ Len(Tail(p)) = 2 <=> Len(p) = 3
        /\ Len(p) # 0
    <3> DEFINE n == Len(p)
               k == Len(Tail(p))
    <3>1. n \in Nat /\ k = n - 1 /\ n >= 1
      BY <1>0, <2>2
    <3> HIDE DEF n, k
    <3>2. /\ k \in 0 .. 2 <=> n \in 1 .. 3
          /\ k <= 2 <=> n \in 1 .. 3
          /\ k <= 1 <=> n \in 1 .. 2
          /\ k = 1 <=> n = 2
          /\ k = 2 <=> n = 3
          /\ n # 0
      BY <3>1
    <3> QED BY <3>2 DEF n, k
  <2>6. ~ (Cardinality(L) > 1)
    BY <2>2
  <2> QED BY <2>3, <2>4, <2>5, <2>6
<1>8. CASE p # <<>> /\ ~ (Known(es) /\ Many(es)) /\ es = {<<"view">>}
  <2>1. SessRequest(m, p) = ReadRequest(m, Tail(p), "getView")
    BY <1>3, <1>8 DEF SessRequest
  <2>2. L = {"view"} /\ ~ (Cardinality(L) > 1) /\ Len(p) >= 1 /\ Len(Tail(p)) = Len(p) - 1
    BY <1>2, <1>8
  <2>3. Serves(SessRequest(m, p)) <=> m = "GET" /\ Len(Tail(p)) <= 1
    BY <2>1, ReadServes DEF None
  <2> HIDE DEF L
  <2>4. /\ L \notin {{"order"}, {"trade"}, {"posn"}} /\ L \notin {{"order"}, {"trade"}}
        /\ L # {"order"} /\ L = {"view"}
    BY <2>2
  <2>5. /\ Len(Tail(p)) \in 0 .. 2 <=> Len(p) \in 1 .. 3
        /\ Len(Tail(p)) <= 2 <=> Len(p) \in 1 .. 3
        /\ Len(Tail(p)) <= 1 <=> Len(p) \in 1 .. 2
        /\ Len(Tail(p)) = 1 <=> Len(p) = 2
        /\ Len(Tail(p)) = 2 <=> Len(p) = 3
        /\ Len(p) # 0
    <3> DEFINE n == Len(p)
               k == Len(Tail(p))
    <3>1. n \in Nat /\ k = n - 1 /\ n >= 1
      BY <1>0, <2>2
    <3> HIDE DEF n, k
    <3>2. /\ k \in 0 .. 2 <=> n \in 1 .. 3
          /\ k <= 2 <=> n \in 1 .. 3
          /\ k <= 1 <=> n \in 1 .. 2
          /\ k = 1 <=> n = 2
          /\ k = 2 <=> n = 3
          /\ n # 0
      BY <3>1
    <3> QED BY <3>2 DEF n, k
  <2>6. ~ (Cardinality(L) > 1)
    BY <2>2
  <2> QED BY <2>3, <2>4, <2>5, <2>6
<1>9. CASE /\ p # <<>> /\ ~ (Known(es) /\ Many(es))
           /\ es \notin {{<<"order">>}, {<<"trade">>}, {<<"posn">>}, {<<"view">>}}
  <2>1. SessRequest(m, p) = Miss
    BY <1>9 DEF SessRequest
  <2>2. /\ L \notin {{"order"}, {"trade"}, {"posn"}, {"view"}}
        /\ ~ (Cardinality(L) > 1 /\ L \subseteq Entities)
        /\ Len(p) # 0
    BY <1>0, <1>2, <1>9
  <2> HIDE DEF L
  <2> QED BY <2>1, <2>2, MissServes
<1> HIDE DEF L, es
<1> QED BY <1>1, <1>4, <1>5, <1>6, <1>7, <1>8, <1>9

\* The code serves what is accepted, for every path that can be meant.
LEMMA ServesAccepted ==
  ASSUME NEW m, NEW W, NEW p \in Seq(Seq(W)), Len(p) >= 2 => Lists(p[2])
  PROVE  Serves(RestRequest(m, p)) <=> Accepted(m, p)
<1>0. Len(p) \in Nat /\ (p = <<>> <=> Len(p) = 0)
  OBVIOUS
<1>1. ASSUME p # <<>>
      PROVE  /\ Tail(p) \in Seq(Seq(W)) /\ Len(Tail(p)) = Len(p) - 1
             /\ Tail(p) # <<>> => Len(p) >= 2 /\ Tail(p)[1] = p[2]
             /\ Tail(p) # <<>> => Lists(Tail(p)[1])
             /\ Len(p) >= 2 => Tail(p)[1] = p[2]
  <2>1. Tail(p) \in Seq(Seq(W)) /\ Len(Tail(p)) = Len(p) - 1
    BY <1>1
  <2>2. Tail(p) # <<>> => Len(p) >= 2
    BY <1>0, <2>1
  <2>3. Len(p) >= 2 => Tail(p)[1] = p[2]
    BY <1>1, HeadTailProperties
  <2> QED BY <2>1, <2>2, <2>3
<1> DEFINE q == Tail(p)
           n == Len(p)
           k == Len(q)
           L == Listing(p[2])
<1>2. ASSUME p # <<>>
      PROVE  /\ k = 0 <=> n = 1
             /\ k = 1 <=> n = 2
             /\ k = 2 <=> n = 3
             /\ k = 3 <=> n = 4
             /\ k <= 1 <=> n \in 1 .. 2
             /\ k \in 1 .. 2 <=> n \in 2 .. 3
             /\ k \in 1 .. 3 <=> n \in 2 .. 4
             /\ k >= 1 => Listing(q[1]) = L
  <2>1. n \in Nat /\ k = n - 1 /\ n >= 1 /\ (n >= 2 => q[1] = p[2])
    BY <1>0, <1>1, <1>2
  <2>2. k >= 1 => Listing(q[1]) = L
    <3>1. k >= 1 => q[1] = p[2]
      <4>1. k >= 1 => n >= 2
        <5> HIDE DEF n, k, q
        <5> QED BY <2>1
      <4> HIDE DEF n, k, q
      <4> QED BY <2>1, <4>1
    <3> QED BY <3>1
  <2> HIDE DEF n, k, q, L
  <2> QED BY <2>1, <2>2
<1>3. CASE p # <<>> /\ p[1] = <<"rec">>
  <2>1. RestRequest(m, p) = RecRequest(m, q)
    BY <1>3 DEF RestRequest
  <2>2. Serves(RecRequest(m, q)) <=>
          \/ m = "GET" /\ k = 0
          \/ /\ m = "GET" /\ k \in 1 .. 2
             /\ Listing(q[1]) \in {{"asset"}, {"contr"}, {"market"}, {"trader"}}
          \/ m = "POST" /\ k = 1 /\ Listing(q[1]) \in {{"market"}, {"trader"}}
          \/ m = "PUT" /\ k = 2 /\ Listing(q[1]) \in {{"market"}, {"trader"}}
          \/ /\ m = "GET" /\ k = 1
             /\ Cardinality(Listing(q[1])) > 1 /\ Listing(q[1]) \subseteq Entities
    <3>1. q \in Seq(Seq(W)) /\ (q # <<>> => Lists(q[1]))
      BY <1>1, <1>3
    <3> HIDE DEF q
    <3> QED BY <3>1, RecServes
  <2>3. Accepted(m, p) <=>
           \/ m = "GET" /\ n = 1
           \/ m = "GET" /\ n \in 2 .. 3 /\ L \in {{"asset"}, {"contr"}, {"market"}, {"trader"}}
           \/ m = "POST" /\ n = 2 /\ L \in {{"market"}, {"trader"}}
           \/ m = "PUT" /\ n = 3 /\ L \in {{"market"}, {"trader"}}
           \/ m = "GET" /\ n = 2 /\ Cardinality(L) > 1 /\ L \subseteq Entities
    BY <1>3, AcceptedRec
  <2>4. /\ k = 0 <=> n = 1
        /\ k = 1 <=> n = 2
        /\ k = 2 <=> n = 3
        /\ k \in 1 .. 2 <=> n \in 2 .. 3
        /\ k = 1 \/ k = 2 \/ k \in 1 .. 2 => Listing(q[1]) = L
    <3>1. k >= 1 => Listing(q[1]) = L
      BY <1>2, <1>3
    <3>2. k = 1 \/ k = 2 \/ k \in 1 .. 2 => k >= 1
      <4> HIDE DEF k
      <4> QED OBVIOUS
    <3> HIDE DEF k, n, L, q
    <3> QED BY <1>2, <1>3, <3>1, <3>2
  <2> HIDE DEF k, n, L, q
  <2> QED BY <2>1, <2>2, <2>3, <2>4
<1>4. CASE p # <<>> /\ p[1] = <<"sess">>
  <2>1. RestRequest(m, p) = SessRequest(m, q)
    <3>1. <<"rec">> # <<"sess">>
      OBVIOUS
    <3> QED BY <1>4, <3>1 DEF RestRequest
  <2>2. Serves(SessRequest(m, q)) <=>
           \/ m = "GET" /\ k = 0
           \/ /\ m = "GET" /\ k \in 1 .. 3
              /\ Listing(q[1]) \in {{"order"}, {"trade"}, {"posn"}}
           \/ m = "GET" /\ k \in 1 .. 2 /\ Listing(q[1]) = {"view"}
           \/ m = "POST" /\ k = 2 /\ Listing(q[1]) \in {{"order"}, {"trade"}}
           \/ m = "PUT" /\ k = 3 /\ Listing(q[1]) = {"order"}
           \/ m = "DELETE" /\ k = 3 /\ Listing(q[1]) \in {{"order"}, {"trade"}}
           \/ /\ m = "GET" /\ k = 1
              /\ Cardinality(Listing(q[1])) > 1 /\ Listing(q[1]) \subseteq Entities
    <3>1. q \in Seq(Seq(W)) /\ (q # <<>> => Lists(q[1]))
      BY <1>1, <1>4
    <3> HIDE DEF q
    <3> QED BY <3>1, SessServes
  <2>3. Accepted(m, p) <=>
           \/ m = "GET" /\ n = 1
           \/ m = "GET" /\ n \in 2 .. 4 /\ L \in {{"order"}, {"trade"}, {"posn"}}
           \/ m = "GET" /\ n \in 2 .. 3 /\ L = {"view"}
           \/ m = "POST" /\ n = 3 /\ L \in {{"order"}, {"trade"}}
           \/ m = "PUT" /\ n = 4 /\ L = {"order"}
           \/ m = "DELETE" /\ n = 4 /\ L \in {{"order"}, {"trade"}}
           \/ m = "GET" /\ n = 2 /\ Cardinality(L) > 1 /\ L \subseteq Entities
    BY <1>4, AcceptedSess
  <2>4. /\ k = 0 <=> n = 1
        /\ k = 1 <=> n = 2
        /\ k = 2 <=> n = 3
        /\ k = 3 <=> n = 4
        /\ k \in 1 .. 2 <=> n \in 2 .. 3
        /\ k \in 1 .. 3 <=> n \in 2 .. 4
        /\ k = 1 \/ k = 2 \/ k = 3 \/ k \in 1 .. 2 \/ k \in 1 .. 3 => Listing(q[1]) = L
    <3>1. k >= 1 => Listing(q[1]) = L
      BY <1>2, <1>4
    <3>2. k = 1 \/ k = 2 \/ k = 3 \/ k \in 1 .. 2 \/ k \in 1 .. 3 => k >= 1
      <4> HIDE DEF k
      <4> QED OBVIOUS
    <3> HIDE DEF k, n, L, q
    <3> QED BY <1>2, <1>4, <3>1, <3>2
  <2> HIDE DEF k, n, L, q
  <2> QED BY <2>1, <2>2, <2>3, <2>4
<1>5. CASE p # <<>> /\ p[1] \notin {<<"rec">>, <<"sess">>}
  <2>1. Accepted(m, p) <=> p[1] = <<"view">> /\ m = "GET" /\ n \in 1 .. 2
    BY <1>5, AcceptedElse
  <2>2. CASE p[1] = <<"view">>
    <3>1. RestRequest(m, p) = ReadRequest(m, q, "getView")
      BY <1>5, <2>2 DEF RestRequest
    <3>2. Serves(ReadRequest(m, q, "getView")) <=> m = "GET" /\ k <= 1
      BY ReadServes DEF None
    <3>3. k <= 1 <=> n \in 1 .. 2
      BY <1>2, <1>5
    <3> HIDE DEF k, n, q
    <3> QED BY <2>1, <2>2, <3>1, <3>2, <3>3
  <2>3. CASE p[1] # <<"view">>
    <3>1. RestRequest(m, p) = Miss
      BY <1>5, <2>3 DEF RestRequest
    <3> QED BY <2>1, <2>3, <3>1, MissServes
  <2> QED BY <2>2, <2>3
<1>6. CASE p = <<>>
  <2>1. RestRequest(m, p) = Miss
    BY <1>6 DEF RestRequest
  <2>2. ~ Accepted(m, p)
    BY <1>6, AcceptedElse
  <2> QED BY <2>1, <2>2, MissServes
<1> QED BY <1>3, <1>4, <1>5, <1>6

----------------------------------------------------------------------------
(* What is accepted is documented, or set apart.                           *)

\* A text with no delimiter is its only part.
LEMMA NoDelimiter ==
  ASSUME NEW S, NEW b \in Seq(S), NEW delim, b # <<>>,
         \A k \in 1 .. Len(b) : b[k] # delim
  PROVE  PartCount(b, delim) = 1 /\ Part(b, delim, 1) = b
<1> DEFINE i == 1
           j == Len(b) + 1
<1>1. /\ Len(b) \in Nat /\ i = 1 /\ j = Len(b) + 1 /\ j - 1 = Len(b)
      /\ SubSeq(b, 1, Len(b)) = b
  OBVIOUS
<1>2. Delims(b, delim) = {}
  BY DEF Delims
<1>3. Cardinality({}) = 0
  BY FS_EmptySet
<1>4. PartCount(b, delim) = 1
  BY <1>2, <1>3 DEF PartCount
<1>5. Before(b, delim, i) = 0
  <2>1. {d \in Delims(b, delim) : d < i} = {}
    BY <1>2
  <2> HIDE DEF i
  <2> QED BY <1>3, <2>1 DEF Before
<1>6. /\ i \in 1 .. Len(b) + 1 /\ j \in i .. Len(b) + 1
      /\ \A k \in i .. j - 1 : b[k] # delim
  OBVIOUS
<1>7. Part(b, delim, Before(b, delim, i) + 1) = SubSeq(b, i, j - 1)
  <2> HIDE DEF i, j
  <2> QED BY <1>1, <1>6, PartBetween
<1> HIDE DEF i, j
<1>8. SubSeq(b, i, j - 1) = b
  BY <1>1
<1>9. Part(b, delim, 1) = b
  <2>1. Before(b, delim, i) + 1 = 1
    BY <1>5
  <2> QED BY <1>7, <1>8, <2>1, Zenon
<1> QED BY <1>4, <1>9

\* A part with no comma is one word.
Uncut(part) == ~ \E k \in DOMAIN part : part[k] = ","

LEMMA NoCommaIsWord ==
  ASSUME NEW part \in Parts, Listing(part) # {}, Uncut(part)
  PROVE  \E w : w # "," /\ part = <<w>>
<1>1. part \in Seq(Chars)
  BY PartsAreWords
<1>2. \A token \in Parse(part) : Len(token) = 1
  BY PartsAssumption, Zenon
<1>3. /\ DOMAIN part = 1 .. Len(part) /\ Len(part) \in Nat
      /\ \A k \in 1 .. Len(part) : part[k] # ","
  <2>1. DOMAIN part = 1 .. Len(part) /\ Len(part) \in Nat
    BY <1>1
  <2> QED BY <2>1, Zenon DEF Uncut
<1>4. part # <<>>
  <2> SUFFICES ASSUME part = <<>> PROVE FALSE
    OBVIOUS
  <2>1. 1 .. Len(part) = {}
    OBVIOUS
  <2>2. DOMAIN part = {}
    BY <1>3, <2>1
  <2> QED BY <2>2, Zenon DEF Listing
<1>5. part \in Parse(part)
  <2> DEFINE comma == ","
  <2>1. /\ \A k \in 1 .. Len(part) : part[k] # comma
        /\ Parse(part) = {Part(part, comma, n) : n \in 1 .. PartCount(part, comma)}
    BY <1>1, <1>3, ParseParts
  <2> HIDE DEF comma
  <2>2. PartCount(part, comma) = 1 /\ Part(part, comma, 1) = part
    BY <1>1, <1>4, <2>1, NoDelimiter
  <2>3. 1 \in 1 .. PartCount(part, comma)
    BY <2>2
  <2> QED BY <2>1, <2>2, <2>3
<1>6. Len(part) = 1
  BY <1>2, <1>5
<1>7. part = <<part[1]>>
  BY <1>1, <1>6
<1>8. part[1] # ","
  <2>1. 1 \in 1 .. Len(part)
    BY <1>6
  <2> QED BY <1>3, <2>1, Zenon
<1> QED BY <1>7, <1>8

\* The names of a listed resource.
LEMMA ListedNames ==
  ASSUME NEW r \in Listed
  PROVE  \/ \E x : r.names = <<x>>
         \/ \E x \in {"rec", "sess"}, y \in Entities : r.names = <<x, y>>
BY DEF Listed, Resource, Entities, RecEntities, SessEntities

\* A word lists itself.
LEMMA WordAlone ==
  ASSUME NEW w
  PROVE  Listing(<<w>>) = {w} \ {","}
<1> DEFINE b == <<w>>
<1>1. DOMAIN b = {1} /\ b[1] = w
  OBVIOUS
<1> HIDE DEF b
<1>2. {b[k] : k \in DOMAIN b} = {w}
  BY <1>1
<1>3. Listing(b) = {w} \ {","}
  BY <1>2, Zenon DEF Listing
<1> QED BY <1>3 DEF b

LEMMA WordLists ==
  ASSUME NEW w, w # ","
  PROVE  Listing(<<w>>) = {w}
BY WordAlone, Zenon

LEMMA EntityIsWord == \A e \in Entities : e # ","
BY DEF Entities, RecEntities, SessEntities

\* The entities are few, and each one can be got.
LEMMA EntitiesFinite == IsFiniteSet(RecEntities) /\ IsFiniteSet(SessEntities)
<1>1. \A a, b, c, d : IsFiniteSet({a, b, c, d})
  <2> SUFFICES ASSUME NEW a, NEW b, NEW c, NEW d PROVE IsFiniteSet({a, b, c, d})
    OBVIOUS
  <2>1. IsFiniteSet({a})
    BY FS_Singleton
  <2>2. IsFiniteSet({a} \cup {b})
    BY <2>1, FS_AddElement
  <2>3. IsFiniteSet(({a} \cup {b}) \cup {c})
    BY <2>2, FS_AddElement
  <2>4. IsFiniteSet((({a} \cup {b}) \cup {c}) \cup {d})
    BY <2>3, FS_AddElement
  <2>5. (({a} \cup {b}) \cup {c}) \cup {d} = {a, b, c, d}
    OBVIOUS
  <2> QED BY <2>4, <2>5, Zenon
<1> QED BY <1>1 DEF RecEntities, SessEntities

LEMMA EntitiesListed ==
  /\ \A e \in RecEntities : Resource("GET", <<"rec", e>>, 0, 1) \in Listed
  /\ \A e \in SessEntities : \/ Resource("GET", <<"sess", e>>, 0, 1) \in Listed
                             \/ Resource("GET", <<"sess", e>>, 0, 2) \in Listed
BY DEF RecEntities, SessEntities, Listed

LEMMA ListedLeast == \A r \in Listed : r.least \in Nat /\ r.most \in Nat
BY DEF Listed, Resource

\* A list names an entity.
LEMMA ListIsNonEmpty ==
  ASSUME NEW S, NEW b \in Seq(S), IsList(b)
  PROVE  \E e : e \in Listing(b)
<1>1. Len(b) \in Nat /\ DOMAIN b = 1 .. Len(b)
  OBVIOUS
<1>2. Len(b) % 2 = 1 /\ \A k \in DOMAIN b : (b[k] = "," <=> k % 2 = 0)
  BY DEF IsList
<1>3. 1 \in DOMAIN b
  <2> DEFINE n == Len(b)
  <2>1. n \in Nat /\ n % 2 = 1
    BY <1>1, <1>2
  <2> HIDE DEF n
  <2>2. 1 \in 1 .. n
    BY <2>1
  <2> QED BY <1>1, <2>2, Zenon DEF n
<1>4. 1 % 2 # 0
  OBVIOUS
<1>5. b[1] # ","
  BY <1>2, <1>3, <1>4, Zenon
<1> QED BY <1>3, <1>5, Zenon DEF Listing

\* Another second part.
LEMMA OtherSecond ==
  ASSUME NEW S, NEW p \in Seq(S), Len(p) >= 2, NEW x
  PROVE  /\ Len([p EXCEPT ![2] = x]) = Len(p)
         /\ [p EXCEPT ![2] = x][1] = p[1] /\ [p EXCEPT ![2] = x][2] = x
<1> DEFINE T == S \cup {x}
<1>1. p \in Seq(T)
  BY SeqMonotonic
<1>2. x \in T
  OBVIOUS
<1> HIDE DEF T
<1> QED BY <1>1, <1>2

\* What is documented is accepted.
LEMMA DocumentedAccepted ==
  ASSUME NEW m, NEW W, NEW p, Len(p) >= 2 => p[2] \in Seq(W), Documented(m, p)
  PROVE  Accepted(m, p)
<1>1. ASSUME NEW r \in Listed, m = r.method, Begins(p, r.names, r.least, r.most)
      PROVE  Resources(m, p)
  <2>1. CASE \E x : r.names = <<x>>
    <3>1. Comes(p, r.names, r.least, r.most)
      BY <1>1, <2>1 DEF Begins, Comes
    <3> QED BY <1>1, <3>1 DEF Resources
  <2>2. CASE \E x \in {"rec", "sess"}, y \in Entities : r.names = <<x, y>>
    <3>1. PICK x \in {"rec", "sess"}, y \in Entities : r.names = <<x, y>>
      BY <2>2
    <3>2. p[1] = <<x>> /\ p[2] = <<y>>
      BY <1>1, <3>1 DEF Begins
    <3>3. Listing(p[2]) = {y}
      BY <3>2, EntityIsWord, WordLists
    <3>4. Comes(p, r.names, r.least, r.most)
      BY <1>1, <3>1, <3>2, <3>3 DEF Begins, Comes
    <3> QED BY <1>1, <3>4 DEF Resources
  <2> QED BY <2>1, <2>2, ListedNames
<1>2. ASSUME NEW side, NEW es, ListOf(p, side, es), m = "GET",
             (side = "rec" /\ es = RecEntities) \/ (side = "sess" /\ es = SessEntities)
      PROVE  Accepted(m, p)
  <2> DEFINE L == Listing(p[2])
  <2>1. /\ Len(p) = 2 /\ p[1] = <<side>> /\ IsList(p[2]) /\ L \subseteq es
        /\ p[2] \in Seq(W)
    BY <1>2 DEF ListOf
  <2>2. es \subseteq Entities
    BY <1>2 DEF Entities
  <2>3. CASE Cardinality(L) > 1
    BY <1>2, <2>1, <2>2, <2>3 DEF Accepted, Several
  <2>4. CASE ~ Cardinality(L) > 1
    <3>1. PICK e : L = {e}
      <4>1. IsFiniteSet(L)
        BY <1>2, <2>1, FS_Subset, EntitiesFinite
      <4>2. PICK e : e \in L
        BY <2>1, ListIsNonEmpty
      <4>3. ~ \E x \in L, y \in L : x # y
        <5> HIDE DEF L
        <5> QED BY <2>4, <4>1, TwoMembers
      <4> HIDE DEF L
      <4>4. L = {e}
        BY <4>2, <4>3
      <4> QED BY <4>4
    <3>2. e \in es
      BY <2>1, <3>1
    <3>3. Comes(p, <<side, e>>, 0, 1) /\ Comes(p, <<side, e>>, 0, 2)
      BY <2>1, <3>1 DEF Comes
    <3>4. \E r \in Listed : /\ r.method = "GET" /\ r.names = <<side, e>>
                            /\ r.least = 0 /\ r.most \in 1 .. 2
      <4>1. CASE side = "rec" /\ es = RecEntities
        <5>1. Resource("GET", <<side, e>>, 0, 1) \in Listed
          BY <3>2, <4>1, EntitiesListed
        <5> QED BY <5>1 DEF Resource
      <4>2. CASE side = "sess" /\ es = SessEntities
        <5>1. \E n \in 1 .. 2 : Resource("GET", <<side, e>>, 0, n) \in Listed
          BY <3>2, <4>2, EntitiesListed
        <5> QED BY <5>1 DEF Resource
      <4> QED BY <1>2, <4>1, <4>2
    <3>5. Resources(m, p)
      BY <1>2, <3>3, <3>4 DEF Resources
    <3> QED BY <3>5 DEF Accepted
  <2> QED BY <2>3, <2>4
<1>3. \/ \E r \in Listed : m = r.method /\ Begins(p, r.names, r.least, r.most)
      \/ m = "GET" /\ ListOf(p, "rec", RecEntities)
      \/ m = "GET" /\ ListOf(p, "sess", SessEntities)
  BY DEF Documented
<1> QED BY <1>1, <1>2, <1>3 DEF Accepted

\* Of the second part only what it lists counts.
LEMMA AcceptedAlike ==
  ASSUME NEW m, NEW p, NEW q,
         Len(p) = Len(q), p[1] = q[1], Listing(p[2]) = Listing(q[2])
  PROVE  Accepted(m, p) <=> Accepted(m, q)
BY DEF Accepted, Resources, Comes, Several

\* What is accepted is documented, or one of the lists that are not.
LEMMA AcceptedIsKnown ==
  ASSUME NEW m, NEW W, NEW p \in Seq(Seq(W)), Len(p) >= 2 => p[2] \in Parts
  PROVE  Accepted(m, p) <=> Documented(m, p) \/ Undocumented(m, p)
<1> DEFINE L == Listing(p[2])
           q(e) == [p EXCEPT ![2] = <<e>>]
           Comma == ~ Uncut(p[2])
<1>1. ASSUME Undocumented(m, p) PROVE Accepted(m, p)
  <2>1. CASE \E e \in Entities : L = {e} /\ Documented(m, q(e))
    <3>1. PICK e \in Entities : L = {e} /\ Documented(m, q(e))
      BY <2>1
    <3>2. Len(q(e)) = Len(p) /\ q(e)[1] = p[1] /\ q(e)[2] = <<e>>
      <4>1. Len(p) >= 2
        BY <1>1 DEF Undocumented
      <4> QED BY <4>1, OtherSecond
    <3>3. Listing(q(e)[2]) = L
      BY <3>1, <3>2, EntityIsWord, WordLists
    <3>4. Accepted(m, q(e))
      <4>1. <<e>> \in Seq(Entities)
        OBVIOUS
      <4> HIDE DEF q
      <4>2. q(e)[2] \in Seq(Entities)
        BY <3>2, <4>1
      <4> QED BY <3>1, <4>2, DocumentedAccepted
    <3> HIDE DEF q
    <3> QED BY <3>2, <3>3, <3>4, AcceptedAlike
  <2>2. CASE m = "GET" /\ Len(p) = 2 /\ Cardinality(L) > 1 /\ L \subseteq Entities
    BY <1>1, <2>2 DEF Undocumented, Accepted, Several
  <2> QED BY <1>1, <2>1, <2>2 DEF Undocumented
<1>2. ASSUME m = "GET", Several(p)
      PROVE  Undocumented(m, p)
  <2>1. Len(p) = 2 /\ Cardinality(L) > 1 /\ L \subseteq Entities
    BY <1>2 DEF Several
  <2>2. Comma
    <3> SUFFICES ASSUME ~ Comma PROVE FALSE
      OBVIOUS
    <3>1. L # {}
      <4> SUFFICES ASSUME L = {} PROVE FALSE
        OBVIOUS
      <4>1. Cardinality(L) = 0
        BY FS_EmptySet
      <4> HIDE DEF L
      <4> QED BY <2>1, <4>1
    <3>2. p[2] \in Parts /\ Uncut(p[2])
      BY <2>1
    <3>3. PICK w : w # "," /\ p[2] = <<w>>
      BY <3>1, <3>2, NoCommaIsWord
    <3>4. L = {w}
      BY <3>3, WordLists
    <3>5. Cardinality(L) = 1
      <4>1. Cardinality({w}) = 1
        BY FS_Singleton
      <4> HIDE DEF L
      <4> QED BY <3>4, <4>1
    <3>6. Cardinality(L) > 1
      BY <2>1
    <3>7. ~ 1 > 1
      OBVIOUS
    <3> HIDE DEF L
    <3> QED BY <3>5, <3>6, <3>7, Zenon
  <2>3. /\ Len(p) >= 2 /\ p[1] \in {<<"rec">>, <<"sess">>}
        /\ \E k \in DOMAIN p[2] : p[2][k] = ","
    <3>1. Len(p) >= 2
      BY <2>1
    <3>2. p[1] \in {<<"rec">>, <<"sess">>}
      BY <1>2, Zenon DEF Several
    <3>3. \E k \in DOMAIN p[2] : p[2][k] = ","
      BY <2>2, Zenon DEF Uncut
    <3> QED BY <3>1, <3>2, <3>3
  <2> QED BY <1>2, <2>1, <2>3, Zenon DEF Undocumented
<1>3. ASSUME NEW r \in Listed, m = r.method, Comes(p, r.names, r.least, r.most)
      PROVE  Documented(m, p) \/ Undocumented(m, p)
  <2>1. CASE \E x : r.names = <<x>>
    <3>1. Begins(p, r.names, r.least, r.most)
      BY <1>3, <2>1 DEF Begins, Comes
    <3> QED BY <1>3, <3>1 DEF Documented
  <2>2. CASE \E x \in {"rec", "sess"}, y \in Entities : r.names = <<x, y>>
    <3>1. PICK x \in {"rec", "sess"}, y \in Entities : r.names = <<x, y>>
      BY <2>2
    <3>2. /\ Len(p) \in 2 + r.least .. 2 + r.most /\ p[1] = <<x>> /\ L = {y}
      BY <1>3, <3>1 DEF Comes
    <3>3. Len(p) >= 2
      BY <3>2, ListedLeast
    <3>4. ASSUME NEW s, Len(s) = Len(p), s[1] = p[1], s[2] = <<y>>
          PROVE  Documented(m, s)
      <4>1. Begins(s, r.names, r.least, r.most)
        BY <3>1, <3>2, <3>4 DEF Begins
      <4> QED BY <1>3, <4>1 DEF Documented
    <3>5. CASE Comma
      <4>1. Len(q(y)) = Len(p) /\ q(y)[1] = p[1] /\ q(y)[2] = <<y>>
        BY <3>3, OtherSecond
      <4>2. Documented(m, q(y))
        <5> HIDE DEF q
        <5> QED BY <3>4, <4>1
      <4> QED BY <3>1, <3>2, <3>3, <3>5, <4>2 DEF Undocumented, Uncut
    <3>6. CASE ~ Comma
      <4>1. PICK w : w # "," /\ p[2] = <<w>>
        BY <3>2, <3>3, <3>6, NoCommaIsWord
      <4>2. w = y
        BY <3>2, <4>1, WordLists
      <4> QED BY <3>4, <4>1, <4>2
    <3> QED BY <3>5, <3>6
  <2> QED BY <2>1, <2>2, ListedNames
<1>4. Accepted(m, p) => Documented(m, p) \/ Undocumented(m, p)
  BY <1>2, <1>3 DEF Accepted, Resources
<1>5. Documented(m, p) => Accepted(m, p)
  <2>1. Len(p) >= 2 => p[2] \in Seq(W)
    OBVIOUS
  <2> QED BY <2>1, DocumentedAccepted
<1> QED BY <1>1, <1>4, <1>5

\* The code serves what the documentation lists, and beyond it the lists that are set
\* apart, on every URI.
THEOREM DocumentedIsServed == Spec => []ServedAsDocumented
<1>1. TypeInv /\ PathInv => ServedAsDocumented
  <2> SUFFICES ASSUME TypeInv, PathInv, NEW m \in Methods
               PROVE  Served(m, uri) <=> Documented(m, Meant) \/ Undocumented(m, Meant)
    BY DEF ServedAsDocumented
  <2> DEFINE p == Meant
  <2>1. /\ p \in Seq(Parts \cup NameParts) /\ Tail(Path(uri)) = p
        /\ \A k \in 1 .. Len(p) : k <= 2 => p[k] \in Parts
    BY PathIsMeant
  <2>2. p \in Seq(Seq(Chars))
    <3>1. Parts \cup NameParts \subseteq Seq(Chars)
      BY PartsAreWords
    <3> HIDE DEF p
    <3> QED BY <2>1, <3>1, SeqMonotonic
  <2>3. Len(p) >= 2 => p[2] \in Parts
    <3> SUFFICES ASSUME Len(p) >= 2 PROVE p[2] \in Parts
      OBVIOUS
    <3>1. 2 \in 1 .. Len(p)
      <4>1. Len(p) \in Nat
        BY <2>2
      <4> HIDE DEF p
      <4> QED BY <4>1
    <3> QED BY <2>1, <3>1
  <2>4. Served(m, uri) <=> Serves(RestRequest(m, p))
    BY <2>1 DEF Served, Serves, Route
  <2>5. Serves(RestRequest(m, p)) <=> Accepted(m, p)
    <3>1. Len(p) >= 2 => Lists(p[2])
      BY <2>3, ListingIsParsed
    <3> HIDE DEF p
    <3> QED BY <2>2, <3>1, ServesAccepted
  <2>6. Accepted(m, p) <=> Documented(m, p) \/ Undocumented(m, p)
    <3> HIDE DEF p
    <3> QED BY <2>2, <2>3, AcceptedIsKnown
  <2> QED BY <2>4, <2>5, <2>6
<1> QED BY <1>1, Keeps, PTL

=============================================================================
