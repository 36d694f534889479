-------------------------- MODULE ServMatchProofs --------------------------
(***************************************************************************)
(* The matching engine implements price-time matching: module Serv, seen    *)
(* between calls, takes only the steps of PriceTimeMatching, for every       *)
(* number of traders, prices, lots and orders.  A call that serves its       *)
(* makers one by one, from the front of the book, gives each what the closed *)
(* form says, and its commit adds those up to the state the form describes.  *)
(***************************************************************************)
EXTENDS ServProofs

USE DEF Calling, Pending, Sides, Idle

----------------------------------------------------------------------------
(* Sums of the abstract specification.                                     *)

Total(v, S) == Matching!SumFunctionOnSet(v, S)

LEMMA TotalIsSum ==
  ASSUME NEW v, NEW S, IsFiniteSet(S), \A x \in S : v[x] \in Int
  PROVE  \E f : SetSums(f, v, S) /\ Total(v, S) = f[S]
<1> DEFINE Folds(f) == f = [T \in SUBSET S |->
             IF T = {} THEN 0
             ELSE v[CHOOSE x \in T : TRUE] + f[T \ {CHOOSE x \in T : TRUE}]]
<1>1. PICK f : SetSums(f, v, S)
  BY SumExists
<1>2. Folds(f)
  <2>1. f \in [SUBSET S -> Int] /\ IsSum(f, v, S)
    BY <1>1 DEF SetSums
  <2> QED BY <2>1 DEF IsSum, Chosen
<1>3. PICK g : Folds(g) /\ Total(v, S) = g[S]
  <2>1. Folds(CHOOSE h : Folds(h))
    BY <1>2, Zenon
  <2>2. Total(v, S) = (CHOOSE h : Folds(h))[S]
    BY Zenon DEF Total, Matching!SumFunctionOnSet, Matching!FoldFunctionOnSet,
                 Matching!MapThenFoldSet
  <2> HIDE DEF Folds
  <2> QED BY <2>1, <2>2
<1>4. IsSum(g, v, S)
  <2>1. \A T \in SUBSET S : g[T] = IF T = {} THEN 0
          ELSE v[CHOOSE x \in T : TRUE] + g[T \ {CHOOSE x \in T : TRUE}]
    BY <1>3
  <2> HIDE DEF Folds
  <2> QED BY <2>1 DEF IsSum, Chosen
<1>5. f[S] = g[S]
  BY <1>1, <1>4, SumSame DEF SetSums
<1> QED BY <1>1, <1>3, <1>5

\* The sum of nothing.
LEMMA TotalNone ==
  ASSUME NEW v
  PROVE  Total(v, {}) = 0
<1>1. IsFiniteSet({}) /\ \A x \in {} : v[x] \in Int
  BY FS_EmptySet
<1>2. PICK g : SetSums(g, v, {}) /\ Total(v, {}) = g[{}]
  BY <1>1, TotalIsSum
<1> QED BY <1>2 DEF SetSums, IsSum

\* The sum of a set with one element more.
LEMMA TotalAdd ==
  ASSUME NEW v, NEW S, IsFiniteSet(S), \A x \in S : v[x] \in Int
  PROVE  /\ Total(v, S) \in Int
         /\ \A x : x \notin S /\ v[x] \in Int => Total(v, S \cup {x}) = v[x] + Total(v, S)
<1>1. PICK f : SetSums(f, v, S) /\ Total(v, S) = f[S]
  BY TotalIsSum
<1>2. Total(v, S) \in Int
  BY <1>1 DEF SetSums
<1>4. ASSUME NEW x, x \notin S, v[x] \in Int
      PROVE  Total(v, S \cup {x}) = v[x] + Total(v, S)
  <2>1. PICK R : R = S \cup {x}
    OBVIOUS
  <2>2. IsFiniteSet(R) /\ \A y \in R : v[y] \in Int
    BY <1>4, <2>1, FS_AddElement
  <2>3. PICK g : SetSums(g, v, R) /\ Total(v, R) = g[R]
    BY <2>2, TotalIsSum
  <2>4. g[R] = v[x] + f[S]
    BY <1>1, <1>4, <2>1, <2>3, SumAdd
  <2> QED BY <1>1, <2>1, <2>3, <2>4
<1> QED BY <1>2, <1>4

\* A subset has no larger sum, when nothing is negative.
LEMMA TotalWithin ==
  ASSUME NEW v, NEW S, IsFiniteSet(S), \A x \in S : v[x] \in Nat, NEW T \in SUBSET S
  PROVE  Total(v, T) <= Total(v, S) /\ Total(v, T) \in Nat
<1> DEFINE Within(R) == \A Q \in SUBSET R : Total(v, Q) <= Total(v, R) /\ Total(v, Q) \in Nat
           Has(n) == \A R \in SUBSET S : Cardinality(R) = n => Within(R)
           G == {n \in Nat : Has(n)}
<1>1. \A R \in SUBSET S : /\ IsFiniteSet(R) /\ Cardinality(R) \in Nat
                          /\ Cardinality(R) = 0 => R = {}
  BY FS_Subset, FS_CardinalityType, FS_EmptySet
<1>2. 0 \in G
  <2>1. Total(v, {}) = 0
    BY TotalNone
  <2>2. ASSUME NEW R \in SUBSET S, Cardinality(R) = 0, NEW Q \in SUBSET R
        PROVE  Total(v, Q) <= Total(v, R) /\ Total(v, Q) \in Nat
    <3>1. R = {} /\ Q = {}
      BY <1>1, <2>2
    <3> QED BY <2>1, <3>1
  <2>3. Has(0)
    BY <2>2
  <2> HIDE DEF Has
  <2> QED BY <2>3
<1>3. ASSUME NEW n \in G PROVE n + 1 \in G
  <2>0. n \in Nat /\ Has(n)
    OBVIOUS
  <2>1. ASSUME NEW R \in SUBSET S, Cardinality(R) = n + 1
        PROVE  Within(R)
    <3>1. PICK y \in R : y = Chosen(R)
      BY <2>0, <2>1, OneLess
    <3>2. \A z \in R : Cardinality(R \ {z}) = n
      BY <2>0, <2>1, OneLess
    <3>3. ASSUME NEW z \in R
          PROVE  /\ Within(R \ {z}) /\ Total(v, R) = v[z] + Total(v, R \ {z})
                 /\ v[z] \in Nat /\ Total(v, R \ {z}) \in Nat /\ Total(v, R) \in Nat
      <4>1. PICK P \in SUBSET S : P = R \ {z}
        OBVIOUS
      <4>2. Within(P)
        BY <2>0, <3>2, <4>1
      <4>3. z \notin P /\ v[z] \in Nat /\ R = P \cup {z} /\ IsFiniteSet(P)
        BY <1>1, <4>1
      <4>4. \A x \in P : v[x] \in Int
        OBVIOUS
      <4>5. Total(v, R) = v[z] + Total(v, P)
        BY <4>3, <4>4, TotalAdd
      <4>6. Total(v, P) \in Nat /\ Total(v, R) \in Nat
        BY <4>2, <4>3, <4>5
      <4> HIDE DEF Within
      <4> QED BY <4>1, <4>2, <4>3, <4>5, <4>6
    <3>4. Total(v, R) \in Nat
      <4> HIDE DEF Within
      <4> QED BY <3>1, <3>3
    <3>5. ASSUME NEW Q \in SUBSET R
          PROVE  Total(v, Q) <= Total(v, R) /\ Total(v, Q) \in Nat
      <4>1. CASE Q = R
        BY <3>4, <4>1
      <4>2. CASE Q # R
        <5>1. PICK z \in R : z \notin Q
          BY <4>2
        <5>2. Q \in SUBSET (R \ {z})
          BY <5>1
        <5>3. Total(v, Q) <= Total(v, R \ {z}) /\ Total(v, Q) \in Nat
          BY <3>3, <5>2
        <5> QED BY <3>3, <5>3
      <4> QED BY <4>1, <4>2
    <3> QED BY <3>5
  <2>2. Has(n + 1)
    BY <2>1
  <2> HIDE DEF Has
  <2> QED BY <2>0, <2>2
<1>4. G = Nat
  <2> HIDE DEF G
  <2>1. G \in SUBSET Nat
    BY DEF G
  <2> QED BY <1>2, <1>3, <2>1, Induction
<1>5. Has(Cardinality(S))
  <2>1. Cardinality(S) \in G
    BY <1>1, <1>4
  <2> HIDE DEF Has
  <2> QED BY <2>1
<1> QED BY <1>5

\* A finite set with a total order has a first element.
LEMMA FirstMember ==
  ASSUME NEW S, IsFiniteSet(S), S # {}, NEW R,
         \A x, y \in S : x # y => <<x, y>> \in R \/ <<y, x>> \in R,
         \A x, y, z \in S : <<x, y>> \in R /\ <<y, z>> \in R => <<x, z>> \in R
  PROVE  \E x \in S : \A y \in S \ {x} : <<x, y>> \in R
<1> DEFINE First(T) == \E x \in T : \A y \in T \ {x} : <<x, y>> \in R
           Has(n) == \A T \in SUBSET S : Cardinality(T) = n /\ T # {} => First(T)
           G == {n \in Nat : Has(n)}
<1>1. \A T \in SUBSET S : /\ IsFiniteSet(T) /\ Cardinality(T) \in Nat
                          /\ Cardinality(T) = 0 => T = {}
  BY FS_Subset, FS_CardinalityType, FS_EmptySet
<1>2. 0 \in G
  BY <1>1
<1>3. ASSUME NEW n \in G PROVE n + 1 \in G
  <2>0. n \in Nat /\ Has(n)
    OBVIOUS
  <2>1. ASSUME NEW T \in SUBSET S, Cardinality(T) = n + 1
        PROVE  First(T)
    <3>1. PICK z \in T : z = Chosen(T)
      BY <2>0, <2>1, OneLess
    <3>2. PICK P \in SUBSET S : P = T \ {z} /\ Cardinality(P) = n
      <4>1. T \ {z} \in SUBSET S /\ Cardinality(T \ {z}) = n
        BY <2>0, <2>1, <3>1, OneLess
      <4> QED BY <4>1
    <3>3. CASE P = {}
      BY <3>1, <3>2, <3>3
    <3>4. CASE P # {}
      <4>1. First(P)
        BY <2>0, <3>2, <3>4
      <4>2. PICK x \in P : \A y \in P \ {x} : <<x, y>> \in R
        BY <4>1
      <4>3. x \in T /\ x # z /\ x \in S /\ z \in S /\ T = P \cup {z}
        BY <3>1, <3>2, <4>2
      <4>4. CASE <<x, z>> \in R
        BY <4>2, <4>3, <4>4
      <4>5. CASE <<z, x>> \in R
        <5>1. \A y \in T \ {z} : <<z, y>> \in R
          BY <3>2, <4>2, <4>3, <4>5
        <5> QED BY <3>1, <5>1
      <4> QED BY <4>3, <4>4, <4>5
    <3> QED BY <3>3, <3>4
  <2>2. Has(n + 1)
    BY <2>1
  <2> HIDE DEF Has
  <2> QED BY <2>0, <2>2
<1>4. G = Nat
  <2> HIDE DEF G
  <2>1. G \in SUBSET Nat
    BY DEF G
  <2> QED BY <1>2, <1>3, <2>1, Induction
<1>5. Has(Cardinality(S))
  <2>1. Cardinality(S) \in G
    BY <1>1, <1>4
  <2> HIDE DEF Has
  <2> QED BY <2>1
<1> QED BY <1>5


----------------------------------------------------------------------------
(* The invariant: what a call has done, as the closed form sees it.        *)

\* The terms of the call's order.
SentTerms ==
  [trader |-> orders[taker].trader, side |-> orders[taker].side,
   ticks |-> orders[taker].ticks, lots |-> orders[taker].lots]

\* The orders between calls, and what each has left, gives and is paid.
Accounts  == committed.accounts
Remaining == Matching!Residuals
Crossing  == Matching!Crossed(SentTerms)
Gives     == Matching!Given(SentTerms)
Pays      == Matching!Paid(SentTerms)

Makers == {matches[k].maker : k \in DOMAIN matches}

\* The makers whose match has been committed.
Settled == {matches[k].maker : k \in {l \in DOMAIN matches : l < next}}

\* Until the commit begins, nothing has changed that is seen between calls.
PublicKept == phase \in {"idle"} \cup Pending => committed = Public

\* The positions that are seen between calls are positions.
PosnsKept == committed.posns \in [Traders -> PosnRec]

\* A call's order is the youngest, and there are never more than allowed.
TakerLast == maxOrderId <= MaxOrders /\ (phase \in Calling => taker = maxOrderId)

\* Matching has served the makers from the front, each what it gives.
WalkInv ==
  /\ phase = "idle" => walked = {} /\ sumCost = 0
  /\ phase = "match" =>
       /\ orders[taker].resd = orders[taker].lots /\ orders[taker].cost = 0
       /\ walked = Makers /\ walked \subseteq Crossing
       /\ \A w \in walked : \A j \in Unwalked : Precedes(w, j)
       /\ sumLots = Least(orders[taker].lots, Total(Remaining, walked))
       /\ sumLots = Total(Gives, walked)
       /\ sumCost = Total(Pays, walked)

\* The executions of a match are of its maker and of the call's order, for what the
\* maker gives and at its price.
Drafted(match) ==
  LET made == match.makerTrade
      took == match.takerTrade
  IN  /\ match.maker \in DOMAIN Accounts /\ match.lots = Gives[match.maker]
      /\ match.lots > 0
      /\ made.trader = Accounts[match.maker].trader
      /\ made.side = Opposite(orders[taker].side)
      /\ made.role = "Maker" /\ made.matchId = made.id + 1
      /\ took.trader = orders[taker].trader /\ took.side = orders[taker].side
      /\ took.role = "Taker" /\ took.matchId + 1 = took.id
      /\ made.lastLots = match.lots /\ made.lastTicks = Accounts[match.maker].ticks
      /\ took.lastLots = match.lots /\ took.lastTicks = Accounts[match.maker].ticks

MatchesDrafted == phase \in Calling => \A k \in DOMAIN matches : Drafted(matches[k])

\* After matching, the makers are those whom the closed form serves.
AllServed ==
  phase \in Calling \ {"match"} =>
    /\ Makers = Matching!Served(SentTerms)
    /\ orders[taker].resd = orders[taker].lots - Total(Gives, Makers)
    /\ orders[taker].cost = Total(Pays, Makers)

\* The commit has done what the closed form says for the makers that are settled.
AccountsSettled ==
  phase = "commit" =>
    /\ taker \in Outstanding /\ DOMAIN Accounts = Outstanding \ {taker}
    /\ \A i \in DOMAIN Accounts : Account(i) = Matching!AccountAfter(i, Settled, SentTerms)

PosnsSettled ==
  phase = "commit" =>
    \A t \in Traders : posns[t] = Matching!PosnAfter(t, Settled, SentTerms)

FillsSettled ==
  phase = "commit" => Fills = Matching!FillsAfter(Settled, taker, SentTerms)

\* The id of a trade's other side is the next or the previous one.
TradeIds ==
  \A e \in Trades : /\ e.role = "Maker" => e.matchId = e.id + 1
                    /\ e.role = "Taker" => e.matchId + 1 = e.id

MatchingInv ==
  /\ PublicKept /\ TakerLast /\ WalkInv /\ MatchesDrafted /\ AllServed
  /\ AccountsSettled /\ PosnsSettled /\ FillsSettled /\ TradeIds


----------------------------------------------------------------------------
(* What stays as it is.                                                    *)

\* What is seen between calls depends on the orders of the sessions only.
LEMMA PublicSame ==
  ASSUME UNCHANGED <<sessOrders, sessTrades, posns>>,
         \A i \in Outstanding : orders'[i] = orders[i]
  PROVE  Public' = Public /\ Outstanding' = Outstanding /\ Fills' = Fills /\ Trades' = Trades
<1>1. Outstanding' = Outstanding
  BY DEF Outstanding
<1>2. Trades' = Trades
  BY DEF Trades
<1>3. Pairs' = Pairs
  BY <1>2 DEF Pairs
<1>4. Fills' = Fills
  BY <1>3 DEF Fills
<1>5. \A i \in Outstanding : Account(i)' = Account(i)
  BY DEF Account
<1>6. [i \in Outstanding |-> Account(i)]' = [i \in Outstanding |-> Account(i)]
  BY <1>1, <1>5
<1> QED BY <1>1, <1>2, <1>4, <1>6 DEF Public

\* What the closed form says depends on the orders between calls and on the terms.
LEMMA TermsSame ==
  ASSUME committed' = committed, SentTerms' = SentTerms
  PROVE  /\ Accounts' = Accounts /\ Remaining' = Remaining
         /\ Crossing' = Crossing /\ Gives' = Gives /\ Pays' = Pays
         /\ Matching!Served(SentTerms)' = Matching!Served(SentTerms)
<1> USE DEF Accounts, Remaining, Crossing, Gives, Pays
<1>1. Accounts' = Accounts
  OBVIOUS
<1>2. Remaining' = Remaining
  BY DEF Matching!Residuals
<1>3. Crossing' = Crossing
  BY DEF Matching!Crossed
<1>4. Gives' = Gives
  BY DEF Matching!Given, Matching!Crossed, Matching!Left, Matching!Ahead, Matching!Residuals
<1>5. Pays' = Pays
  BY DEF Matching!Paid, Matching!Given, Matching!Crossed, Matching!Left, Matching!Ahead, Matching!Residuals
<1>6. Matching!Served(SentTerms)' = Matching!Served(SentTerms)
  BY DEF Matching!Served, Matching!Given, Matching!Crossed, Matching!Left, Matching!Ahead, Matching!Residuals
<1> QED BY <1>1, <1>2, <1>3, <1>4, <1>5, <1>6


----------------------------------------------------------------------------
(* Matching.                                                               *)

\* The types of the terms.
LEMMA TermTypes ==
  ASSUME TypeInv, phase \in Calling
  PROVE  /\ taker \in DOMAIN orders /\ orders[taker] \in OrderRec
         /\ SentTerms.trader = orders[taker].trader /\ SentTerms.trader \in Traders
         /\ SentTerms.side = orders[taker].side /\ SentTerms.side \in Sides
         /\ SentTerms.ticks = orders[taker].ticks /\ SentTerms.ticks \in Int
         /\ SentTerms.lots = orders[taker].lots /\ SentTerms.lots \in Int
         /\ orders[taker].resd \in Int /\ orders[taker].cost \in Int
<1>1. taker \in DOMAIN orders /\ orders[taker] \in OrderRec
  BY DEF TypeInv, TypeOK
<1> QED BY <1>1 DEF SentTerms, OrderRec

\* The larger of zero and the least of two.
LEMMA MaxMin ==
  ASSUME NEW a \in Int, NEW b \in Int
  PROVE  Matching!Max({0, Matching!Min({a, b})}) = IF Least(a, b) > 0 THEN Least(a, b) ELSE 0
<1>1. Matching!Min({a, b}) = Least(a, b)
  BY DEF Matching!Min, Least
<1>2. PICK c \in Int : c = Least(a, b)
  BY DEF Least
<1>3. Matching!Max({0, c}) = IF c > 0 THEN c ELSE 0
  BY DEF Matching!Max
<1> QED BY <1>1, <1>2, <1>3

\* The book as the call finds it.
BookInv == TypeInv /\ MakersKnown /\ MatchInv /\ AsSent /\ BalanceInv /\ KnownInv /\ OpenResting

\* While the call matches, the accounts are those of the orders, and the waiting ones
\* are in the book.
LEMMA MatchBook ==
  ASSUME BookInv, PublicKept, phase = "match"
  PROVE  /\ DOMAIN Accounts = Outstanding /\ taker \notin Outstanding
         /\ \A i \in Outstanding : Accounts[i] = Account(i) /\ orders[i] \in OrderRec
         /\ resting = {i \in Outstanding : orders[i].resd > 0}
         /\ IsFiniteSet(Outstanding) /\ Outstanding \subseteq DOMAIN orders
         /\ DOMAIN orders \subseteq Nat
<1>1. Accounts = [i \in Outstanding |-> Account(i)]
  BY DEF PublicKept, Public, Accounts
<1>2. Outstanding \subseteq DOMAIN orders /\ taker \notin Outstanding
  BY TakerUnknown DEF BookInv
<1>3. \A i \in DOMAIN orders : orders[i] \in OrderRec
  BY DEF BookInv, TypeInv, TypeOK
<1>4. resting = {i \in Outstanding : orders[i].resd > 0}
  BY DEF BookInv, KnownInv, BookKnown, Known, BalanceInv, RestingOpen, OpenResting
<1>5. maxOrderId \in Nat /\ DOMAIN orders \subseteq 1 .. maxOrderId
  BY DEF BookInv, TypeInv, TypeOK
<1>6. IsFiniteSet(Outstanding)
  <2>1. IsFiniteSet(1 .. maxOrderId)
    BY <1>5, FS_Interval
  <2> QED BY <1>2, <1>5, <2>1, FS_Subset
<1> QED BY <1>1, <1>2, <1>3, <1>4, <1>5, <1>6

\* The orders that the call crosses are those at which the loop does not stop for
\* the price.
LEMMA CrossingIs ==
  ASSUME BookInv, PublicKept, phase = "match"
  PROVE  /\ Crossing = {i \in resting : /\ orders[i].side = Opposite(orders[taker].side)
                                        /\ Spread(orders[taker], orders[i]) <= 0}
         /\ Crossing \subseteq Outstanding /\ IsFiniteSet(Crossing)
         /\ \A i \in Outstanding : Remaining[i] = orders[i].resd
         /\ \A i \in Crossing : Remaining[i] \in Nat \ {0}
<1>1. /\ DOMAIN Accounts = Outstanding
      /\ \A i \in Outstanding : Accounts[i] = Account(i) /\ orders[i] \in OrderRec
      /\ resting = {i \in Outstanding : orders[i].resd > 0}
      /\ IsFiniteSet(Outstanding)
  BY MatchBook
<1>2. /\ SentTerms.side = orders[taker].side /\ SentTerms.side \in Sides
      /\ SentTerms.ticks = orders[taker].ticks /\ SentTerms.ticks \in Int
  BY TermTypes DEF BookInv
<1>3. \A i \in Outstanding :
        /\ Accounts[i].side = orders[i].side /\ orders[i].side \in Sides
        /\ Accounts[i].ticks = orders[i].ticks /\ orders[i].ticks \in Int
        /\ Accounts[i].resd = orders[i].resd /\ orders[i].resd \in Int
  BY <1>1 DEF Account, OrderRec
<1>4. Crossing = {i \in Outstanding :
          /\ orders[i].side # orders[taker].side /\ orders[i].resd > 0
          /\ IF orders[taker].side = "Buy" THEN orders[i].ticks <= orders[taker].ticks
                                           ELSE orders[i].ticks >= orders[taker].ticks}
  BY <1>1, <1>2, <1>3 DEF Crossing, Matching!Crossed, Accounts
<1>5. Crossing = {i \in resting : /\ orders[i].side = Opposite(orders[taker].side)
                                  /\ Spread(orders[taker], orders[i]) <= 0}
  BY <1>1, <1>2, <1>3, <1>4 DEF Opposite, Spread
<1>6. Crossing \subseteq Outstanding /\ IsFiniteSet(Crossing)
  <2>1. Crossing \subseteq Outstanding
    BY <1>4
  <2> QED BY <1>1, <2>1, FS_Subset
<1>7. \A i \in Outstanding : Remaining[i] = orders[i].resd
  BY <1>1, <1>3 DEF Remaining, Matching!Residuals, Accounts
<1> QED BY <1>1, <1>3, <1>5, <1>6, <1>7

\* Who is before whom in the book, for the orders on the side that the call matches.
LEMMA PrecedesIs ==
  ASSUME BookInv, PublicKept, phase = "match",
         NEW i \in resting, NEW j \in resting,
         orders[i].side = Opposite(orders[taker].side), orders[j].side = orders[i].side
  PROVE  /\ i \in Int /\ j \in Int
         /\ Spread(orders[taker], orders[i]) \in Int /\ Spread(orders[taker], orders[j]) \in Int
         /\ Precedes(i, j) <=>
              \/ Spread(orders[taker], orders[i]) < Spread(orders[taker], orders[j])
              \/ Spread(orders[taker], orders[i]) = Spread(orders[taker], orders[j]) /\ i < j
<1>1. i \in DOMAIN orders /\ j \in DOMAIN orders /\ DOMAIN orders \subseteq Nat
  <2>1. DOMAIN orders \subseteq Nat
    BY MatchBook
  <2> QED BY <2>1 DEF BookInv, TypeInv, TypeOK
<1>2. orders[i] \in OrderRec /\ orders[j] \in OrderRec /\ orders[taker] \in OrderRec
  BY <1>1 DEF BookInv, TypeInv, TypeOK
<1>3. /\ orders[i].ticks \in Int /\ orders[j].ticks \in Int /\ orders[taker].ticks \in Int
      /\ orders[taker].side \in Sides
  BY <1>2 DEF OrderRec
<1> QED BY <1>1, <1>3 DEF Precedes, Spread, Opposite

\* What is ahead of an order in the closed form is before it in the book.
LEMMA AheadIs ==
  ASSUME BookInv, PublicKept, phase = "match", NEW i \in Crossing
  PROVE  Matching!Ahead(i, SentTerms) = {j \in Crossing \ {i} : Precedes(j, i)}
<1>1. /\ DOMAIN Accounts = Outstanding
      /\ \A j \in Outstanding : Accounts[j] = Account(j) /\ orders[j] \in OrderRec
  BY MatchBook
<1>2. SentTerms.side = orders[taker].side /\ orders[taker].side \in Sides
  BY TermTypes DEF BookInv
<1>3. \A j \in Crossing : /\ j \in Outstanding
                          /\ orders[j].side = Opposite(orders[taker].side)
  BY CrossingIs
<1>4. \A j \in Crossing : Accounts[j].ticks = orders[j].ticks
  BY <1>1, <1>3 DEF Account
<1>5. Matching!Ahead(i, SentTerms) =
        {j \in Crossing \ {i} :
           \/ orders[taker].side = "Buy" /\ orders[j].ticks < orders[i].ticks
           \/ orders[taker].side = "Sell" /\ orders[j].ticks > orders[i].ticks
           \/ orders[j].ticks = orders[i].ticks /\ j < i}
  BY <1>2, <1>4 DEF Matching!Ahead, Crossing, Accounts
<1>6. \A j \in Crossing : orders[j].ticks \in Int
  BY <1>1, <1>3 DEF OrderRec
<1> QED BY <1>2, <1>3, <1>5, <1>6 DEF Precedes, Opposite

\* What an order gives: its residual or what is left, the lesser of the two.
LEMMA GivesIs ==
  ASSUME BookInv, PublicKept, phase = "match", NEW i \in Outstanding
  PROVE  LET ahead == {j \in Crossing \ {i} : Precedes(j, i)}
             left  == orders[taker].lots - Total(Remaining, ahead)
         IN  /\ Gives[i] \in Nat
             /\ i \notin Crossing => Gives[i] = 0
             /\ i \in Crossing =>
                  /\ Total(Remaining, ahead) \in Nat /\ left \in Int
                  /\ Gives[i] = IF Least(orders[i].resd, left) > 0
                                THEN Least(orders[i].resd, left) ELSE 0
             /\ Pays[i] = Gives[i] * orders[i].ticks /\ Pays[i] \in Int
<1> DEFINE ahead == {j \in Crossing \ {i} : Precedes(j, i)}
           left  == orders[taker].lots - Total(Remaining, ahead)
<1>1. /\ DOMAIN Accounts = Outstanding /\ Accounts[i] = Account(i) /\ orders[i] \in OrderRec
  BY MatchBook
<1>2. SentTerms.lots = orders[taker].lots /\ orders[taker].lots \in Int
  BY TermTypes DEF BookInv
<1>3. orders[i].resd \in Int /\ orders[i].ticks \in Int
  BY <1>1 DEF OrderRec
<1>4. Gives[i] = IF i \in Crossing
                 THEN Matching!Max({0, Matching!Min({orders[i].resd, Matching!Left(i, SentTerms)})})
                 ELSE 0
  BY <1>1 DEF Gives, Matching!Given, Crossing, Accounts, Account
<1>5. ASSUME i \in Crossing
      PROVE  /\ Total(Remaining, ahead) \in Nat /\ left \in Int
             /\ Matching!Left(i, SentTerms) = left
  <2>1. Matching!Ahead(i, SentTerms) = ahead
    BY <1>5, AheadIs
  <2>2. IsFiniteSet(Crossing) /\ \A j \in Crossing : Remaining[j] \in Nat
    BY CrossingIs
  <2>3. ahead \in SUBSET Crossing
    OBVIOUS
  <2> HIDE DEF ahead
  <2>4. Total(Remaining, ahead) \in Nat
    BY <2>2, <2>3, TotalWithin
  <2>5. Matching!Left(i, SentTerms) = left
    BY <1>2, <2>1 DEF Matching!Left, Total, Remaining
  <2> QED BY <1>2, <2>4, <2>5
<1> HIDE DEF ahead, left
<1>6. i \in Crossing => Gives[i] = IF Least(orders[i].resd, left) > 0
                                   THEN Least(orders[i].resd, left) ELSE 0
  BY <1>3, <1>4, <1>5, MaxMin
<1>7. Gives[i] \in Nat
  <2>1. i \in Crossing => Least(orders[i].resd, left) \in Int
    BY <1>3, <1>5 DEF Least
  <2> QED BY <1>4, <1>6, <2>1
<1>8. Pays[i] = Gives[i] * orders[i].ticks
  BY <1>1 DEF Pays, Gives, Matching!Paid, Accounts, Account
<1>9. Pays[i] \in Int
  BY <1>3, <1>7, <1>8
<1> QED BY <1>4, <1>5, <1>6, <1>7, <1>8, <1>9 DEF ahead, left


\* The next maker of the loop gives what is available: those ahead of it are the
\* ones that the loop has served.
LEMMA NextGives ==
  ASSUME BookInv, PublicKept, WalkInv, phase = "match", NEW m \in resting, Crosses(m)
  PROVE  /\ m \in Crossing /\ m \notin walked /\ IsFiniteSet(walked)
         /\ Available(m) = Gives[m] /\ Gives[m] > 0
         /\ sumLots + Gives[m] = Least(orders[taker].lots, Total(Remaining, walked \cup {m}))
<1> DEFINE ahead == {j \in Crossing \ {m} : Precedes(j, m)}
           lots  == orders[taker].lots
           done  == Total(Remaining, walked)
<1>1. /\ m \in Unwalked /\ \A i \in Unwalked \ {m} : Precedes(m, i)
      /\ sumLots # orders[taker].resd /\ Spread(orders[taker], orders[m]) <= 0
  BY DEF Crosses, IsNext
<1>2. /\ m \notin walked /\ m \in Crossing
      /\ orders[m].side = Opposite(orders[taker].side)
  <2>1. m \notin walked /\ orders[m].side = Opposite(orders[taker].side)
    BY <1>1 DEF Unwalked
  <2> QED BY <1>1, <2>1, CrossingIs
<1>3. /\ orders[taker].resd = lots /\ walked \subseteq Crossing
      /\ \A w \in walked : Precedes(w, m)
      /\ sumLots = Least(lots, done)
  BY <1>1 DEF WalkInv
<1>4. /\ IsFiniteSet(Crossing) /\ Crossing \subseteq resting
      /\ \A i \in Crossing : /\ Remaining[i] \in Nat /\ Remaining[i] = orders[i].resd
                             /\ orders[i].side = Opposite(orders[taker].side)
                             /\ Remaining[i] > 0
  BY CrossingIs
<1>5. ahead = walked
  <2>1. ASSUME NEW j \in Crossing \ {m}, Precedes(j, m), j \notin walked
        PROVE  FALSE
    <3>1. j \in Unwalked
      BY <1>4, <2>1 DEF Unwalked
    <3>2. Precedes(m, j)
      BY <1>1, <2>1, <3>1
    <3> QED BY <1>2, <1>4, <2>1, <3>2, PrecedesIs
  <2> QED BY <1>2, <1>3, <2>1
<1>6. IsFiniteSet(walked)
  BY <1>3, <1>4, FS_Subset
<1>7. done \in Nat /\ lots \in Int /\ orders[m].resd \in Nat \ {0}
  <2>1. done \in Nat
    BY <1>3, <1>4, TotalWithin
  <2>2. lots \in Int
    BY TermTypes DEF BookInv
  <2> QED BY <1>2, <1>4, <2>1, <2>2
<1>8. Total(Remaining, walked \cup {m}) = orders[m].resd + done
  <2>1. \A x \in walked : Remaining[x] \in Int
    BY <1>3, <1>4
  <2>2. Remaining[m] = orders[m].resd
    BY <1>2, <1>4
  <2> QED BY <1>2, <1>6, <1>7, <2>1, <2>2, TotalAdd
<1>9. Gives[m] = IF Least(orders[m].resd, lots - done) > 0
                 THEN Least(orders[m].resd, lots - done) ELSE 0
  <2>1. m \in Outstanding
    BY <1>2, CrossingIs
  <2>2. Gives[m] = IF Least(orders[m].resd, lots - Total(Remaining, ahead)) > 0
                   THEN Least(orders[m].resd, lots - Total(Remaining, ahead)) ELSE 0
    BY <1>2, <2>1, GivesIs
  <2> HIDE DEF ahead
  <2> QED BY <1>5, <2>2
<1>10. sumLots = done /\ done < lots /\ Available(m) = Least(lots - done, orders[m].resd)
  <2>1. sumLots = done /\ done < lots
    BY <1>1, <1>3, <1>7 DEF Least
  <2> QED BY <1>3, <2>1 DEF Available
<1> HIDE DEF lots, done, ahead
<1>11. /\ Available(m) = Gives[m] /\ Gives[m] > 0
       /\ sumLots + Gives[m] = Least(lots, orders[m].resd + done)
  BY <1>7, <1>9, <1>10 DEF Least
<1> QED BY <1>2, <1>6, <1>8, <1>11 DEF lots, done

\* Those whom the closed form serves are among the crossed.
LEMMA ServedIs ==
  ASSUME BookInv, PublicKept, phase = "match"
  PROVE  /\ Matching!Served(SentTerms) = {i \in Outstanding : Gives[i] > 0}
         /\ Matching!Served(SentTerms) \subseteq Crossing
<1>1. Matching!Served(SentTerms) = {i \in Outstanding : Gives[i] > 0}
  BY MatchBook DEF Matching!Served, Gives, Accounts
<1>2. ASSUME NEW i \in Outstanding, i \notin Crossing
      PROVE  Gives[i] = 0
  BY <1>2, GivesIs, Zenon
<1> QED BY <1>1, <1>2

\* Among the orders that the loop has not looked at there is a first one.
LEMMA NextExists ==
  ASSUME BookInv, PublicKept, phase = "match", Unwalked # {}
  PROVE  \E m \in resting : IsNext(m)
<1> DEFINE R == {p \in Unwalked \X Unwalked : Precedes(p[1], p[2])}
<1>1. /\ Unwalked \subseteq resting
      /\ \A i \in Unwalked : orders[i].side = Opposite(orders[taker].side)
  BY DEF Unwalked
<1>2. IsFiniteSet(Unwalked)
  <2>1. Unwalked \subseteq Outstanding /\ IsFiniteSet(Outstanding)
    BY <1>1, MatchBook
  <2> QED BY <2>1, FS_Subset
<1>3. \A i, j \in Unwalked : <<i, j>> \in R <=> Precedes(i, j)
  OBVIOUS
<1>4. \A i, j \in Unwalked : i # j => <<i, j>> \in R \/ <<j, i>> \in R
  <2> SUFFICES ASSUME NEW i \in Unwalked, NEW j \in Unwalked, i # j
               PROVE  Precedes(i, j) \/ Precedes(j, i)
    BY <1>3
  <2> QED BY <1>1, PrecedesIs
<1>5. \A i, j, k \in Unwalked : <<i, j>> \in R /\ <<j, k>> \in R => <<i, k>> \in R
  <2> SUFFICES ASSUME NEW i \in Unwalked, NEW j \in Unwalked, NEW k \in Unwalked,
                      Precedes(i, j), Precedes(j, k)
               PROVE  Precedes(i, k)
    BY <1>3
  <2>1. /\ Spread(orders[taker], orders[i]) \in Int /\ Spread(orders[taker], orders[j]) \in Int
        /\ Spread(orders[taker], orders[k]) \in Int
        /\ i \in Int /\ j \in Int /\ k \in Int
    BY <1>1, PrecedesIs
  <2>2. \/ Spread(orders[taker], orders[i]) < Spread(orders[taker], orders[j])
        \/ Spread(orders[taker], orders[i]) = Spread(orders[taker], orders[j]) /\ i < j
    BY <1>1, PrecedesIs
  <2>3. \/ Spread(orders[taker], orders[j]) < Spread(orders[taker], orders[k])
        \/ Spread(orders[taker], orders[j]) = Spread(orders[taker], orders[k]) /\ j < k
    BY <1>1, PrecedesIs
  <2>4. \/ Spread(orders[taker], orders[i]) < Spread(orders[taker], orders[k])
        \/ Spread(orders[taker], orders[i]) = Spread(orders[taker], orders[k]) /\ i < k
    BY <2>1, <2>2, <2>3
  <2> QED BY <1>1, <2>4, PrecedesIs
<1> HIDE DEF R
<1>6. \E m \in Unwalked : \A i \in Unwalked \ {m} : <<m, i>> \in R
  BY <1>2, <1>4, <1>5, FirstMember
<1>7. PICK m \in Unwalked : \A i \in Unwalked \ {m} : <<m, i>> \in R
  BY <1>6
<1> QED BY <1>1, <1>3, <1>7 DEF IsNext

\* When the loop ends it has served those whom the closed form serves, and no other.
LEMMA LoopServes ==
  ASSUME BookInv, PublicKept, WalkInv, MatchesDrafted, phase = "match", LoopEnds
  PROVE  Makers = Matching!Served(SentTerms)
<1>1. walked = Makers /\ walked \subseteq Crossing
  BY DEF WalkInv
<1>2. \A i \in Makers : Gives[i] > 0
  BY DEF MatchesDrafted, Drafted, Makers
<1>3. ASSUME NEW i \in Crossing, i \notin walked
      PROVE  Gives[i] = 0
  <2> DEFINE ahead == {j \in Crossing \ {i} : Precedes(j, i)}
             lots  == orders[taker].lots
             done  == Total(Remaining, walked)
  <2>1. /\ i \in resting /\ i \in Outstanding /\ IsFiniteSet(Crossing)
        /\ orders[i].side = Opposite(orders[taker].side)
        /\ Spread(orders[taker], orders[i]) <= 0
        /\ \A j \in Crossing : Remaining[j] \in Nat
    BY CrossingIs
  <2>2. i \in Unwalked
    BY <1>3, <2>1 DEF Unwalked
  <2>3. orders[taker].resd = lots /\ sumLots = Least(lots, done)
        /\ \A w \in walked : Precedes(w, i)
    BY <2>2 DEF WalkInv
  <2>4. walked \subseteq ahead /\ ahead \in SUBSET Crossing
    BY <1>1, <1>3, <2>3
  <2>5. sumLots = lots
    <3> SUFFICES ASSUME sumLots # lots PROVE FALSE
      OBVIOUS
    <3>1. PICK m \in resting : IsNext(m)
      BY <2>2, NextExists
    <3>2. m \in Unwalked /\ (m # i => Precedes(m, i))
      BY <2>2, <3>1 DEF IsNext
    <3>3. m # i => Spread(orders[taker], orders[m]) <= Spread(orders[taker], orders[i])
      <4>1. orders[m].side = Opposite(orders[taker].side)
        BY <3>2 DEF Unwalked
      <4>2. /\ Spread(orders[taker], orders[m]) \in Int
            /\ Spread(orders[taker], orders[i]) \in Int
            /\ Precedes(m, i) =>
                 \/ Spread(orders[taker], orders[m]) < Spread(orders[taker], orders[i])
                 \/ Spread(orders[taker], orders[m]) = Spread(orders[taker], orders[i])
        BY <2>1, <3>1, <4>1, PrecedesIs
      <4> QED BY <3>2, <4>2
    <3>4. Spread(orders[taker], orders[m]) <= 0
      <4>1. orders[m].side = Opposite(orders[taker].side)
        BY <3>2 DEF Unwalked
      <4>2. Spread(orders[taker], orders[m]) \in Int /\ Spread(orders[taker], orders[i]) \in Int
        BY <2>1, <3>1, <4>1, PrecedesIs
      <4> QED BY <2>1, <3>3, <4>2
    <3>5. Crosses(m)
      BY <2>3, <3>1, <3>4 DEF Crosses
    <3> QED BY <3>1, <3>5 DEF LoopEnds
  <2>6. IsFiniteSet(ahead) /\ \A j \in ahead : Remaining[j] \in Nat
    BY <2>1, <2>4, FS_Subset
  <2>7. done <= Total(Remaining, ahead) /\ done \in Nat
    <3> HIDE DEF ahead
    <3>1. Total(Remaining, walked) <= Total(Remaining, ahead) /\ Total(Remaining, walked) \in Nat
      BY <2>4, <2>6, TotalWithin
    <3> QED BY <3>1
  <2>8. /\ Total(Remaining, ahead) \in Nat /\ lots - Total(Remaining, ahead) \in Int
        /\ Gives[i] = IF Least(orders[i].resd, lots - Total(Remaining, ahead)) > 0
                      THEN Least(orders[i].resd, lots - Total(Remaining, ahead)) ELSE 0
    BY <1>3, <2>1, GivesIs
  <2>9. lots \in Int /\ orders[i].resd \in Int
    <3>1. orders[i] \in OrderRec
      BY <2>1, MatchBook
    <3>2. lots \in Int
      BY TermTypes DEF BookInv
    <3> QED BY <3>1, <3>2 DEF OrderRec
  <2> HIDE DEF ahead, lots, done
  <2>10. lots <= done
    BY <2>3, <2>5, <2>7, <2>9 DEF Least
  <2>11. ~ (Least(orders[i].resd, lots - Total(Remaining, ahead)) > 0)
    BY <2>7, <2>8, <2>9, <2>10 DEF Least
  <2> QED BY <2>8, <2>11
<1>4. Matching!Served(SentTerms) \subseteq walked
  <2> SUFFICES ASSUME NEW i \in Matching!Served(SentTerms), i \notin walked
               PROVE  FALSE
    OBVIOUS
  <2>1. i \in Crossing /\ Gives[i] > 0
    BY ServedIs
  <2>2. Gives[i] = 0
    BY <1>3, <2>1
  <2> QED BY <2>1, <2>2
<1>5. walked \subseteq Matching!Served(SentTerms)
  <2>1. Crossing \subseteq Outstanding
    BY CrossingIs
  <2> QED BY <1>1, <1>2, <2>1, ServedIs
<1> QED BY <1>1, <1>4, <1>5


----------------------------------------------------------------------------
(* The steps, as the invariant sees them.                                  *)

\* No order, position, trade or match changes.
Quiet ==
  /\ UNCHANGED <<orders, maxOrderId, sessOrders, sessTrades, posns, matches, taker,
                 walked, sumLots, sumCost, next, committed>>
  /\ \/ phase' = phase /\ resting' = resting
     \/ phase' = "aborted"
     \/ phase \in {"place", "journal"} /\ phase' \in {"journal", "respond"}

\* A call throws, and only the call's order has changed.
Throws ==
  /\ phase \in {"idle", "place", "journal"} /\ phase' = "idle"
  /\ matches' = << >> /\ walked' = {} /\ sumCost' = 0
  /\ UNCHANGED <<sessOrders, sessTrades, posns>>
  /\ orders' = orders \/ (phase # "idle" /\ orders' = Freed)
  /\ maxOrderId' = maxOrderId \/ maxOrderId' <= MaxOrders
  /\ committed' = Public'

LEMMA CallForms ==
  ASSUME TypeInv, MatchesCleared, FaultsAreUndone, [Next]_vars
  PROVE  \/ Quiet \/ Throws \/ Creates \/ (\E m \in resting : MatchMaker(m))
         \/ MatchEnd \/ PrepareResponse \/ CommitMatch \/ Return
<1>1. ASSUME NEW day \in Days, NEW lots \in Lots, NEW minLots \in MinLots,
             Reject(day, lots, minLots)
      PROVE  Quiet
  BY <1>1 DEF Reject, Quiet, bookVars, sessVars, callVars, loopVars
<1>2. ASSUME NEW day \in Days, NEW lots \in Lots, NEW minLots \in MinLots,
             CreateThrows(day, lots, minLots)
      PROVE  Throws
  <2>1. /\ phase = "idle" /\ maxOrderId < MaxOrders /\ maxOrderId' = maxOrderId + 1
        /\ UNCHANGED <<orders, sessVars, matches>> /\ Leave("error")
    BY <1>2 DEF CreateThrows, Accept
  <2>2. maxOrderId' <= MaxOrders
    BY <2>1, ServAssumption DEF TypeInv, TypeOK
  <2>3. matches' = << >>
    BY <2>1 DEF MatchesCleared
  <2> QED BY <2>1, <2>2, <2>3 DEF Throws, Leave, sessVars
<1>3. ASSUME NEW m \in resting, MatchThrows(m)
      PROVE  FALSE
  BY <1>3 DEF MatchThrows, FaultsAreUndone
<1>4. CASE PlaceThrows
  BY <1>4 DEF PlaceThrows, Leave, ClearMatches, Throws, sessVars
<1>5. CASE PlaceAborts \/ CommitAborts
  BY <1>5 DEF PlaceAborts, CommitAborts, Abort, Quiet, bookVars, sessVars, callVars, loopVars
<1>6. CASE JournalThrows
  <2>1. orders' = Freed
    BY <1>6 DEF JournalThrows, Unplaced
  <2> QED BY <1>6, <2>1 DEF JournalThrows, Leave, ClearMatches, Throws, sessVars
<1>7. CASE ResponseThrows
  BY <1>7 DEF ResponseThrows, FaultsAreUndone
<1>8. CASE PlaceOrder
  BY <1>8 DEF PlaceOrder, Quiet, sessVars, callVars, loopVars
<1>9. CASE WriteJournal
  BY <1>9 DEF WriteJournal, Quiet, bookVars, sessVars, callVars, loopVars
<1>10. CASE UNCHANGED vars
  BY <1>10 DEF vars, Quiet, bookVars, sessVars, callVars, loopVars
<1> QED
  BY <1>1, <1>2, <1>3, <1>4, <1>5, <1>6, <1>7, <1>8, <1>9, <1>10
    DEF Next, Request, Step, Match, Creates

\* Everything that a call knows, and what is proved of it before.
CallInv == BookInv /\ DraftInv /\ IdInv /\ PosnInv /\ PosnsKept

LEMMA QuietKeeps ==
  ASSUME CallInv, MatchingInv, Quiet
  PROVE  MatchingInv'
<1> USE DEF MatchingInv
<1>1. /\ UNCHANGED <<orders, maxOrderId, sessOrders, sessTrades, posns, matches, taker,
                     walked, sumLots, sumCost, next, committed>>
      /\ \/ phase' = phase /\ resting' = resting
         \/ phase' = "aborted"
         \/ phase \in {"place", "journal"} /\ phase' \in {"journal", "respond"}
  BY DEF Quiet
<1>2. Public' = Public /\ Outstanding' = Outstanding /\ Fills' = Fills /\ Trades' = Trades
  BY <1>1, PublicSame
<1>3. SentTerms' = SentTerms
  BY <1>1 DEF SentTerms
<1>4. /\ Accounts' = Accounts /\ Remaining' = Remaining
      /\ Crossing' = Crossing /\ Gives' = Gives /\ Pays' = Pays
      /\ Matching!Served(SentTerms)' = Matching!Served(SentTerms)
  BY <1>1, <1>3, TermsSame
<1>5. Makers' = Makers /\ Settled' = Settled
  BY <1>1 DEF Makers, Settled
<1>6. PublicKept'
  BY <1>1, <1>2 DEF PublicKept
<1>7. TakerLast'
  BY <1>1 DEF TakerLast
<1>8. WalkInv'
  <2>1. phase' = "idle" => WalkInv'
    BY <1>1 DEF WalkInv
  <2>2. ASSUME phase' = "match" PROVE WalkInv'
    <3>1. phase = "match" /\ resting' = resting
      BY <1>1, <2>2
    <3>2. Unwalked' = Unwalked
      BY <1>1, <3>1 DEF Unwalked
    <3>3. \A i, j : Precedes(i, j)' = Precedes(i, j)
      BY <1>1 DEF Precedes
    <3> QED BY <1>1, <1>4, <1>5, <2>2, <3>1, <3>2, <3>3 DEF WalkInv
  <2> QED BY <2>1, <2>2 DEF WalkInv
<1>9. MatchesDrafted'
  <2>1. \A match : Drafted(match) => Drafted(match)'
    BY <1>1, <1>4 DEF Drafted
  <2> QED BY <1>1, <2>1 DEF MatchesDrafted
<1>10. AllServed'
  BY <1>1, <1>4, <1>5 DEF AllServed
<1>11. phase' = "commit" => phase = "commit"
  BY <1>1
<1>12. AccountsSettled'
  <2>1. \A i, S : Matching!AccountAfter(i, S, SentTerms)' = Matching!AccountAfter(i, S, SentTerms)
    BY <1>1, <1>3, <1>4 DEF Matching!AccountAfter, Accounts, Gives, Pays
  <2>2. \A i : Account(i)' = Account(i)
    BY <1>1 DEF Account
  <2> QED BY <1>1, <1>2, <1>4, <1>5, <1>11, <2>1, <2>2 DEF AccountsSettled
<1>13. PosnsSettled'
  <2>1. ASSUME NEW t, NEW S
        PROVE  Matching!PosnAfter(t, S, SentTerms)' = Matching!PosnAfter(t, S, SentTerms)
    BY <1>1, <1>3, <1>4, Zenon DEF Matching!PosnAfter, Accounts, Gives, Pays
  <2> QED BY <1>1, <1>5, <1>11, <2>1 DEF PosnsSettled
<1>14. FillsSettled'
  <2>1. \A S : Matching!FillsAfter(S, taker, SentTerms)' = Matching!FillsAfter(S, taker, SentTerms)
    BY <1>1, <1>3, <1>4 DEF Matching!FillsAfter, Accounts, Gives
  <2> QED BY <1>1, <1>2, <1>5, <1>11, <2>1 DEF FillsSettled
<1>15. TradeIds'
  BY <1>2 DEF TradeIds
<1> QED BY <1>6, <1>7, <1>8, <1>9, <1>10, <1>12, <1>13, <1>14, <1>15


\* A call that throws is a stutter.
LEMMA ThrowsKeeps ==
  ASSUME CallInv, MatchingInv, Throws
  PROVE  MatchingInv' /\ committed' = committed
<1>1. TypeInv /\ PublicKept /\ TakerLast /\ TradeIds
  BY DEF CallInv, BookInv, MatchingInv
<1>2. /\ phase \in {"idle", "place", "journal"} /\ phase' = "idle"
      /\ matches' = << >> /\ walked' = {} /\ sumCost' = 0
      /\ UNCHANGED <<sessOrders, sessTrades, posns>>
      /\ orders' = orders \/ (phase # "idle" /\ orders' = Freed)
      /\ maxOrderId' = maxOrderId \/ maxOrderId' <= MaxOrders
      /\ committed' = Public'
  BY DEF Throws
<1>3. \A i \in Outstanding : orders'[i] = orders[i]
  <2>1. CASE orders' = orders
    BY <2>1
  <2>2. CASE phase # "idle" /\ orders' = Freed
    <3>1. taker \in DOMAIN orders
      BY <1>1, <1>2, <2>2 DEF TypeInv, TypeOK
    <3>2. taker \notin Outstanding /\ Outstanding \subseteq DOMAIN orders
      BY <1>1, <1>2, <2>2, TakerUnknown
    <3> QED BY <1>1, <2>2, <3>1, <3>2, FreedTypes
  <2> QED BY <1>2, <2>1, <2>2
<1>4. Public' = Public /\ Trades' = Trades
  BY <1>2, <1>3, PublicSame
<1>5. committed' = committed
  BY <1>1, <1>2, <1>4 DEF PublicKept
<1>6. PublicKept' /\ TradeIds'
  BY <1>1, <1>2, <1>4 DEF PublicKept, TradeIds
<1>7. TakerLast'
  BY <1>1, <1>2 DEF TakerLast
<1>8. WalkInv'
  BY <1>2 DEF WalkInv
<1>9. MatchesDrafted' /\ AllServed' /\ AccountsSettled' /\ PosnsSettled' /\ FillsSettled'
  BY <1>2 DEF MatchesDrafted, AllServed, AccountsSettled, PosnsSettled, FillsSettled
<1> QED BY <1>5, <1>6, <1>7, <1>8, <1>9 DEF MatchingInv

LEMMA CreatesKeeps ==
  ASSUME CallInv, LotsAreNatural, MatchingInv, Creates
  PROVE  MatchingInv' /\ committed' = committed
<1>1. /\ TypeInv /\ MatchesCleared /\ SumsBegin
      /\ PublicKept /\ TakerLast /\ WalkInv /\ TradeIds
  BY DEF CallInv, BookInv, MatchInv, BalanceInv, MatchingInv
<1>2. PICK trader \in Traders, side \in Sides, ticks \in Ticks, lots \in Lots \ {0},
           minLots \in MinLots :
        /\ phase = "idle" /\ phase' = "match"
        /\ taker' \notin DOMAIN orders
        /\ orders'[taker'] = NewOrder(trader, side, ticks, lots, minLots)
        /\ \A i \in DOMAIN orders : orders'[i] = orders[i]
        /\ UNCHANGED <<resting, sessOrders, matches, walked, sumLots, sumCost, next>>
  BY <1>1, CreateFacts
<1>3. /\ maxOrderId < MaxOrders /\ maxOrderId' = maxOrderId + 1 /\ taker' = maxOrderId'
      /\ UNCHANGED <<sessTrades, posns, committed>>
  BY DEF Creates, CreateOrder, Accept, sessVars
<1>4. \A i \in Outstanding : orders'[i] = orders[i]
  BY <1>1, <1>2, TakerUnknown
<1>5. Public' = Public /\ Trades' = Trades
  BY <1>2, <1>3, <1>4, PublicSame
<1>6. PublicKept' /\ TradeIds'
  BY <1>1, <1>2, <1>3, <1>5 DEF PublicKept, TradeIds
<1>7. TakerLast'
  BY <1>1, <1>3, ServAssumption DEF TakerLast, TypeInv, TypeOK
<1>8. matches = << >> /\ matches' = << >> /\ walked' = {} /\ sumLots' = 0 /\ sumCost' = 0
  BY <1>1, <1>2 DEF MatchesCleared, SumsBegin, WalkInv
<1>9. WalkInv'
  <2>1. /\ orders'[taker'].resd = lots /\ orders'[taker'].lots = lots
        /\ orders'[taker'].cost = 0 /\ lots \in Nat \ {0}
    <3>1. lots \in Nat \ {0}
      BY DEF LotsAreNatural
    <3>2. PICK order : order = NewOrder(trader, side, ticks, lots, minLots)
      OBVIOUS
    <3>3. order.resd = lots /\ order.lots = lots /\ order.cost = 0
      BY <3>2 DEF NewOrder
    <3> QED BY <1>2, <3>1, <3>2, <3>3
  <2>2. Makers' = {}
    BY <1>8 DEF Makers
  <2>3. /\ Total(Remaining', {}) = 0 /\ Total(Gives', {}) = 0 /\ Total(Pays', {}) = 0
    BY TotalNone
  <2>4. Least(lots, 0) = 0
    BY <2>1 DEF Least
  <2>5. /\ sumLots' = Least(orders'[taker'].lots, Total(Remaining', walked'))
        /\ sumLots' = Total(Gives', walked') /\ sumCost' = Total(Pays', walked')
    BY <1>8, <2>1, <2>3, <2>4
  <2> QED BY <1>2, <1>8, <2>1, <2>2, <2>5 DEF WalkInv
<1>10. MatchesDrafted' /\ AllServed' /\ AccountsSettled' /\ PosnsSettled' /\ FillsSettled'
  BY <1>2, <1>8 DEF MatchesDrafted, AllServed, AccountsSettled, PosnsSettled, FillsSettled
<1> QED BY <1>3, <1>6, <1>7, <1>9, <1>10 DEF MatchingInv

\* The executions of a new match are drafted from its maker and the call's order.
LEMMA NewIsDrafted ==
  ASSUME CallInv, PublicKept, WalkInv, NEW m \in resting, MatchMaker(m)
  PROVE  Drafted(NewMatch(m, Available(m), sumLots', sumCost'))
<1> DEFINE match == NewMatch(m, Available(m), sumLots', sumCost')
<1>1. phase = "match" /\ Crosses(m) /\ BookInv
  BY DEF MatchMaker, CallInv
<1>2. m \in Crossing /\ Available(m) = Gives[m] /\ Gives[m] > 0
  BY <1>1, NextGives
<1>3. m \in Outstanding /\ orders[m].side = Opposite(orders[taker].side)
  BY <1>1, <1>2, CrossingIs
<1>4. m \in DOMAIN Accounts /\ Accounts[m] = Account(m)
  BY <1>1, <1>3, MatchBook
<1>5. Accounts[m].trader = orders[m].trader /\ Accounts[m].ticks = orders[m].ticks
  BY <1>4 DEF Account
<1>6. maxExecId \in Nat
  BY <1>1 DEF BookInv, TypeInv, TypeOK
<1>7. /\ match.maker = m /\ match.lots = Available(m)
      /\ match.makerTrade.trader = orders[m].trader
      /\ match.makerTrade.side = orders[m].side
      /\ match.makerTrade.role = "Maker"
      /\ match.makerTrade.id = maxExecId + 1 /\ match.makerTrade.matchId = maxExecId + 2
      /\ match.makerTrade.lastLots = Available(m)
      /\ match.makerTrade.lastTicks = orders[m].ticks
      /\ match.takerTrade.trader = orders[taker].trader
      /\ match.takerTrade.side = orders[taker].side
      /\ match.takerTrade.role = "Taker"
      /\ match.takerTrade.id = maxExecId + 2 /\ match.takerTrade.matchId = maxExecId + 1
      /\ match.takerTrade.lastLots = Available(m)
      /\ match.takerTrade.lastTicks = orders[m].ticks
  BY DEF NewMatch, ExecTrade, NewExec
<1> HIDE DEF match
<1>8. Drafted(match)
  BY <1>2, <1>3, <1>4, <1>5, <1>6, <1>7 DEF Drafted
<1> QED BY <1>8 DEF match

LEMMA MatchKeeps ==
  ASSUME CallInv, MatchingInv, NEW m \in resting, MatchMaker(m)
  PROVE  MatchingInv' /\ committed' = committed
<1>1. BookInv /\ TypeInv /\ PublicKept /\ TakerLast /\ WalkInv /\ MatchesDrafted /\ TradeIds
  BY DEF CallInv, BookInv, MatchingInv
<1>2. PICK match \in MatchRec :
        /\ phase = "match" /\ Crosses(m)
        /\ match = NewMatch(m, Available(m), sumLots', sumCost')
        /\ match.maker = m
        /\ walked' = walked \cup {m}
        /\ sumLots' = sumLots + Available(m)
        /\ sumCost' = sumCost + CostOf(Available(m), orders[m].ticks)
        /\ sumLots \in Int /\ sumCost \in Int
        /\ DOMAIN matches = 1 .. Len(matches) /\ Len(matches) \in Nat
        /\ DOMAIN matches' = 1 .. Len(matches) + 1
        /\ \A k \in DOMAIN matches : matches'[k] = matches[k]
        /\ matches'[Len(matches) + 1] = match
  BY <1>1, MatchFacts
<1>3. UNCHANGED <<orders, resting, maxOrderId, sessOrders, sessTrades, posns, phase, taker,
                  committed>>
  BY DEF MatchMaker
<1>4. Public' = Public /\ Trades' = Trades
  BY <1>3, PublicSame
<1>5. SentTerms' = SentTerms
  BY <1>3 DEF SentTerms
<1>6. /\ Accounts' = Accounts /\ Remaining' = Remaining
      /\ Crossing' = Crossing /\ Gives' = Gives /\ Pays' = Pays
  BY <1>3, <1>5, TermsSame
<1>7. /\ m \in Crossing /\ m \notin walked /\ IsFiniteSet(walked)
      /\ Available(m) = Gives[m] /\ Gives[m] > 0
      /\ sumLots + Gives[m] = Least(orders[taker].lots, Total(Remaining, walked \cup {m}))
  BY <1>1, <1>2, NextGives
<1>8. PublicKept' /\ TakerLast' /\ TradeIds'
  BY <1>1, <1>3, <1>4 DEF PublicKept, TakerLast, TradeIds
<1>9. \A k \in DOMAIN matches' : k \in DOMAIN matches \/ k = Len(matches) + 1
  BY <1>2
<1>10. Makers' = Makers \cup {m}
  <2>1. \A k \in DOMAIN matches : k \in DOMAIN matches'
    BY <1>2
  <2>2. Len(matches) + 1 \in DOMAIN matches'
    BY <1>2
  <2> QED BY <1>2, <1>9, <2>1, <2>2 DEF Makers
<1>11. MatchesDrafted'
  <2>1. ASSUME NEW x, Drafted(x) PROVE Drafted(x)'
    BY <1>3, <1>6, <2>1 DEF Drafted
  <2>2. Drafted(match)
    BY <1>1, <1>2, NewIsDrafted DEF CallInv
  <2>3. \A k \in DOMAIN matches : Drafted(matches[k])
    BY <1>1, <1>2 DEF MatchesDrafted
  <2>4. ASSUME NEW k \in DOMAIN matches' PROVE Drafted(matches'[k])
    BY <1>2, <1>9, <2>2, <2>3
  <2>5. ASSUME NEW k \in DOMAIN matches' PROVE Drafted(matches[k])'
    <3>1. PICK x : x = matches'[k] /\ Drafted(x)
      BY <2>4
    <3>2. Drafted(x)'
      BY <2>1, <3>1
    <3> QED BY <3>1, <3>2 DEF Drafted
  <2> QED BY <2>5 DEF MatchesDrafted
<1>12. WalkInv'
  <2>1. /\ orders[taker].resd = orders[taker].lots /\ orders[taker].cost = 0
        /\ walked = Makers /\ walked \subseteq Crossing
        /\ \A w \in walked : \A j \in Unwalked : Precedes(w, j)
        /\ sumLots = Total(Gives, walked) /\ sumCost = Total(Pays, walked)
    BY <1>1, <1>2 DEF WalkInv
  <2>2. walked \subseteq Outstanding /\ m \in Outstanding
    BY <1>1, <1>2, <1>7, <2>1, CrossingIs
  <2>3. ASSUME NEW i \in Outstanding
        PROVE  /\ Gives[i] \in Int /\ Pays[i] \in Int
               /\ Pays[i] = CostOf(Gives[i], orders[i].ticks)
    <3>1. Gives[i] \in Nat /\ Pays[i] = Gives[i] * orders[i].ticks /\ Pays[i] \in Int
      BY <1>1, <1>2, GivesIs
    <3> QED BY <3>1 DEF CostOf
  <2>4. /\ Total(Gives, walked \cup {m}) = Gives[m] + Total(Gives, walked)
        /\ Total(Gives, walked) \in Int
    BY <1>7, <2>2, <2>3, TotalAdd
  <2>5. /\ Total(Pays, walked \cup {m}) = Pays[m] + Total(Pays, walked)
        /\ Total(Pays, walked) \in Int
    BY <1>7, <2>2, <2>3, TotalAdd
  <2>6. sumLots' = Total(Gives, walked \cup {m})
    BY <1>2, <1>7, <2>1, <2>2, <2>3, <2>4
  <2>7. sumCost' = Total(Pays, walked \cup {m})
    BY <1>2, <1>7, <2>1, <2>2, <2>3, <2>5
  <2>8. sumLots' = Least(orders[taker].lots, Total(Remaining, walked \cup {m}))
    BY <1>2, <1>7
  <2>9. Unwalked' = Unwalked \ {m}
    BY <1>2, <1>3 DEF Unwalked
  <2>10. \A w \in walked \cup {m} : \A j \in Unwalked \ {m} : Precedes(w, j)
    BY <1>2, <2>1 DEF Crosses, IsNext
  <2>11. \A i, j : Precedes(i, j)' = Precedes(i, j)
    BY <1>3 DEF Precedes
  <2>12. \A w \in walked' : \A j \in Unwalked' : Precedes(w, j)'
    BY <1>2, <2>9, <2>10, <2>11
  <2> QED BY <1>2, <1>3, <1>6, <1>7, <1>10, <2>1, <2>6, <2>7, <2>8, <2>12 DEF WalkInv
<1>13. AllServed' /\ AccountsSettled' /\ PosnsSettled' /\ FillsSettled'
  BY <1>2, <1>3 DEF AllServed, AccountsSettled, PosnsSettled, FillsSettled
<1> QED BY <1>3, <1>8, <1>11, <1>12, <1>13 DEF MatchingInv

\* The makers of the call, what they give and what they are paid.
LEMMA MakerTypes ==
  ASSUME TypeInv, MakersKnown, MatchesDrafted, phase \in Calling
  PROVE  /\ IsFiniteSet(Makers) /\ Makers \subseteq DOMAIN Accounts
         /\ \A k \in DOMAIN matches :
              /\ matches[k] \in MatchRec
              /\ matches[k].maker \in Makers /\ Drafted(matches[k])
         /\ \A i \in Makers : /\ Gives[i] \in Int /\ Gives[i] > 0
                              /\ Accounts[i].ticks \in Int
                              /\ Pays[i] = Gives[i] * Accounts[i].ticks /\ Pays[i] \in Int
<1>1. \A k \in DOMAIN matches : /\ matches[k] \in MatchRec /\ Drafted(matches[k])
                                /\ matches[k].maker \in DOMAIN orders
  BY DEF TypeInv, TypeOK, MatchesDrafted, MakersKnown
<1>2. IsFiniteSet(Makers)
  <2>1. Makers \subseteq 1 .. maxOrderId /\ maxOrderId \in Nat
    BY <1>1 DEF Makers, TypeInv, TypeOK
  <2>2. IsFiniteSet(1 .. maxOrderId)
    BY <2>1, FS_Interval
  <2> QED BY <2>1, <2>2, FS_Subset
<1>3. \A k \in DOMAIN matches : matches[k].maker \in Makers
  BY DEF Makers
<1>4. ASSUME NEW i \in Makers
      PROVE  /\ Gives[i] \in Int /\ Gives[i] > 0 /\ i \in DOMAIN Accounts
             /\ Accounts[i].ticks \in Int
             /\ Pays[i] = Gives[i] * Accounts[i].ticks /\ Pays[i] \in Int
  <2>1. PICK match \in MatchRec : Drafted(match) /\ match.maker = i
    BY <1>1 DEF Makers
  <2>2. /\ match.lots \in Int /\ match.makerTrade \in ExecRec
    BY DEF MatchRec
  <2>3. match.makerTrade.lastTicks \in Int
    BY <2>2 DEF ExecRec
  <2>4. Gives[i] \in Int /\ Gives[i] > 0 /\ i \in DOMAIN Accounts /\ Accounts[i].ticks \in Int
    BY <2>1, <2>2, <2>3 DEF Drafted
  <2>5. Pays[i] = Gives[i] * Accounts[i].ticks
    BY <2>4 DEF Pays, Gives, Matching!Paid, Accounts
  <2> QED BY <2>4, <2>5
<1> QED BY <1>1, <1>2, <1>3, <1>4

\* When matching ends, the makers are those whom the closed form serves.
LEMMA MatchEndKeeps ==
  ASSUME CallInv, MatchingInv, MatchEnd
  PROVE  MatchingInv' /\ committed' = committed
<1>1. BookInv /\ TypeInv /\ PublicKept /\ TakerLast /\ WalkInv /\ MatchesDrafted /\ TradeIds
  BY DEF CallInv, BookInv, MatchingInv
<1>2. /\ phase = "match" /\ phase' = "place" /\ taker \in DOMAIN orders
      /\ \A i \in DOMAIN orders \ {taker} : orders'[i] = orders[i]
      /\ matches = << >> => orders' = orders
      /\ matches # << >> => orders'[taker] = OrderTrade(orders[taker], sumLots, sumCost)
      /\ UNCHANGED <<sessOrders, matches, taker>>
  BY <1>1, MatchEndFacts
<1>3. LoopEnds /\ UNCHANGED <<maxOrderId, sessTrades, posns, committed>>
  BY DEF MatchEnd, sessVars
<1>4. \A i \in Outstanding : orders'[i] = orders[i]
  BY <1>1, <1>2, TakerUnknown
<1>5. Public' = Public /\ Trades' = Trades
  BY <1>2, <1>3, <1>4, PublicSame
<1>6. /\ orders'[taker].trader = orders[taker].trader
      /\ orders'[taker].side = orders[taker].side
      /\ orders'[taker].ticks = orders[taker].ticks
      /\ orders'[taker].lots = orders[taker].lots
  <2>1. CASE matches = << >>
    BY <1>2, <2>1
  <2>2. CASE matches # << >>
    BY <1>2, <2>2 DEF OrderTrade
  <2> QED BY <2>1, <2>2
<1>7. SentTerms' = SentTerms
  BY <1>2, <1>6 DEF SentTerms
<1>8. /\ Accounts' = Accounts /\ Gives' = Gives /\ Pays' = Pays
      /\ Matching!Served(SentTerms)' = Matching!Served(SentTerms)
  BY <1>3, <1>7, TermsSame
<1>9. Makers' = Makers
  BY <1>2 DEF Makers
<1>10. PublicKept' /\ TakerLast' /\ TradeIds' /\ WalkInv'
  BY <1>1, <1>2, <1>3, <1>5 DEF PublicKept, TakerLast, TradeIds, WalkInv
<1>11. MatchesDrafted'
  <2>1. ASSUME NEW x, Drafted(x) PROVE Drafted(x)'
    BY <1>2, <1>6, <1>8, <2>1 DEF Drafted
  <2> QED BY <1>1, <1>2, <2>1 DEF MatchesDrafted
<1>12. AllServed'
  <2>1. Makers = Matching!Served(SentTerms)
    BY <1>1, <1>2, <1>3, LoopServes
  <2>2. /\ orders[taker].resd = orders[taker].lots /\ orders[taker].cost = 0
        /\ walked = Makers /\ sumLots = Total(Gives, walked) /\ sumCost = Total(Pays, walked)
    BY <1>1, <1>2 DEF WalkInv
  <2>3. orders[taker].lots \in Int /\ sumLots \in Int /\ sumCost \in Int
    <3>1. orders[taker] \in OrderRec
      BY <1>1, <1>2 DEF TypeInv, TypeOK
    <3> QED BY <1>1, <3>1 DEF TypeInv, TypeOK, OrderRec
  <2>4. CASE matches = << >>
    <3>1. Makers = {}
      BY <2>4 DEF Makers
    <3>2. sumLots = 0 /\ sumCost = 0
      BY <2>2, <3>1, TotalNone
    <3>3. orders' = orders
      BY <1>2, <2>4
    <3>4. /\ orders'[taker'].resd = orders'[taker'].lots - Total(Gives', Makers')
          /\ orders'[taker'].cost = Total(Pays', Makers')
      BY <1>2, <1>8, <1>9, <2>2, <2>3, <3>2, <3>3
    <3> QED BY <1>8, <1>9, <2>1, <3>4 DEF AllServed
  <2>5. CASE matches # << >>
    <3>1. orders'[taker].resd = orders[taker].lots - sumLots /\ orders'[taker].cost = 0 + sumCost
      BY <1>2, <2>2, <2>5 DEF OrderTrade
    <3>2. /\ orders'[taker'].resd = orders'[taker'].lots - Total(Gives', Makers')
          /\ orders'[taker'].cost = Total(Pays', Makers')
      BY <1>2, <1>6, <1>8, <1>9, <2>2, <2>3, <3>1
    <3> QED BY <1>8, <1>9, <2>1, <3>2 DEF AllServed
  <2> QED BY <2>4, <2>5
<1>13. AccountsSettled' /\ PosnsSettled' /\ FillsSettled'
  BY <1>2 DEF AccountsSettled, PosnsSettled, FillsSettled
<1> QED BY <1>3, <1>10, <1>11, <1>12, <1>13 DEF MatchingInv


----------------------------------------------------------------------------
(* The commit.                                                             *)

\* What the closed form makes of the state depends on the orders between calls and on
\* the call's order.
LEMMA AfterSame ==
  ASSUME UNCHANGED <<committed, taker>>, SentTerms' = SentTerms
  PROVE  /\ \A i, S : Matching!AccountAfter(i, S, SentTerms)' = Matching!AccountAfter(i, S, SentTerms)
         /\ \A t, S : Matching!PosnAfter(t, S, SentTerms)' = Matching!PosnAfter(t, S, SentTerms)
         /\ \A S : Matching!FillsAfter(S, taker, SentTerms)' = Matching!FillsAfter(S, taker, SentTerms)
<1>1. Gives' = Gives /\ Pays' = Pays
  BY TermsSame
<1>2. \A i, S : Matching!AccountAfter(i, S, SentTerms)' = Matching!AccountAfter(i, S, SentTerms)
  BY <1>1 DEF Matching!AccountAfter, Gives, Pays
<1>3. ASSUME NEW t, NEW S
      PROVE  Matching!PosnAfter(t, S, SentTerms)' = Matching!PosnAfter(t, S, SentTerms)
  BY <1>1, Zenon DEF Matching!PosnAfter, Gives, Pays
<1>4. \A S : Matching!FillsAfter(S, taker, SentTerms)' = Matching!FillsAfter(S, taker, SentTerms)
  BY <1>1 DEF Matching!FillsAfter, Gives
<1> QED BY <1>2, <1>3, <1>4

\* As long as no maker has been served, the closed form changes nothing.
LEMMA NothingAfter ==
  ASSUME NEW t, committed.posns[t] \in PosnRec
  PROVE  Matching!PosnAfter(t, {}, SentTerms) = committed.posns[t]
<1> DEFINE made   == {i \in {} : Accounts[i].trader = t}
           taken  == IF t = SentTerms.trader THEN {} ELSE {}
           bought == IF SentTerms.side = "Buy" THEN taken ELSE made
           sold   == IF SentTerms.side = "Buy" THEN made ELSE taken
<1>1. bought = {} /\ sold = {}
  OBVIOUS
<1>2. Matching!PosnAfter(t, {}, SentTerms) =
        [buyLots  |-> committed.posns[t].buyLots  + Total(Gives, bought),
         buyCost  |-> committed.posns[t].buyCost  + Total(Pays, bought),
         sellLots |-> committed.posns[t].sellLots + Total(Gives, sold),
         sellCost |-> committed.posns[t].sellCost + Total(Pays, sold)]
  BY Zenon DEF Matching!PosnAfter, Total, Gives, Pays, Accounts
<1>3. /\ Total(Gives, bought) = 0 /\ Total(Pays, bought) = 0
      /\ Total(Gives, sold) = 0 /\ Total(Pays, sold) = 0
  BY <1>1, TotalNone
<1> HIDE DEF bought, sold
<1> QED BY <1>2, <1>3 DEF PosnRec

\* The response begins the commit: no maker is settled, and the session has the order.
LEMMA PrepareKeeps ==
  ASSUME CallInv, MatchingInv, PrepareResponse
  PROVE  MatchingInv' /\ committed' = committed
<1>1. TypeInv /\ PublicKept /\ TakerLast /\ MatchesDrafted /\ AllServed /\ TradeIds
  BY DEF CallInv, BookInv, MatchingInv
<1>2. /\ phase = "respond" /\ phase' = "commit" /\ next' = 1
      /\ UNCHANGED <<orders, maxOrderId, sessTrades, posns, matches, taker, committed>>
  BY DEF PrepareResponse, bookVars
<1>3. Outstanding' = Outstanding \cup {taker} /\ taker \notin Outstanding
  BY <1>1, <1>2, OutstandingFacts, TakerUnknown
<1>4. SentTerms' = SentTerms
  BY <1>2 DEF SentTerms
<1>5. /\ Accounts' = Accounts /\ Gives' = Gives /\ Pays' = Pays
      /\ Matching!Served(SentTerms)' = Matching!Served(SentTerms)
  BY <1>2, <1>4, TermsSame
<1>6. Makers' = Makers
  BY <1>2 DEF Makers
<1>7. Settled' = {}
  <2>1. \A k \in DOMAIN matches : ~ (k < 1)
    BY <1>1 DEF TypeInv, TypeOK
  <2> QED BY <1>2, <2>1 DEF Settled
<1>8. Trades' = Trades
  BY <1>2 DEF Trades
<1>9. /\ Accounts = [i \in Outstanding |-> Account(i)]
      /\ committed.posns = posns /\ committed.fills = Fills
  BY <1>1, <1>2 DEF PublicKept, Public, Accounts
<1>10. PublicKept' /\ TakerLast' /\ TradeIds' /\ WalkInv'
  BY <1>1, <1>2, <1>8 DEF PublicKept, TakerLast, TradeIds, WalkInv
<1>11. MatchesDrafted'
  <2>1. ASSUME NEW x, Drafted(x) PROVE Drafted(x)'
    BY <1>2, <1>5, <2>1 DEF Drafted
  <2> QED BY <1>1, <1>2, <2>1 DEF MatchesDrafted
<1>12. AllServed'
  BY <1>1, <1>2, <1>5, <1>6 DEF AllServed
<1>13. AccountsSettled'
  <2>1. \A i : Account(i)' = Account(i)
    BY <1>2 DEF Account
  <2>2. ASSUME NEW i \in DOMAIN Accounts
        PROVE  Account(i)' = Matching!AccountAfter(i, Settled, SentTerms)'
    <3>1. Matching!AccountAfter(i, {}, SentTerms) = Accounts[i]
      BY DEF Matching!AccountAfter, Accounts
    <3>2. Matching!AccountAfter(i, {}, SentTerms)' = Matching!AccountAfter(i, {}, SentTerms)
      BY <1>2, <1>4, AfterSame
    <3>3. Matching!AccountAfter(i, Settled, SentTerms)' = Matching!AccountAfter(i, {}, SentTerms)'
      BY <1>7
    <3> QED BY <1>9, <2>1, <3>1, <3>2, <3>3
  <2>3. /\ taker' \in Outstanding' /\ DOMAIN Accounts' = Outstanding' \ {taker'}
    BY <1>2, <1>3, <1>5, <1>9
  <2> QED BY <1>5, <2>2, <2>3 DEF AccountsSettled
<1>14. PosnsSettled'
  <2>1. ASSUME NEW t \in Traders
        PROVE  posns'[t] = Matching!PosnAfter(t, Settled, SentTerms)'
    <3>1. committed.posns[t] \in PosnRec
      BY <1>1, <1>9 DEF TypeInv, TypeOK
    <3>2. Matching!PosnAfter(t, {}, SentTerms) = posns[t]
      BY <1>9, <3>1, NothingAfter
    <3>3. Matching!PosnAfter(t, {}, SentTerms)' = Matching!PosnAfter(t, {}, SentTerms)
      BY <1>2, <1>4, AfterSame
    <3>4. Matching!PosnAfter(t, Settled, SentTerms)' = Matching!PosnAfter(t, {}, SentTerms)'
      BY <1>7
    <3> QED BY <1>2, <3>2, <3>3, <3>4
  <2> QED BY <2>1 DEF PosnsSettled
<1>15. FillsSettled'
  <2>1. Fills' = Fills
    BY <1>8 DEF Fills, Pairs
  <2>2. Matching!FillsAfter({}, taker, SentTerms) = Fills
    BY <1>9 DEF Matching!FillsAfter
  <2>3. Matching!FillsAfter({}, taker, SentTerms)' = Matching!FillsAfter({}, taker, SentTerms)
    BY <1>2, <1>4, AfterSame
  <2>4. Matching!FillsAfter(Settled, taker, SentTerms)' = Matching!FillsAfter({}, taker, SentTerms)'
    BY <1>7
  <2> QED BY <2>1, <2>2, <2>3, <2>4 DEF FillsSettled
<1> QED BY <1>2, <1>10, <1>11, <1>12, <1>13, <1>14, <1>15 DEF MatchingInv

\* With the next match committed, its maker is settled, and it was not before.
LEMMA SettledGrows ==
  ASSUME TypeInv, MakersDiffer, phase = "commit", next \in DOMAIN matches, next \in Nat,
         matches' = matches, next' = next + 1
  PROVE  /\ Settled' = Settled \cup {matches[next].maker}
         /\ matches[next].maker \notin Settled /\ Settled \subseteq Makers
<1>1. \A l \in DOMAIN matches : l \in Nat
  BY DEF TypeInv, TypeOK
<1>2. {l \in DOMAIN matches : l < next + 1} = {l \in DOMAIN matches : l < next} \cup {next}
  BY <1>1
<1>3. Settled' = {matches[k].maker : k \in {l \in DOMAIN matches : l < next + 1}}
  BY DEF Settled
<1>4. Settled' = Settled \cup {matches[next].maker}
  BY <1>2, <1>3 DEF Settled
<1>5. matches[next].maker \notin Settled
  BY <1>1 DEF Settled, MakersDiffer
<1> QED BY <1>4, <1>5 DEF Settled, Makers

\* A sum with or without one term more.
LEMMA TotalGrows ==
  ASSUME NEW v, NEW S, IsFiniteSet(S), NEW m, m \notin S,
         \A x \in S \cup {m} : v[x] \in Int,
         NEW T \in SUBSET S, NEW U, U = T \/ U = T \cup {m}
  PROVE  /\ Total(v, T) \in Int
         /\ Total(v, U) = Total(v, T) + (IF m \in U THEN v[m] ELSE 0)
<1>1. IsFiniteSet(T) /\ \A x \in T : v[x] \in Int
  BY FS_Subset
<1>2. m \notin T /\ v[m] \in Int
  OBVIOUS
<1>3. Total(v, T) \in Int /\ Total(v, T \cup {m}) = v[m] + Total(v, T)
  BY <1>1, <1>2, TotalAdd
<1>4. CASE U = T \cup {m}
  BY <1>2, <1>3, <1>4
<1>5. CASE U = T
  BY <1>2, <1>3, <1>5
<1> QED BY <1>4, <1>5

\* The makers of S from whom trader t buys, and to whom t sells.
Bought(t, S) ==
  IF SentTerms.side = "Buy" THEN (IF t = SentTerms.trader THEN S ELSE {})
                            ELSE {i \in S : Accounts[i].trader = t}
Sold(t, S) ==
  IF SentTerms.side = "Buy" THEN {i \in S : Accounts[i].trader = t}
                            ELSE (IF t = SentTerms.trader THEN S ELSE {})

LEMMA PosnAfterIs ==
  \A t, S : Matching!PosnAfter(t, S, SentTerms) =
              [buyLots  |-> committed.posns[t].buyLots  + Total(Gives, Bought(t, S)),
               buyCost  |-> committed.posns[t].buyCost  + Total(Pays, Bought(t, S)),
               sellLots |-> committed.posns[t].sellLots + Total(Gives, Sold(t, S)),
               sellCost |-> committed.posns[t].sellCost + Total(Pays, Sold(t, S))]
BY Zenon DEF Matching!PosnAfter, Total, Gives, Pays, Accounts, Bought, Sold

\* What one maker more adds to the position of t.
LEMMA PosnGrows ==
  ASSUME NEW t, NEW S, IsFiniteSet(S), NEW m, m \notin S, committed.posns[t] \in PosnRec,
         \A x \in S \cup {m} : Gives[x] \in Int /\ Pays[x] \in Int
  PROVE  LET p == Matching!PosnAfter(t, S, SentTerms)
             buys == m \in Bought(t, S \cup {m})
             sells == m \in Sold(t, S \cup {m})
         IN  /\ p \in PosnRec
             /\ Matching!PosnAfter(t, S \cup {m}, SentTerms) =
                  [buyLots  |-> p.buyLots  + (IF buys THEN Gives[m] ELSE 0),
                   buyCost  |-> p.buyCost  + (IF buys THEN Pays[m] ELSE 0),
                   sellLots |-> p.sellLots + (IF sells THEN Gives[m] ELSE 0),
                   sellCost |-> p.sellCost + (IF sells THEN Pays[m] ELSE 0)]
<1> DEFINE B == Bought(t, S)
           L == Sold(t, S)
           BM == Bought(t, S \cup {m})
           LM == Sold(t, S \cup {m})
           Grows(v, T, U) == /\ Total(v, T) \in Int
                             /\ Total(v, U) = Total(v, T) + (IF m \in U THEN v[m] ELSE 0)
<1>1. /\ B \in SUBSET S /\ (BM = B \/ BM = B \cup {m})
      /\ L \in SUBSET S /\ (LM = L \/ LM = L \cup {m})
  BY DEF Bought, Sold
<1>2. ASSUME NEW v, \A x \in S \cup {m} : v[x] \in Int
      PROVE  Grows(v, B, BM) /\ Grows(v, L, LM)
  <2>1. ASSUME NEW T \in SUBSET S, NEW U, U = T \/ U = T \cup {m}
        PROVE  Grows(v, T, U)
    BY <1>2, <2>1, TotalGrows
  <2> HIDE DEF Grows, B, BM, L, LM
  <2> QED BY <1>1, <2>1
<1> HIDE DEF Grows, B, BM, L, LM
<1>3. Grows(Gives, B, BM) /\ Grows(Gives, L, LM)
  BY <1>2
<1>4. Grows(Pays, B, BM) /\ Grows(Pays, L, LM)
  BY <1>2
<1>5. PICK a \in Int, b \in Int, c \in Int, d \in Int :
        committed.posns[t] = [buyLots |-> a, buyCost |-> b, sellLots |-> c, sellCost |-> d]
  BY DEF PosnRec
<1>6. PICK p : p = Matching!PosnAfter(t, S, SentTerms)
  OBVIOUS
<1>7. p = [buyLots  |-> a + Total(Gives, B), buyCost  |-> b + Total(Pays, B),
           sellLots |-> c + Total(Gives, L), sellCost |-> d + Total(Pays, L)]
  BY <1>5, <1>6, PosnAfterIs DEF B, L
<1>8. PICK q : q = Matching!PosnAfter(t, S \cup {m}, SentTerms)
  OBVIOUS
<1>9. q = [buyLots  |-> a + Total(Gives, BM), buyCost  |-> b + Total(Pays, BM),
           sellLots |-> c + Total(Gives, LM), sellCost |-> d + Total(Pays, LM)]
  <2>1. Matching!PosnAfter(t, S \cup {m}, SentTerms) =
          [buyLots  |-> committed.posns[t].buyLots  + Total(Gives, BM),
           buyCost  |-> committed.posns[t].buyCost  + Total(Pays, BM),
           sellLots |-> committed.posns[t].sellLots + Total(Gives, LM),
           sellCost |-> committed.posns[t].sellCost + Total(Pays, LM)]
    BY PosnAfterIs, Zenon DEF BM, LM
  <2> QED BY <1>5, <1>8, <2>1
<1>10. Gives[m] \in Int /\ Pays[m] \in Int
  OBVIOUS
<1>11. p \in PosnRec
  <2>1. /\ a + Total(Gives, B) \in Int /\ b + Total(Pays, B) \in Int
        /\ c + Total(Gives, L) \in Int /\ d + Total(Pays, L) \in Int
    BY <1>3, <1>4 DEF Grows
  <2> QED BY <1>7, <2>1 DEF PosnRec
<1>12. q = [buyLots  |-> p.buyLots  + (IF m \in BM THEN Gives[m] ELSE 0),
            buyCost  |-> p.buyCost  + (IF m \in BM THEN Pays[m] ELSE 0),
            sellLots |-> p.sellLots + (IF m \in LM THEN Gives[m] ELSE 0),
            sellCost |-> p.sellCost + (IF m \in LM THEN Pays[m] ELSE 0)]
  <2>1. a + Total(Gives, BM) = a + Total(Gives, B) + (IF m \in BM THEN Gives[m] ELSE 0)
    BY <1>3, <1>10 DEF Grows
  <2>2. b + Total(Pays, BM) = b + Total(Pays, B) + (IF m \in BM THEN Pays[m] ELSE 0)
    BY <1>4, <1>10 DEF Grows
  <2>3. c + Total(Gives, LM) = c + Total(Gives, L) + (IF m \in LM THEN Gives[m] ELSE 0)
    BY <1>3, <1>10 DEF Grows
  <2>4. d + Total(Pays, LM) = d + Total(Pays, L) + (IF m \in LM THEN Pays[m] ELSE 0)
    BY <1>4, <1>10 DEF Grows
  <2> QED BY <1>7, <1>9, <2>1, <2>2, <2>3, <2>4
<1> QED BY <1>6, <1>8, <1>11, <1>12 DEF BM, LM

\* What one pass of commitMatches does, for maker m, with these two trades.
Commits(m, made, took) ==
  /\ phase = "commit" /\ m \in Makers /\ m \in DOMAIN Accounts /\ m # taker
  /\ m \notin Settled /\ Settled \subseteq Makers /\ Settled' = Settled \cup {m}
  /\ orders'[m] = OrderTrade(orders[m], Gives[m], CostOf(Gives[m], orders[m].ticks))
  /\ \A i \in Outstanding \ {m} : orders'[i] = orders[i]
  /\ made \in ExecRec /\ took \in ExecRec
  /\ made.trader = Accounts[m].trader /\ took.trader = orders[taker].trader
  /\ made.trader \in Traders /\ took.trader \in Traders
  /\ made.side = Opposite(orders[taker].side) /\ took.side = orders[taker].side
  /\ made.lastLots = Gives[m] /\ made.lastTicks = Accounts[m].ticks
  /\ took.lastLots = Gives[m] /\ took.lastTicks = Accounts[m].ticks
  /\ made.role = "Maker" /\ made.matchId = made.id + 1 /\ made.orderId = m
  /\ took.role = "Taker" /\ took.matchId + 1 = took.id /\ took.orderId = taker
  /\ took.id = made.id + 1
  /\ \A e \in Trades : e \in ExecRec /\ e.id # made.id /\ e.id # took.id
  /\ Trades' = Trades \cup {made, took}
  /\ posns' = [[posns EXCEPT ![made.trader] = AddTrade(@, made)]
                 EXCEPT ![took.trader] = AddTrade(@, took)]
  /\ UNCHANGED <<sessOrders, matches, phase, taker, committed, maxOrderId>>

LEMMA CommitForms ==
  ASSUME CallInv, MatchingInv, CommitMatch
  PROVE  \E m, made, took : Commits(m, made, took)
<1>1. /\ TypeInv /\ MakersKnown /\ MakersDiffer /\ MatchesDrafted /\ AccountsSettled
      /\ DraftInv /\ IdInv /\ PosnInv
  BY DEF CallInv, BookInv, MatchInv, MatchingInv
<1>2. PICK match : match = matches[next]
  OBVIOUS
<1>3. PICK m : m = match.maker
  OBVIOUS
<1>4. /\ phase = "commit" /\ next \in DOMAIN matches /\ next' = next + 1 /\ next \in Nat
      /\ m \in DOMAIN orders /\ orders'[m] = Traded(match)
      /\ \A i \in DOMAIN orders \ {m} : orders'[i] = orders[i]
      /\ UNCHANGED <<sessOrders, matches, phase, taker>>
  BY <1>1, <1>2, <1>3, CommitFacts
<1>5. /\ UNCHANGED <<committed, maxOrderId>>
      /\ sessTrades' = SessionTrades(match) /\ posns' = AfterTrades(match)
  BY <1>2, Zenon DEF CommitMatch
<1>6. match \in MatchRec /\ Drafted(match) /\ m \in Makers
  BY <1>1, <1>2, <1>3, <1>4, MakerTypes
<1>7. PICK made \in ExecRec, took \in ExecRec :
        made = match.makerTrade /\ took = match.takerTrade
  BY <1>6 DEF MatchRec
<1>8. m \notin Settled /\ Settled \subseteq Makers /\ Settled' = Settled \cup {m}
  BY <1>1, <1>2, <1>3, <1>4, SettledGrows
<1>9. /\ m \in DOMAIN Accounts /\ match.lots = Gives[m]
      /\ made.trader = Accounts[m].trader /\ took.trader = orders[taker].trader
      /\ made.side = Opposite(orders[taker].side) /\ took.side = orders[taker].side
      /\ made.lastLots = Gives[m] /\ made.lastTicks = Accounts[m].ticks
      /\ took.lastLots = Gives[m] /\ took.lastTicks = Accounts[m].ticks
      /\ made.role = "Maker" /\ made.matchId = made.id + 1
      /\ took.role = "Taker" /\ took.matchId + 1 = took.id
  BY <1>3, <1>6, <1>7 DEF Drafted
<1>10. m # taker
  BY <1>1, <1>4, <1>9 DEF AccountsSettled
<1>11. orders'[m] = OrderTrade(orders[m], Gives[m], CostOf(Gives[m], orders[m].ticks))
  BY <1>3, <1>4, <1>9 DEF Traded
<1>12. \A i \in Outstanding \ {m} : orders'[i] = orders[i]
  BY <1>1, <1>4, TakerUnknown
<1>13. made.trader \in Traders /\ took.trader \in Traders
  BY DEF ExecRec
<1>14. made.orderId = m /\ took.orderId = taker
  BY <1>1, <1>2, <1>3, <1>4, <1>7 DEF DraftInv, MakerDrafts, TakerDrafts, Uncommitted
<1>15. took.id = made.id + 1
  BY <1>1, <1>2, <1>4, <1>7 DEF IdInv, MatchIds
<1>16. \A e \in Trades : e \in ExecRec /\ e.id # made.id /\ e.id # took.id
  <2> SUFFICES ASSUME NEW t \in Traders, NEW e \in sessTrades[t]
               PROVE  e \in ExecRec /\ e.id # made.id /\ e.id # took.id
    BY DEF Trades
  <2>1. Waits(next)
    BY <1>4 DEF Waits
  <2>2. e.id # made.id /\ e.id # took.id
    BY <1>1, <1>2, <1>4, <1>7, <2>1 DEF PosnInv, MatchesUnsettled
  <2> QED BY <1>1, <2>2 DEF TypeInv, TypeOK
<1>17. Trades' = Trades \cup {made, took}
  <2>1. \A t \in Traders : sessTrades'[t] = sessTrades[t] \cup {e \in {made, took} : e.trader = t}
    BY <1>5, <1>7 DEF SessionTrades
  <2> QED BY <1>13, <2>1 DEF Trades
<1>18. posns' = [[posns EXCEPT ![made.trader] = AddTrade(@, made)]
                   EXCEPT ![took.trader] = AddTrade(@, took)]
  BY <1>5, <1>7, <1>9, Zenon DEF AfterTrades, TakerTrader
<1>19. Commits(m, made, took)
  BY <1>4, <1>5, <1>6, <1>8, <1>9, <1>10, <1>11, <1>12, <1>13, <1>14, <1>15, <1>16, <1>17, <1>18
    DEF Commits
<1> QED BY <1>19

\* An order's account, with what is left and what it cost changed.
LEMMA ServedAccount ==
  ASSUME NEW i, NEW x, NEW y
  PROVE  [Account(i) EXCEPT !.resd = x, !.cost = y] =
           [trader |-> orders[i].trader, side |-> orders[i].side, ticks |-> orders[i].ticks,
            lots |-> orders[i].lots, resd |-> x, cost |-> y]
<1> DEFINE b == [Account(i) EXCEPT !.resd = x, !.cost = y]
           order == orders[i]
<1>1. PICK a : a = Account(i)
  OBVIOUS
<1>2. a = [trader |-> order.trader, side |-> order.side, ticks |-> order.ticks,
           lots |-> order.lots, resd |-> order.resd, cost |-> order.cost]
  BY <1>1 DEF Account
<1>3. b = [f \in {"trader", "side", "ticks", "lots", "resd", "cost"} |-> b[f]]
  <2>1. DOMAIN b = {"trader", "side", "ticks", "lots", "resd", "cost"}
    BY <1>1, <1>2
  <2> QED BY <2>1
<1>4. /\ b.trader = order.trader /\ b.side = order.side
      /\ b.ticks = order.ticks /\ b.lots = order.lots
  BY <1>1, <1>2
<1>5. b.resd = x /\ b.cost = y
  BY <1>1, <1>2
<1> HIDE DEF b
<1>6. b = [trader |-> order.trader, side |-> order.side, ticks |-> order.ticks,
           lots |-> order.lots, resd |-> x, cost |-> y]
  BY <1>3, <1>4, <1>5
<1> QED BY <1>6 DEF b

\* The account of the maker, and no other, is as the closed form says.
LEMMA CommitAccounts ==
  ASSUME CallInv, MatchingInv, NEW m, NEW made, NEW took, Commits(m, made, took),
         SentTerms' = SentTerms
  PROVE  AccountsSettled'
<1>1. /\ taker \in Outstanding /\ DOMAIN Accounts = Outstanding \ {taker}
      /\ \A i \in DOMAIN Accounts : Account(i) = Matching!AccountAfter(i, Settled, SentTerms)
  BY DEF MatchingInv, AccountsSettled, Commits
<1>2. /\ m \in DOMAIN Accounts /\ m \notin Settled /\ Settled' = Settled \cup {m}
      /\ orders'[m] = OrderTrade(orders[m], Gives[m], CostOf(Gives[m], orders[m].ticks))
      /\ \A i \in Outstanding \ {m} : orders'[i] = orders[i]
      /\ UNCHANGED <<sessOrders, taker, committed>>
  BY DEF Commits
<1>3. Accounts' = Accounts /\ Outstanding' = Outstanding
  BY <1>2 DEF Accounts, Outstanding
<1>4. ASSUME NEW i \in DOMAIN Accounts
      PROVE  Account(i)' = Matching!AccountAfter(i, Settled \cup {m}, SentTerms)
  <2>1. CASE i # m
    <3>1. Account(i)' = Account(i)
      BY <1>1, <1>2, <2>1 DEF Account
    <3>2. Matching!AccountAfter(i, Settled \cup {m}, SentTerms) =
            Matching!AccountAfter(i, Settled, SentTerms)
      BY <2>1 DEF Matching!AccountAfter
    <3> QED BY <1>1, <3>1, <3>2
  <2>2. CASE i = m
    <3>1. Accounts[m] = Account(m)
      BY <1>1, <1>2 DEF Matching!AccountAfter, Accounts
    <3>2. Pays[m] = CostOf(Gives[m], orders[m].ticks)
      BY <1>2, <3>1 DEF Pays, Gives, Matching!Paid, Accounts, Account, CostOf
    <3>3. Account(m)' = [trader |-> orders[m].trader, side |-> orders[m].side,
                         ticks |-> orders[m].ticks, lots |-> orders[m].lots,
                         resd |-> orders[m].resd - Gives[m],
                         cost |-> orders[m].cost + Pays[m]]
      BY <1>2, <3>2 DEF Account, OrderTrade
    <3>4. Matching!AccountAfter(m, Settled \cup {m}, SentTerms) =
            [Account(m) EXCEPT !.resd = @ - Gives[m], !.cost = @ + Pays[m]]
      BY <3>1 DEF Matching!AccountAfter, Gives, Pays, Accounts
    <3>5. [Account(m) EXCEPT !.resd = @ - Gives[m], !.cost = @ + Pays[m]] =
            [trader |-> orders[m].trader, side |-> orders[m].side,
             ticks |-> orders[m].ticks, lots |-> orders[m].lots,
             resd |-> orders[m].resd - Gives[m], cost |-> orders[m].cost + Pays[m]]
      <4>1. Account(m).resd = orders[m].resd /\ Account(m).cost = orders[m].cost
        BY DEF Account
      <4>2. [Account(m) EXCEPT !.resd = @ - Gives[m], !.cost = @ + Pays[m]] =
              [Account(m) EXCEPT !.resd = orders[m].resd - Gives[m],
                                 !.cost = orders[m].cost + Pays[m]]
        BY <4>1
      <4> QED BY <4>2, ServedAccount, Zenon
    <3> QED BY <2>2, <3>3, <3>4, <3>5
  <2> QED BY <2>1, <2>2
<1>5. ASSUME NEW i \in DOMAIN Accounts
      PROVE  Account(i)' = Matching!AccountAfter(i, Settled, SentTerms)'
  <2>1. PICK S : S = Settled \cup {m}
    OBVIOUS
  <2>2. Matching!AccountAfter(i, S, SentTerms)' = Matching!AccountAfter(i, S, SentTerms)
    BY <1>2, AfterSame
  <2>3. Matching!AccountAfter(i, Settled, SentTerms)' = Matching!AccountAfter(i, S, SentTerms)'
    BY <1>2, <2>1
  <2> QED BY <1>4, <2>1, <2>2, <2>3
<1> QED BY <1>1, <1>2, <1>3, <1>5 DEF AccountsSettled

\* A trade adds its lots and cost to one side of a position.
LEMMA AddTradeIs ==
  ASSUME NEW posn \in PosnRec, NEW trade \in ExecRec, NEW cost \in Int,
         cost = CostOf(trade.lastLots, trade.lastTicks)
  PROVE  AddTrade(posn, trade) =
           [buyLots  |-> posn.buyLots  + (IF trade.side = "Buy" THEN trade.lastLots ELSE 0),
            buyCost  |-> posn.buyCost  + (IF trade.side = "Buy" THEN cost ELSE 0),
            sellLots |-> posn.sellLots + (IF trade.side = "Buy" THEN 0 ELSE trade.lastLots),
            sellCost |-> posn.sellCost + (IF trade.side = "Buy" THEN 0 ELSE cost)]
<1>1. /\ posn.buyLots \in Int /\ posn.buyCost \in Int
      /\ posn.sellLots \in Int /\ posn.sellCost \in Int
  BY DEF PosnRec
<1>2. CASE trade.side = "Buy"
  <2>1. AddTrade(posn, trade) =
          [buyLots |-> posn.buyLots + trade.lastLots, buyCost |-> posn.buyCost + cost,
           sellLots |-> posn.sellLots, sellCost |-> posn.sellCost]
    BY <1>2 DEF AddTrade, PosnRec
  <2> QED BY <1>1, <1>2, <2>1
<1>3. CASE trade.side # "Buy"
  <2>1. AddTrade(posn, trade) =
          [buyLots |-> posn.buyLots, buyCost |-> posn.buyCost,
           sellLots |-> posn.sellLots + trade.lastLots, sellCost |-> posn.sellCost + cost]
    BY <1>3 DEF AddTrade, PosnRec
  <2> QED BY <1>1, <1>3, <2>1
<1> QED BY <1>2, <1>3

\* Maker and taker trade, and both positions are as the closed form says.
LEMMA CommitPosns ==
  ASSUME CallInv, MatchingInv, NEW m, NEW made, NEW took, Commits(m, made, took),
         SentTerms' = SentTerms
  PROVE  PosnsSettled'
<1>1. /\ TypeInv /\ MakersKnown /\ MatchesDrafted /\ PosnsSettled
  BY DEF CallInv, BookInv, MatchingInv
<1>2. /\ phase = "commit" /\ m \in Makers /\ m \notin Settled /\ Settled \subseteq Makers
      /\ Settled' = Settled \cup {m}
      /\ made \in ExecRec /\ took \in ExecRec
      /\ made.trader = Accounts[m].trader /\ took.trader = orders[taker].trader
      /\ made.side = Opposite(orders[taker].side) /\ took.side = orders[taker].side
      /\ made.lastLots = Gives[m] /\ made.lastTicks = Accounts[m].ticks
      /\ took.lastLots = Gives[m] /\ took.lastTicks = Accounts[m].ticks
      /\ made.trader \in Traders /\ took.trader \in Traders
      /\ UNCHANGED <<taker, committed>>
  BY DEF Commits
<1>3. posns' = [[posns EXCEPT ![made.trader] = AddTrade(@, made)]
                  EXCEPT ![took.trader] = AddTrade(@, took)]
  BY Zenon DEF Commits
<1>4. /\ IsFiniteSet(Makers)
      /\ \A i \in Makers : /\ Gives[i] \in Int /\ Pays[i] \in Int
                           /\ Pays[i] = Gives[i] * Accounts[i].ticks
  BY <1>1, <1>2, MakerTypes
<1>5. PICK g \in Int, c \in Int : g = Gives[m] /\ c = Pays[m]
  BY <1>2, <1>4
<1>6. /\ made.lastLots = g /\ c = CostOf(made.lastLots, made.lastTicks)
      /\ took.lastLots = g /\ c = CostOf(took.lastLots, took.lastTicks)
  BY <1>2, <1>4, <1>5 DEF CostOf
<1>7. /\ SentTerms.trader = took.trader /\ SentTerms.side = took.side
      /\ took.side \in Sides /\ made.side = Opposite(took.side)
  BY <1>2 DEF SentTerms, ExecRec
<1>8. PICK S : S = Settled \cup {m}
  OBVIOUS
<1>9. ASSUME NEW t \in Traders
      PROVE  posns'[t] = Matching!PosnAfter(t, S, SentTerms)
  <2>1. posns[t] = Matching!PosnAfter(t, Settled, SentTerms) /\ posns[t] \in PosnRec
    BY <1>1, <1>2 DEF PosnsSettled, TypeInv, TypeOK
  <2>2. PICK p0 \in PosnRec : p0 = posns[t]
    BY <2>1
  <2>3. PICK p : p = IF made.trader = t THEN AddTrade(p0, made) ELSE p0
    OBVIOUS
  <2>4. posns'[t] = IF took.trader = t THEN AddTrade(p, took) ELSE p
    <3>1. DOMAIN posns = Traders
      BY <1>1 DEF TypeInv, TypeOK
    <3> QED BY <1>2, <1>3, <2>2, <2>3, <3>1
  <2>5. /\ p0.buyLots \in Int /\ p0.buyCost \in Int /\ p0.sellLots \in Int /\ p0.sellCost \in Int
        /\ p0 = [buyLots |-> p0.buyLots, buyCost |-> p0.buyCost,
                 sellLots |-> p0.sellLots, sellCost |-> p0.sellCost]
    BY DEF PosnRec
  <2>6. p = [buyLots  |-> p0.buyLots  + (IF made.trader = t /\ made.side = "Buy" THEN g ELSE 0),
             buyCost  |-> p0.buyCost  + (IF made.trader = t /\ made.side = "Buy" THEN c ELSE 0),
             sellLots |-> p0.sellLots + (IF made.trader = t /\ made.side # "Buy" THEN g ELSE 0),
             sellCost |-> p0.sellCost + (IF made.trader = t /\ made.side # "Buy" THEN c ELSE 0)]
    <3>1. CASE made.trader = t
      <4>1. p = [buyLots  |-> p0.buyLots  + (IF made.side = "Buy" THEN g ELSE 0),
                 buyCost  |-> p0.buyCost  + (IF made.side = "Buy" THEN c ELSE 0),
                 sellLots |-> p0.sellLots + (IF made.side = "Buy" THEN 0 ELSE g),
                 sellCost |-> p0.sellCost + (IF made.side = "Buy" THEN 0 ELSE c)]
        BY <1>2, <1>6, <2>3, <3>1, AddTradeIs
      <4> QED BY <3>1, <4>1
    <3>2. CASE made.trader # t
      BY <2>3, <2>5, <3>2
    <3> QED BY <3>1, <3>2
  <2>7. p \in PosnRec /\ p.buyLots \in Int /\ p.buyCost \in Int /\ p.sellLots \in Int /\ p.sellCost \in Int
    BY <2>5, <2>6 DEF PosnRec
  <2>8. posns'[t] =
          [buyLots  |-> p.buyLots  + (IF took.trader = t /\ took.side = "Buy" THEN g ELSE 0),
           buyCost  |-> p.buyCost  + (IF took.trader = t /\ took.side = "Buy" THEN c ELSE 0),
           sellLots |-> p.sellLots + (IF took.trader = t /\ took.side # "Buy" THEN g ELSE 0),
           sellCost |-> p.sellCost + (IF took.trader = t /\ took.side # "Buy" THEN c ELSE 0)]
    <3>1. CASE took.trader = t
      <4>1. AddTrade(p, took) =
              [buyLots  |-> p.buyLots  + (IF took.side = "Buy" THEN g ELSE 0),
               buyCost  |-> p.buyCost  + (IF took.side = "Buy" THEN c ELSE 0),
               sellLots |-> p.sellLots + (IF took.side = "Buy" THEN 0 ELSE g),
               sellCost |-> p.sellCost + (IF took.side = "Buy" THEN 0 ELSE c)]
        BY <1>2, <1>6, <2>7, AddTradeIs
      <4> QED BY <2>4, <3>1, <4>1
    <3>2. CASE took.trader # t
      BY <2>4, <2>6, <2>7, <3>2
    <3> QED BY <3>1, <3>2
  <2>9. Matching!PosnAfter(t, S, SentTerms) =
          [buyLots  |-> p0.buyLots  + (IF m \in Bought(t, S) THEN g ELSE 0),
           buyCost  |-> p0.buyCost  + (IF m \in Bought(t, S) THEN c ELSE 0),
           sellLots |-> p0.sellLots + (IF m \in Sold(t, S) THEN g ELSE 0),
           sellCost |-> p0.sellCost + (IF m \in Sold(t, S) THEN c ELSE 0)]
    <3>1. IsFiniteSet(Settled) /\ \A i \in Settled \cup {m} : Gives[i] \in Int /\ Pays[i] \in Int
      BY <1>2, <1>4, FS_Subset
    <3>2. committed.posns[t] \in PosnRec
      BY DEF CallInv, PosnsKept
    <3> QED BY <1>2, <1>5, <1>8, <2>1, <2>2, <3>1, <3>2, PosnGrows, Zenon
  <2>10. /\ m \in Bought(t, S) <=> \/ took.trader = t /\ took.side = "Buy"
                                   \/ made.trader = t /\ made.side = "Buy"
         /\ m \in Sold(t, S) <=> \/ took.trader = t /\ took.side # "Buy"
                                 \/ made.trader = t /\ made.side # "Buy"
         /\ made.side = "Buy" <=> took.side # "Buy"
    BY <1>2, <1>7, <1>8 DEF Bought, Sold, Opposite
  <2> QED BY <2>5, <2>6, <2>8, <2>9, <2>10
<1>10. ASSUME NEW t \in Traders
       PROVE  posns'[t] = Matching!PosnAfter(t, Settled, SentTerms)'
  <2>1. Matching!PosnAfter(t, S, SentTerms)' = Matching!PosnAfter(t, S, SentTerms)
    BY <1>2, AfterSame
  <2>2. Matching!PosnAfter(t, Settled, SentTerms)' = Matching!PosnAfter(t, S, SentTerms)'
    BY <1>2, <1>8
  <2> QED BY <1>9, <2>1, <2>2
<1> QED BY <1>10 DEF PosnsSettled


\* The trades of the next match pair with each other only, and add one fill.
LEMMA CommitFills ==
  ASSUME CallInv, MatchingInv, NEW m, NEW made, NEW took, Commits(m, made, took),
         SentTerms' = SentTerms
  PROVE  FillsSettled' /\ TradeIds'
<1>1. TradeIds /\ FillsSettled
  BY DEF MatchingInv
<1>2. /\ phase = "commit" /\ Settled' = Settled \cup {m}
      /\ made \in ExecRec /\ took \in ExecRec
      /\ took.lastLots = Gives[m] /\ took.lastTicks = Accounts[m].ticks
      /\ made.role = "Maker" /\ made.matchId = made.id + 1 /\ made.orderId = m
      /\ took.role = "Taker" /\ took.matchId + 1 = took.id /\ took.orderId = taker
      /\ took.id = made.id + 1
      /\ \A e \in Trades : e \in ExecRec /\ e.id # made.id /\ e.id # took.id
      /\ Trades' = Trades \cup {made, took}
      /\ UNCHANGED <<taker, committed>>
  BY DEF Commits
<1>3. TradeIds'
  BY <1>1, <1>2 DEF TradeIds
<1>4. /\ made.id \in Int /\ took.matchId \in Int
      /\ \A e \in Trades : e.id \in Int /\ e.matchId \in Int
  BY <1>2 DEF ExecRec
<1>5. made.id = took.matchId
  BY <1>2, <1>4
<1>6. Pairs' = Pairs \cup {<<made, took>>}
  <2>1. ASSUME NEW e \in Trades \cup {made, took}, NEW f \in Trades \cup {made, took},
               e.role = "Maker", f.role = "Taker", e.id = f.matchId
        PROVE  (e \in Trades /\ f \in Trades) \/ (e = made /\ f = took)
    <3>1. e # took /\ f # made
      BY <1>2, <2>1
    <3>2. CASE e \in Trades /\ f = took
      BY <1>2, <1>5, <2>1, <3>2
    <3>3. CASE e = made /\ f \in Trades
      <4>1. f.matchId + 1 = f.id
        BY <1>1, <2>1, <3>3 DEF TradeIds
      <4> QED BY <1>2, <2>1, <3>3, <4>1
    <3> QED BY <3>1, <3>2, <3>3
  <2>2. Pairs' = {p \in (Trades \cup {made, took}) \X (Trades \cup {made, took}) :
                    /\ p[1].role = "Maker" /\ p[2].role = "Taker" /\ p[1].id = p[2].matchId}
    BY <1>2 DEF Pairs
  <2>3. ASSUME NEW e, NEW f
        PROVE  <<e, f>> \in Pairs' <=> <<e, f>> \in Pairs \/ (e = made /\ f = took)
    BY <1>2, <1>5, <2>1, <2>2 DEF Pairs
  <2>4. \A p \in Pairs' : p = <<p[1], p[2]>>
    BY <2>2
  <2>5. \A p \in Pairs : p = <<p[1], p[2]>>
    BY DEF Pairs
  <2> QED BY <2>3, <2>4, <2>5
<1>7. PICK one : one = [maker |-> m, taker |-> taker, lots |-> Gives[m],
                        ticks |-> Accounts[m].ticks]
  OBVIOUS
<1>8. Fills' = Fills \cup {one}
  <2> DEFINE Fill(p) == [maker |-> p[1].orderId, taker |-> p[2].orderId,
                         lots |-> p[2].lastLots, ticks |-> p[2].lastTicks]
  <2>1. Fill(<<made, took>>) = one
    BY <1>2, <1>7
  <2>2. Fills = {Fill(p) : p \in Pairs} /\ Fills' = {Fill(p) : p \in Pairs'}
    BY DEF Fills
  <2> HIDE DEF Fill
  <2> QED BY <1>6, <2>1, <2>2
<1>9. PICK S : S = Settled \cup {m}
  OBVIOUS
<1>10. Matching!FillsAfter(S, taker, SentTerms) = Fills \cup {one}
  <2> DEFINE Fill(i) == [maker |-> i, taker |-> taker, lots |-> Gives[i],
                         ticks |-> Accounts[i].ticks]
  <2>1. \A R : Matching!FillsAfter(R, taker, SentTerms) =
                 committed.fills \cup {Fill(i) : i \in R}
    BY DEF Matching!FillsAfter, Gives, Accounts
  <2>2. Fill(m) = one
    BY <1>7
  <2>3. Fills = Matching!FillsAfter(Settled, taker, SentTerms)
    BY <1>1, <1>2 DEF FillsSettled
  <2> HIDE DEF Fill
  <2> QED BY <1>9, <2>1, <2>2, <2>3
<1>11. Fills' = Matching!FillsAfter(Settled, taker, SentTerms)'
  <2>1. Matching!FillsAfter(S, taker, SentTerms)' = Matching!FillsAfter(S, taker, SentTerms)
    BY <1>2, AfterSame
  <2>2. Matching!FillsAfter(Settled, taker, SentTerms)' = Matching!FillsAfter(S, taker, SentTerms)'
    BY <1>2, <1>9
  <2> QED BY <1>8, <1>10, <2>1, <2>2
<1> QED BY <1>3, <1>11 DEF FillsSettled

\* One pass of commitMatches keeps the invariant.
LEMMA CommitKeeps ==
  ASSUME CallInv, MatchingInv, CommitMatch
  PROVE  MatchingInv' /\ committed' = committed
<1>1. PICK m, made, took : Commits(m, made, took)
  BY CommitForms
<1>2. AccountsSettled /\ MatchesDrafted /\ AllServed /\ TakerLast
  BY DEF MatchingInv
<1>3. /\ phase = "commit" /\ m # taker
      /\ \A i \in Outstanding \ {m} : orders'[i] = orders[i]
      /\ UNCHANGED <<matches, phase, taker, committed, maxOrderId>>
  BY <1>1 DEF Commits
<1>4. orders'[taker] = orders[taker]
  BY <1>2, <1>3 DEF AccountsSettled
<1>5. SentTerms' = SentTerms
  BY <1>3, <1>4 DEF SentTerms
<1>6. /\ Accounts' = Accounts /\ Gives' = Gives /\ Pays' = Pays
      /\ Matching!Served(SentTerms)' = Matching!Served(SentTerms)
  BY <1>3, <1>5, TermsSame
<1>7. Makers' = Makers
  BY <1>3 DEF Makers
<1>8. PublicKept' /\ WalkInv' /\ TakerLast'
  BY <1>2, <1>3 DEF PublicKept, WalkInv, TakerLast
<1>9. MatchesDrafted'
  <2>1. ASSUME NEW x, Drafted(x) PROVE Drafted(x)'
    BY <1>3, <1>4, <1>6, <2>1 DEF Drafted
  <2> QED BY <1>2, <1>3, <2>1 DEF MatchesDrafted
<1>10. AllServed'
  BY <1>2, <1>3, <1>4, <1>6, <1>7 DEF AllServed
<1>11. AccountsSettled' /\ PosnsSettled' /\ FillsSettled' /\ TradeIds'
  BY <1>1, <1>5, CommitAccounts, CommitPosns, CommitFills
<1> QED BY <1>3, <1>8, <1>9, <1>10, <1>11 DEF MatchingInv


----------------------------------------------------------------------------
(* The refinement.                                                         *)

\* A call that returns has submitted its order, in one step of the closed form.
LEMMA ReturnSubmits ==
  ASSUME CallInv, MatchingInv, LotsAreNatural, Return
  PROVE  /\ MatchingInv' /\ Matching!Submit(taker, SentTerms)
         /\ taker \in 1 .. MaxOrders /\ SentTerms \in Matching!Terms
<1>1. /\ TypeInv /\ AsSent /\ MatchesDrafted /\ AllServed /\ TakerLast /\ TradeIds
      /\ AccountsSettled /\ PosnsSettled /\ FillsSettled
  BY DEF CallInv, BookInv, MatchingInv
<1>2. /\ phase = "commit" /\ phase' = "idle" /\ next > Len(matches) /\ matches' = << >>
      /\ walked' = {} /\ sumCost' = 0 /\ committed' = Public'
      /\ UNCHANGED <<orders, maxOrderId, sessOrders, sessTrades, posns>>
  BY DEF Return, ClearMatches, Leave, bookVars, sessVars
<1>3. Public' = Public /\ Trades' = Trades
  BY <1>2, PublicSame
<1>4. Settled = Makers
  <2>1. \A k \in DOMAIN matches : k < next
    BY <1>1, <1>2 DEF TypeInv, TypeOK
  <2> QED BY <2>1 DEF Settled, Makers
<1>5. Settled = Matching!Served(SentTerms)
  BY <1>1, <1>2, <1>4 DEF AllServed
<1>6. /\ taker \in Outstanding /\ DOMAIN Accounts = Outstanding \ {taker}
      /\ \A i \in DOMAIN Accounts : Account(i) = Matching!AccountAfter(i, Settled, SentTerms)
      /\ \A t \in Traders : posns[t] = Matching!PosnAfter(t, Settled, SentTerms)
      /\ Fills = Matching!FillsAfter(Settled, taker, SentTerms)
  BY <1>1, <1>2 DEF AccountsSettled, PosnsSettled, FillsSettled
<1>7. /\ committed'.accounts = [i \in Outstanding |-> Account(i)]
      /\ committed'.posns = posns /\ committed'.fills = Fills
  BY <1>2, <1>3 DEF Public
<1>8. Account(taker) = Matching!Taken(SentTerms)
  <2>1. /\ orders[taker].resd = SentTerms.lots - Total(Gives, Settled)
        /\ orders[taker].cost = Total(Pays, Settled)
    BY <1>1, <1>2, <1>4 DEF AllServed, SentTerms
  <2>2. /\ Matching!SumFunctionOnSet(Matching!Given(SentTerms), Matching!Served(SentTerms)) =
             Total(Gives, Settled)
        /\ Matching!SumFunctionOnSet(Matching!Paid(SentTerms), Matching!Served(SentTerms)) =
             Total(Pays, Settled)
    BY <1>5 DEF Total, Gives, Pays
  <2>3. /\ SentTerms.trader = orders[taker].trader /\ SentTerms.side = orders[taker].side
        /\ SentTerms.ticks = orders[taker].ticks /\ SentTerms.lots = orders[taker].lots
    BY DEF SentTerms
  <2>4. Matching!Taken(SentTerms) =
          [trader |-> orders[taker].trader, side |-> orders[taker].side,
           ticks |-> orders[taker].ticks, lots |-> orders[taker].lots,
           resd |-> SentTerms.lots - Total(Gives, Settled), cost |-> Total(Pays, Settled)]
    BY <2>2, <2>3, Zenon DEF Matching!Taken
  <2> QED BY <2>1, <2>4 DEF Account
<1>9. taker \in DOMAIN orders /\ taker = maxOrderId /\ taker \in 1 .. MaxOrders
      /\ \A i \in DOMAIN Accounts : i < taker
  <2>1. taker \in DOMAIN orders /\ DOMAIN orders \subseteq 1 .. maxOrderId /\ maxOrderId \in Nat
    BY <1>1, <1>2 DEF TypeInv, TypeOK
  <2>2. taker = maxOrderId /\ maxOrderId <= MaxOrders
    BY <1>1, <1>2 DEF TakerLast
  <2>3. Outstanding \subseteq DOMAIN orders
    BY <1>1, TakerUnknown
  <2> QED BY <1>6, <2>1, <2>2, <2>3, ServAssumption
<1>10. SentTerms \in Matching!Terms
  <2>1. orders[taker] \in OrderRec /\ orders[taker].ticks \in Ticks
        /\ orders[taker].lots \in Lots \ {0}
    BY <1>1, <1>9 DEF TypeInv, TypeOK, AsSent
  <2>2. orders[taker].lots \in {n \in Lots : n > 0}
    <3>1. PICK n \in Lots \ {0} : n = orders[taker].lots
      BY <2>1
    <3>2. n \in Lots /\ n > 0
      BY DEF LotsAreNatural
    <3> QED BY <3>1, <3>2
  <2>3. orders[taker].trader \in Traders /\ orders[taker].side \in {"Buy", "Sell"}
    BY <2>1 DEF OrderRec
  <2>4. PICK t \in Traders, s \in {"Buy", "Sell"}, p \in Ticks, n \in {k \in Lots : k > 0} :
          SentTerms = [trader |-> t, side |-> s, ticks |-> p, lots |-> n]
    BY <2>1, <2>2, <2>3 DEF SentTerms
  <2> QED BY <2>4 DEF Matching!Terms
<1>11. Matching!Submit(taker, SentTerms)
  <2>1. DOMAIN committed'.accounts = DOMAIN Accounts \cup {taker}
    BY <1>6, <1>7
  <2>2. committed'.accounts =
          [i \in DOMAIN Accounts \cup {taker} |->
             IF i = taker THEN Matching!Taken(SentTerms)
                          ELSE Matching!AccountAfter(i, Matching!Served(SentTerms), SentTerms)]
    <3>1. \A i \in Outstanding :
            Account(i) = IF i = taker THEN Matching!Taken(SentTerms)
                         ELSE Matching!AccountAfter(i, Matching!Served(SentTerms), SentTerms)
      BY <1>5, <1>6, <1>8
    <3>2. Outstanding = DOMAIN Accounts \cup {taker}
      BY <1>6
    <3> QED BY <1>7, <3>1, <3>2
  <2>3. committed'.posns =
          [t \in Traders |-> Matching!PosnAfter(t, Matching!Served(SentTerms), SentTerms)]
    <3>1. posns = [t \in Traders |-> posns[t]]
      BY <1>1 DEF TypeInv, TypeOK
    <3> QED BY <1>5, <1>6, <1>7, <3>1
  <2>4. committed'.fills = Matching!FillsAfter(Matching!Served(SentTerms), taker, SentTerms)
    BY <1>5, <1>6, <1>7
  <2> QED BY <1>9, <2>1, <2>2, <2>3, <2>4, Zenon DEF Matching!Submit, Accounts
<1>12. MatchingInv'
  <2>1. PublicKept' /\ TakerLast' /\ WalkInv' /\ TradeIds'
    BY <1>1, <1>2, <1>3 DEF PublicKept, TakerLast, WalkInv, TradeIds
  <2>2. MatchesDrafted' /\ AllServed' /\ AccountsSettled' /\ PosnsSettled' /\ FillsSettled'
    BY <1>2 DEF MatchesDrafted, AllServed, AccountsSettled, PosnsSettled, FillsSettled
  <2> QED BY <2>1, <2>2 DEF MatchingInv
<1> QED BY <1>9, <1>10, <1>11, <1>12

\* At the start there is no order, trade or fill.
LEMMA InitMatching ==
  ASSUME Init
  PROVE  CallInv /\ MatchingInv /\ Matching!Init
<1>1. BookInv /\ DraftInv /\ IdInv
  BY InitDrafts, InitBook, IdInit DEF BookInv, DraftsInv
<1>2. /\ phase = "idle" /\ DOMAIN orders = {} /\ matches = << >> /\ DOMAIN matches = {}
      /\ maxOrderId = 0 /\ walked = {} /\ sumCost = 0 /\ committed = Public
      /\ sessTrades = [t \in Traders |-> {}] /\ posns = [t \in Traders |-> ZeroPosn]
      /\ Outstanding = {}
  BY DEF Init, Outstanding
<1>3. Trades = {}
  BY <1>2 DEF Trades
<1>4. PosnInv
  <2>1. IsFiniteSet({})
    BY FS_EmptySet
  <2>2. PosnOf({}) = ZeroPosn
    <3>1. On({}, "Buy") = {} /\ On({}, "Sell") = {}
      BY DEF On
    <3> QED BY <3>1, NoTrades, Zenon DEF PosnOf, ZeroPosn
  <2> QED BY <1>2, <2>1, <2>2 DEF PosnInv, MatchesUnsettled, SessionsFinite, PosnsRight
<1>5. Fills = {}
  BY <1>3 DEF Fills, Pairs
<1>6. /\ committed.accounts = [i \in {} |-> Account(i)] /\ committed.posns = posns
      /\ committed.fills = {}
  BY <1>2, <1>5 DEF Public
<1>7. PosnsKept
  <2>1. posns \in [Traders -> PosnRec]
    BY <1>1 DEF BookInv, TypeInv, TypeOK
  <2> QED BY <1>6, <2>1 DEF PosnsKept
<1>8. MatchingInv
  <2>1. PublicKept /\ TakerLast /\ WalkInv /\ TradeIds
    BY <1>2, <1>3, ServAssumption DEF PublicKept, TakerLast, WalkInv, TradeIds
  <2>2. MatchesDrafted /\ AllServed /\ AccountsSettled /\ PosnsSettled /\ FillsSettled
    BY <1>2 DEF MatchesDrafted, AllServed, AccountsSettled, PosnsSettled, FillsSettled
  <2> QED BY <2>1, <2>2 DEF MatchingInv
<1>9. Matching!Init
  <2>1. committed.accounts = [i \in {} |-> i]
    BY <1>6
  <2> QED BY <1>2, <1>6, <2>1 DEF Matching!Init, ZeroPosn
<1> QED BY <1>1, <1>4, <1>7, <1>8, <1>9 DEF CallInv

\* Every step keeps what a call knows.
LEMMA CallNext ==
  ASSUME CallInv, FaultsAreUndone, LotsAreNatural, [Next]_vars
  PROVE  CallInv'
<1>1. /\ TypeInv /\ MakersKnown /\ MatchInv /\ AsSent /\ BalanceInv /\ KnownInv
      /\ OpenResting /\ DraftInv /\ IdInv /\ PosnInv /\ PosnsKept /\ MatchingIsSafe
  BY UndoneIsSafe DEF CallInv, BookInv
<1>2. TypeInv' /\ MakersKnown'
  BY <1>1, TypeNext, MakersKnownNext
<1>3. MatchInv' /\ AsSent' /\ BalanceInv'
  BY <1>1, MatchNext, SentNext, BalanceNext
<1>4. KnownInv' /\ OpenResting' /\ DraftInv'
  BY <1>1, KnownNext, OpenNext, DraftNext
<1>5. IdInv' /\ PosnInv'
  BY <1>1, IdNext, PosnNext
<1>6. PosnsKept'
  <2>1. CASE committed' = committed
    BY <1>1, <2>1 DEF PosnsKept
  <2>2. CASE committed' = Public'
    <3>1. posns' \in [Traders -> PosnRec]
      BY <1>2 DEF TypeInv, TypeOK
    <3> QED BY <2>2, <3>1 DEF PosnsKept, Public
  <2>3. committed' = committed \/ committed' = Public'
    <3>1. CASE UNCHANGED vars
      BY <3>1 DEF vars
    <3>2. CASE Request
      BY <3>2 DEF Request, Reject, CreateThrows, CreateOrder, Leave
    <3>3. CASE Step
      BY <3>3 DEF Step, Match, MatchMaker, MatchThrows, MatchEnd, PlaceOrder, PlaceThrows,
                  PlaceAborts, WriteJournal, JournalThrows, PrepareResponse, ResponseThrows,
                  CommitMatch, CommitAborts, Return, Leave, Abort
    <3> QED BY <3>1, <3>2, <3>3 DEF Next
  <2> QED BY <2>1, <2>2, <2>3
<1> QED BY <1>2, <1>3, <1>4, <1>5, <1>6 DEF CallInv, BookInv

\* Every step of the engine is a stutter of the closed form, or submits an order.
LEMMA MatchingNext ==
  ASSUME CallInv, MatchingInv, FaultsAreUndone, LotsAreNatural, [Next]_vars
  PROVE  MatchingInv' /\ [Matching!Next]_(Matching!vars)
<1>1. TypeInv /\ MatchesCleared
  BY DEF CallInv, BookInv, MatchInv
<1>2. ASSUME committed' = committed
      PROVE  [Matching!Next]_(Matching!vars)
  BY <1>2 DEF Matching!vars
<1>3. CASE Quiet
  BY <1>2, <1>3, QuietKeeps DEF Quiet
<1>4. CASE Throws
  BY <1>2, <1>4, ThrowsKeeps
<1>5. CASE Creates
  BY <1>2, <1>5, CreatesKeeps
<1>6. ASSUME NEW m \in resting, MatchMaker(m)
      PROVE  MatchingInv' /\ [Matching!Next]_(Matching!vars)
  BY <1>2, <1>6, MatchKeeps
<1>7. CASE MatchEnd
  BY <1>2, <1>7, MatchEndKeeps
<1>8. CASE PrepareResponse
  BY <1>2, <1>8, PrepareKeeps
<1>9. CASE CommitMatch
  BY <1>2, <1>9, CommitKeeps
<1>10. CASE Return
  <2>1. /\ MatchingInv' /\ Matching!Submit(taker, SentTerms)
        /\ taker \in 1 .. MaxOrders /\ SentTerms \in Matching!Terms
    BY <1>10, ReturnSubmits
  <2>2. Matching!Next
    BY <2>1, Zenon DEF Matching!Next
  <2> QED BY <2>1, <2>2
<1>11. \/ Quiet \/ Throws \/ Creates \/ (\E m \in resting : MatchMaker(m))
       \/ MatchEnd \/ PrepareResponse \/ CommitMatch \/ Return
  BY <1>1, CallForms
<1> QED BY <1>3, <1>4, <1>5, <1>6, <1>7, <1>8, <1>9, <1>10, <1>11

\* The engine implements price-time matching when only those points fail whose failure
\* createOrder undoes and quantities are natural: for every number of traders, prices,
\* quantities and orders, an accepted order trades exactly what the closed form gives, at
\* its makers' prices, all of it or nothing (Serv::createOrder, matchOrders, commitMatches).
THEOREM MatchingIsPriceTime ==
  ASSUME FaultsAreUndone, LotsAreNatural
  PROVE  Spec => ImplementsMatching
<1> DEFINE Inv == CallInv /\ MatchingInv
<1>1. Init => Inv /\ Matching!Init
  BY InitMatching
<1>2. Inv /\ [Next]_vars => Inv'
  BY CallNext, MatchingNext
<1>3. Inv /\ [Next]_vars => [Matching!Next]_(Matching!vars)
  BY MatchingNext
<1> HIDE DEF Inv
<1> QED BY <1>1, <1>2, <1>3, PTL DEF Spec, ImplementsMatching, Matching!Spec
=============================================================================
