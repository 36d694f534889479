------------------------------ MODULE BookSide ------------------------------
(***************************************************************************)
(* One side of a market's order book (BookSide.hpp, BookSide.cpp,           *)
(* Level.hpp, Level.cpp, and the part of Order.hpp they drive).             *)
(*                                                                          *)
(* The code keeps the same orders twice: in one intrusive list, best price  *)
(* first and oldest first within a price, and aggregated in a set of price  *)
(* levels keyed by a signed price.  A level holds a raw pointer to its      *)
(* first order in the list, the sum of the residuals and a count; an order  *)
(* holds a raw pointer to its level.  Every operation must keep list,       *)
(* levels and pointers in step: that is what the properties are about.      *)
(*                                                                          *)
(* The assertions of the code are guards here: an operation whose assertion *)
(* would fail is not a step.  State, cost and last trade of an order play   *)
(* no part on a book side; module Serv has them.                            *)
(***************************************************************************)
EXTENDS Integers, SequencesExt

CONSTANTS
  Orders,     \* the orders that callers create
  Ticks,      \* their prices
  MaxLots,    \* bound on the lots of an order, and on what is taken from it
  NoLevel     \* the null level pointer

ASSUME BookSideAssumption ==
  /\ Ticks \subseteq Int \ {0}
  /\ MaxLots \in Nat \ {0}
  /\ NoLevel \notin Int

VARIABLES
  side,       \* "Buy" or "Sell": the side of every order
  order,      \* order[o]: the fields of order o
  list,       \* orders_: the resting orders, best first
  levels      \* levels_: the price levels by key

vars == <<side, order, list, levels>>

----------------------------------------------------------------------------
(* Reading the structure.                                                  *)

\* A plausible slip: the sign is forgotten for bids.
MutComposeKey(ticks) == ticks

\* Level.hpp composeKey: the best price has the smallest key on both sides.
ComposeKey(ticks) == IF side = "Buy" THEN -ticks ELSE ticks

\* LevelSet: the levels in key order; NextKeys are those after key.
NextKeys(key) == {k \in DOMAIN levels : k > key}

Level(o) == order[o].level

Position(o) == CHOOSE i \in DOMAIN list : list[i] = o

\* The elements of a sequence that are in a set, in the order of the sequence.
Only(seq, S) ==
  LET upTo[n \in 0 .. Len(seq)] ==
        IF n = 0 THEN << >>
        ELSE IF seq[n] \in S THEN Append(upTo[n - 1], seq[n]) ELSE upTo[n - 1]
  IN  upTo[Len(seq)]

\* The orders of the list at one price, in the order of the list.
AtKey(key) == Only(list, {o \in Orders : ComposeKey(order[o].ticks) = key})

SumResd(seq) == FoldLeft(LAMBDA sum, o : sum + order[o].resd, 0, seq)

----------------------------------------------------------------------------
(* Levels.                                                                 *)

NewLevel(o) ==
  [first |-> o, ticks |-> order[o].ticks, resd |-> order[o].resd, count |-> 1]

\* A plausible slip: the residual is not added.
MutAddOrder(level, resd) == [level EXCEPT !.count = @ + 1]

AddOrder(level, resd) == [level EXCEPT !.resd = @ + resd, !.count = @ + 1]

SubOrder(level, resd) == [level EXCEPT !.resd = @ - resd, !.count = @ - 1]

\* insertLevel: the level is created from its first order or added to.
InsertLevel(o, resd) ==
  LET key == ComposeKey(order[o].ticks)
  IN  [k \in DOMAIN levels \cup {key} |->
         IF k # key THEN levels[k]
         ELSE IF key \in DOMAIN levels THEN AddOrder(levels[key], resd)
         ELSE [NewLevel(o) EXCEPT !.resd = resd]]

\* A plausible slip: the pointer to the first order is not moved on.
MutAfterRemoval(o, key) ==
  LET level == SubOrder(levels[key], order[o].resd)
  IN  IF level.count = 0
      THEN Restrict(levels, DOMAIN levels \ {key})
      ELSE [levels EXCEPT ![key] = level]

\* What becomes of the level when its order o, known to be in the list, goes.
AfterRemoval(o, key) ==
  LET level == SubOrder(levels[key], order[o].resd)
  IN  IF level.count = 0
      THEN Restrict(levels, DOMAIN levels \ {key})
      ELSE [levels EXCEPT ![key] =
              IF level.first = o
              THEN [level EXCEPT !.first = list[Position(o) + 1]]
              ELSE level]

----------------------------------------------------------------------------
(* List.                                                                   *)

\* A plausible slip: before the level's own first order, not the next level's.
MutInsertFront(o) ==
  LET key  == ComposeKey(order[o].ticks)
      next == {k \in DOMAIN levels : k >= key}
  IN  IF next = {} THEN Append(list, o)
      ELSE InsertAt(list, Position(levels[Min(next)].first), o)

\* insertOrder places the order before the first order of the next level.
InsertList(o) ==
  LET next == NextKeys(ComposeKey(order[o].ticks))
  IN  IF next = {} THEN Append(list, o)
      ELSE InsertAt(list, Position(levels[Min(next)].first), o)

RemoveList(o) == RemoveAt(list, Position(o))

----------------------------------------------------------------------------
(* Initial states: fresh orders, none of them in the book.                 *)

NewOrder(ticks, lots) ==
  [ticks |-> ticks, lots |-> lots, resd |-> lots, exec |-> 0, level |-> NoLevel]

Init ==
  /\ side \in {"Buy", "Sell"}
  /\ order \in [Orders -> {NewOrder(t, n) : t \in Ticks, n \in 1 .. MaxLots}]
  /\ list = << >>
  /\ levels = << >>

----------------------------------------------------------------------------
(* Operations.  Insertable is the row of assertions of insertOrder.        *)

Insertable(o) ==
  /\ Level(o) = NoLevel
  /\ order[o].ticks # 0
  /\ order[o].resd > 0
  /\ order[o].exec <= order[o].lots

\* The pointer that insertLevel leaves in the order.
NewPointer(o) == ComposeKey(order[o].ticks)

InsertOrder(o) ==
  /\ Insertable(o)
  /\ levels' = InsertLevel(o, order[o].resd)
  /\ list'   = InsertList(o)
  /\ order'  = [order EXCEPT ![o].level = NewPointer(o)]
  /\ UNCHANGED side

\* createOrder: reset the order, then insert it; when the level cannot be
\* allocated the exception leaves the order reset and outside the book.
CreateOrder(o) ==
  LET created == [order[o] EXCEPT !.resd = order[o].lots, !.exec = 0]
  IN  /\ Level(o) = NoLevel
      /\ \/ /\ levels' = InsertLevel(o, created.resd)
            /\ list'   = InsertList(o)
            /\ order'  = [order EXCEPT ![o] = [created EXCEPT !.level = NewPointer(o)]]
         \/ /\ NewPointer(o) \notin DOMAIN levels
            /\ order'  = [order EXCEPT ![o] = created]
            /\ UNCHANGED <<list, levels>>
      /\ UNCHANGED side

\* Take the order out of list and levels; its fields become rec.
Detach(o, rec) ==
  /\ levels' = AfterRemoval(o, Level(o))
  /\ list'   = RemoveList(o)
  /\ order'  = [order EXCEPT ![o] = [rec EXCEPT !.level = NoLevel]]

\* reduceLevel by delta, after which the order's fields are rec.
ReduceLevel(o, delta, rec) ==
  /\ delta <= order[o].resd
  /\ IF delta < order[o].resd
     THEN /\ levels' = [levels EXCEPT ![Level(o)].resd = @ - delta]
          /\ order'  = [order EXCEPT ![o] = rec]
          /\ UNCHANGED list
     ELSE Detach(o, rec)

\* An order that is in no level has only its own fields changed.
OnlyFields(o, rec) ==
  /\ Level(o) = NoLevel
  /\ order' = [order EXCEPT ![o] = rec]
  /\ UNCHANGED <<list, levels>>

RemoveOrder(o) ==
  /\ \/ Level(o) # NoLevel /\ Detach(o, order[o])
     \/ OnlyFields(o, order[o])
  /\ UNCHANGED side

ReviseOrder(o, lots) ==
  LET delta   == order[o].lots - lots
      revised == [order[o] EXCEPT !.lots = lots, !.resd = @ - delta]
  IN  /\ lots >= order[o].exec
      /\ lots <= order[o].lots
      /\ \/ Level(o) # NoLevel /\ ReduceLevel(o, delta, revised)
         \/ OnlyFields(o, revised)
      /\ UNCHANGED side

CancelOrder(o) ==
  LET cancelled == [order[o] EXCEPT !.resd = 0]
  IN  /\ \/ Level(o) # NoLevel /\ Detach(o, cancelled)
         \/ OnlyFields(o, cancelled)
      /\ UNCHANGED side

TakeOrder(o, lots) ==
  LET taken == [order[o] EXCEPT !.resd = @ - lots, !.exec = @ + lots]
  IN  /\ taken.exec <= MaxLots
      /\ \/ Level(o) # NoLevel /\ ReduceLevel(o, lots, taken)
         \/ OnlyFields(o, taken)
      /\ UNCHANGED side

Next ==
  \E o \in Orders :
    \/ InsertOrder(o)
    \/ CreateOrder(o)
    \/ RemoveOrder(o)
    \/ CancelOrder(o)
    \/ \E lots \in 1 .. MaxLots : ReviseOrder(o, lots) \/ TakeOrder(o, lots)

Spec == Init /\ [][Next]_vars

----------------------------------------------------------------------------
(* Properties.                                                             *)

\* A level is exactly the sum of the orders in the book at its price, and is
\* never empty (Level.hpp "the sum of all orders in the book at the same
\* price", resd_ and count_ "Must be greater than zero"), and is found by its
\* own price.
LevelsAggregate ==
  /\ DOMAIN levels = {ComposeKey(order[o].ticks) : o \in ToSet(list)}
  /\ \A k \in DOMAIN levels :
       /\ k = ComposeKey(levels[k].ticks)
       /\ levels[k].count = Len(AtKey(k))
       /\ levels[k].resd  = SumResd(AtKey(k))
       /\ levels[k].count > 0 /\ levels[k].resd > 0

\* Neither of the raw pointers dangles, or leads astray.  A level's is to the
\* oldest order resting at its price, so that insertion before the next level's
\* first order lands after the last order of the level; an order's is null exactly
\* when the order is not in the list, and otherwise names the live level of its own
\* price (BookSide::insertOrder, removeOrder, reduceLevel).
PointersLive ==
  /\ \A k \in DOMAIN levels :
       \E i \in DOMAIN list :
         /\ list[i] = levels[k].first
         /\ ComposeKey(order[list[i]].ticks) = k
         /\ \A j \in 1 .. i - 1 : ComposeKey(order[list[j]].ticks) # k
  /\ IsInjective(list)
  /\ \A o \in Orders :
       Level(o) = IF Contains(list, o) THEN ComposeKey(order[o].ticks) ELSE NoLevel
  /\ \A o \in ToSet(list) : Level(o) \in DOMAIN levels

\* The list matchOrders walks is in price order, the levels' order and the
\* list's order being two structures (BookSide::insertOrder).
BestPriceFirst ==
  \A i, j \in DOMAIN list :
    i < j => IF side = "Buy" THEN order[list[i]].ticks >= order[list[j]].ticks
                             ELSE order[list[i]].ticks <= order[list[j]].ticks

\* The book side implements the first-come first-served queues of PriceTime.
Queues == INSTANCE PriceTime WITH
  Prices <- Ticks,
  Lots   <- 1 .. MaxLots,
  queue  <- [t \in Ticks |-> AtKey(ComposeKey(t))],
  open   <- [o \in Orders |-> IF Level(o) = NoLevel THEN 0 ELSE order[o].resd]

ImplementsPriceTime == Queues!Spec
=============================================================================
