------------------------- MODULE PriceTimeMatching -------------------------
(***************************************************************************)
(* What the matching engine promises its traders, with no book, loop,       *)
(* journal or failure: an order is either not accepted, and then nothing    *)
(* has happened, or it trades at once with the orders it crosses, in        *)
(* price-time priority and at their prices, and the rest of it waits.  How  *)
(* much every waiting order gives is stated in closed form, not by a loop.  *)
(***************************************************************************)
EXTENDS Integers, FiniteSetsExt, Functions

CONSTANTS
  Traders, Ticks,
  Quantities,   \* the lots of acceptable orders
  Ids           \* the ids of orders

VARIABLES
  accounts,     \* accounts[i]: the accepted order with id i
  posns,        \* posns[t]: lots and cost bought and sold by trader t
  fills         \* who traded with whom, how much and at which price

vars == <<accounts, posns, fills>>

Init ==
  /\ accounts = [i \in {} |-> i]
  /\ posns = [t \in Traders |-> [buyLots |-> 0, buyCost |-> 0,
                                 sellLots |-> 0, sellCost |-> 0]]
  /\ fills = {}

----------------------------------------------------------------------------
(* How much every waiting order gives to an order on these terms.          *)

Terms == [trader : Traders, side : {"Buy", "Sell"}, ticks : Ticks, lots : Quantities]

\* The orders that an order on these terms crosses.
Crossed(terms) ==
  {i \in DOMAIN accounts :
     /\ accounts[i].side # terms.side /\ accounts[i].resd > 0
     /\ IF terms.side = "Buy" THEN accounts[i].ticks <= terms.ticks
                              ELSE accounts[i].ticks >= terms.ticks}

\* Those of them that must be served before i.
Ahead(i, terms) ==
  {j \in Crossed(terms) \ {i} :
     \/ terms.side = "Buy" /\ accounts[j].ticks < accounts[i].ticks
     \/ terms.side = "Sell" /\ accounts[j].ticks > accounts[i].ticks
     \/ accounts[j].ticks = accounts[i].ticks /\ j < i}

Residuals == [i \in DOMAIN accounts |-> accounts[i].resd]

\* What is left of the lots when those ahead of i have been served.
Left(i, terms) == terms.lots - SumFunctionOnSet(Residuals, Ahead(i, terms))

Given(terms) ==
  [i \in DOMAIN accounts |->
     IF i \in Crossed(terms) THEN Max({0, Min({accounts[i].resd, Left(i, terms)})}) ELSE 0]

Paid(terms) == [i \in DOMAIN accounts |-> Given(terms)[i] * accounts[i].ticks]

Served(terms) == {i \in DOMAIN accounts : Given(terms)[i] > 0}

----------------------------------------------------------------------------
(* What has become of the state once the orders in S have been served.     *)

AccountAfter(i, S, terms) ==
  IF i \in S THEN [accounts[i] EXCEPT !.resd = @ - Given(terms)[i],
                                      !.cost = @ + Paid(terms)[i]]
             ELSE accounts[i]

\* Trader t trades as the owner of some of them, as the taker, or as both.
PosnAfter(t, S, terms) ==
  LET made   == {i \in S : accounts[i].trader = t}
      taken  == IF t = terms.trader THEN S ELSE {}
      bought == IF terms.side = "Buy" THEN taken ELSE made
      sold   == IF terms.side = "Buy" THEN made ELSE taken
  IN  [buyLots  |-> posns[t].buyLots  + SumFunctionOnSet(Given(terms), bought),
       buyCost  |-> posns[t].buyCost  + SumFunctionOnSet(Paid(terms), bought),
       sellLots |-> posns[t].sellLots + SumFunctionOnSet(Given(terms), sold),
       sellCost |-> posns[t].sellCost + SumFunctionOnSet(Paid(terms), sold)]

FillsAfter(S, id, terms) ==
  fills \cup {[maker |-> i, taker |-> id, lots |-> Given(terms)[i],
               ticks |-> accounts[i].ticks] : i \in S}

\* The account of the order itself.
Taken(terms) ==
  [trader |-> terms.trader, side |-> terms.side, ticks |-> terms.ticks,
   lots |-> terms.lots,
   resd |-> terms.lots - SumFunctionOnSet(Given(terms), Served(terms)),
   cost |-> SumFunctionOnSet(Paid(terms), Served(terms))]

----------------------------------------------------------------------------
Submit(id, terms) ==
  /\ \A i \in DOMAIN accounts : i < id
  /\ DOMAIN accounts' = DOMAIN accounts \cup {id}
  /\ accounts' = [i \in DOMAIN accounts \cup {id} |->
                    IF i = id THEN Taken(terms) ELSE AccountAfter(i, Served(terms), terms)]
  /\ posns' = [t \in Traders |-> PosnAfter(t, Served(terms), terms)]
  /\ fills' = FillsAfter(Served(terms), id, terms)

Next == \E id \in Ids, terms \in Terms : Submit(id, terms)

Spec == Init /\ [][Next]_vars
=============================================================================
