-------------------------------- MODULE Serv --------------------------------
(***************************************************************************)
(* The matching engine: Serv::createOrder (Serv.cpp) on one market, with    *)
(* the market book, the trader sessions, the positions, the journal and the *)
(* response it changes.                                                     *)
(*                                                                          *)
(* createOrder runs to its end without interruption, but it can be left at  *)
(* every point where memory is allocated or the journal is written.  So one *)
(* call is a sequence of steps, cut at those points:                        *)
(*                                                                          *)
(*   idle -> match -> place -> journal -> respond -> commit -> idle         *)
(*                                                                          *)
(* and Faults says which of the points may throw.  A book side is the set   *)
(* of its resting orders, walked in price-time order: module BookSide shows *)
(* that the list and levels of the code provide exactly that.               *)
(***************************************************************************)
EXTENDS Integers, SequencesExt

CONSTANTS
  Traders,     \* the traders with a session
  NoTrader,    \* the empty counterparty
  Ticks,       \* the prices that clients send
  Lots,        \* the quantities that clients send
  MinLots,     \* the minimum quantities that clients send
  Days,        \* the business days on which they send them
  ExpiryDay,   \* the market's last business day, 0 when it has none
  Faults,      \* the points of a call that may throw
  MaxOrders    \* bound on the orders accepted

Points == {"create", "match", "level", "journal", "posn", "reserve"}

ASSUME ServAssumption ==
  /\ NoTrader \notin Traders
  /\ Ticks \subseteq Int
  /\ Lots \subseteq Int
  /\ MinLots \subseteq Int
  /\ Days \subseteq Int
  /\ ExpiryDay \in Int
  /\ Faults \subseteq Points
  /\ MaxOrders \in Nat

Sides == {"Buy", "Sell"}

VARIABLES
  \* MarketBook
  orders,      \* orders[i]: the order with id i, while something refers to it
  resting,     \* the ids of the orders in bidSide_ and offerSide_
  lastTrade,   \* lastLots_ and lastTicks_
  maxOrderId,  \* ids are allocated by increment
  maxExecId,
  \* TraderSess, Posn
  sessOrders,  \* sessOrders[t]: the ids of the orders of t's session
  sessTrades,  \* sessTrades[t]: the trades of t's session
  posns,       \* posns[t]: t's position in the market's contract
  allocated,   \* the traders whose position has been allocated
  \* Journ
  journal,     \* every execution written, in order
  \* Serv::Impl
  matches,     \* matches between the call's order and resting orders
  \* locals of createOrder and matchOrders, and the response
  phase, taker, created, walked, sumLots, sumCost, next, resp,
  \* what the caller of the last call saw
  status,
  \* history: the public state when the last call returned
  committed

bookVars == <<orders, resting, lastTrade, maxOrderId, maxExecId>>
sessVars == <<sessOrders, sessTrades, posns, allocated>>
loopVars == <<walked, sumLots, sumCost>>
callVars == <<taker, created, loopVars, next, resp>>
vars == <<bookVars, sessVars, journal, matches, phase, callVars, status, committed>>

----------------------------------------------------------------------------
(* Prices and priority.                                                    *)

\* Conv.hpp cost.
CostOf(lots, ticks) == lots * ticks

Opposite(side) == IF side = "Buy" THEN "Sell" ELSE "Buy"

\* How far the taker is from trading with the maker, not positive when the
\* prices cross: paid when the taker buys, given when the taker sells.
Spread(takerOrder, makerOrder) ==
  IF takerOrder.side = "Buy" THEN makerOrder.ticks - takerOrder.ticks
                             ELSE takerOrder.ticks - makerOrder.ticks

\* A plausible slip: oldest first whatever the price.
MutPrecedes(i, j) == i < j

\* Order i is before order j in the list of their side: better price, or the
\* same price and in the book for longer.  Ids grow, and an order enters the
\* book once, so the older of two orders has the smaller id.
Precedes(i, j) ==
  \/ orders[i].side = "Buy" /\ orders[i].ticks > orders[j].ticks
  \/ orders[i].side = "Sell" /\ orders[i].ticks < orders[j].ticks
  \/ orders[i].ticks = orders[j].ticks /\ i < j

----------------------------------------------------------------------------
(* Orders and executions.                                                  *)

NewOrder(trader, side, ticks, lots, minLots) ==
  [trader |-> trader, side |-> side, ticks |-> ticks, lots |-> lots,
   minLots |-> minLots, state |-> "New", resd |-> lots, exec |-> 0, cost |-> 0]

\* A plausible slip: the residual is not reduced.
MutOrderTrade(order, lots, cost) ==
  [order EXCEPT !.state = "Trade", !.exec = @ + lots, !.cost = @ + cost]

\* Order::trade.
OrderTrade(order, lots, cost) ==
  [trader |-> order.trader, side |-> order.side, ticks |-> order.ticks,
   lots |-> order.lots, minLots |-> order.minLots, state |-> "Trade",
   resd |-> order.resd - lots, exec |-> order.exec + lots, cost |-> order.cost + cost]

\* Factory::newExec: the execution with the given id is a copy of the order.
NewExec(order, orderId, id) ==
  [id |-> id, orderId |-> orderId, trader |-> order.trader, side |-> order.side,
   ticks |-> order.ticks, state |-> order.state, resd |-> order.resd,
   exec |-> order.exec, cost |-> order.cost, lastLots |-> 0, lastTicks |-> 0,
   matchId |-> 0, role |-> "None", cpty |-> NoTrader]

\* A plausible slip: the match id of an execution is its own id.
MutExecTrade(exec, lots, cost, lastLots, lastTicks, matchId, role, cpty) ==
  [exec EXCEPT !.state = "Trade", !.resd = @ - lots, !.exec = @ + lots,
               !.cost = @ + cost, !.lastLots = lastLots, !.lastTicks = lastTicks,
               !.matchId = exec.id, !.role = role, !.cpty = cpty]

\* Exec::trade.
ExecTrade(exec, lots, cost, lastLots, lastTicks, matchId, role, cpty) ==
  [id |-> exec.id, orderId |-> exec.orderId, trader |-> exec.trader,
   side |-> exec.side, ticks |-> exec.ticks, state |-> "Trade",
   resd |-> exec.resd - lots, exec |-> exec.exec + lots, cost |-> exec.cost + cost,
   lastLots |-> lastLots, lastTicks |-> lastTicks, matchId |-> matchId,
   role |-> role, cpty |-> cpty]

NoExec == [id |-> 0]

ZeroPosn == [buyLots |-> 0, buyCost |-> 0, sellLots |-> 0, sellCost |-> 0]

\* A plausible slip: all the lots executed, instead of those of the trade.
MutAddTrade(posn, trade) ==
  LET cost == CostOf(trade.lastLots, trade.lastTicks)
  IN  IF trade.side = "Buy"
      THEN [posn EXCEPT !.buyLots = @ + trade.exec, !.buyCost = @ + cost]
      ELSE [posn EXCEPT !.sellLots = @ + trade.exec, !.sellCost = @ + cost]

\* Posn::addTrade.
AddTrade(posn, trade) ==
  LET cost == CostOf(trade.lastLots, trade.lastTicks)
  IN  IF trade.side = "Buy"
      THEN [posn EXCEPT !.buyLots = @ + trade.lastLots, !.buyCost = @ + cost]
      ELSE [posn EXCEPT !.sellLots = @ + trade.lastLots, !.sellCost = @ + cost]

NoResp == [orders |-> << >>, execs |-> << >>, posn |-> NoTrader,
           orderCap |-> 0, execCap |-> 0]

----------------------------------------------------------------------------
(* The public state: what is left of the calls when none is running.       *)

Outstanding == UNION {sessOrders[t] : t \in Traders}

Trades == UNION {sessTrades[t] : t \in Traders}

\* The pairs of a maker's and a taker's trade that name each other.
Pairs == {p \in Trades \X Trades : /\ p[1].role = "Maker" /\ p[2].role = "Taker"
                                   /\ p[1].id = p[2].matchId}

Fills ==
  {[maker |-> p[1].orderId, taker |-> p[2].orderId,
    lots |-> p[2].lastLots, ticks |-> p[2].lastTicks] : p \in Pairs}

Account(i) ==
  [trader |-> orders[i].trader, side |-> orders[i].side, ticks |-> orders[i].ticks,
   lots |-> orders[i].lots, resd |-> orders[i].resd, cost |-> orders[i].cost]

Public == [accounts |-> [i \in Outstanding |-> Account(i)],
           posns |-> posns, fills |-> Fills]

----------------------------------------------------------------------------
Init ==
  /\ orders = << >> /\ resting = {} /\ lastTrade = [lots |-> 0, ticks |-> 0]
  /\ maxOrderId = 0 /\ maxExecId = 0
  /\ sessOrders = [t \in Traders |-> {}]
  /\ sessTrades = [t \in Traders |-> {}]
  /\ posns = [t \in Traders |-> ZeroPosn]
  /\ allocated = {}
  /\ journal = << >>
  /\ matches = << >>
  /\ phase = "idle"
  /\ taker = 0 /\ created = NoExec
  /\ walked = {} /\ sumLots = 0 /\ sumCost = 0
  /\ next = 0 /\ resp = NoResp
  /\ status = "none"
  /\ committed = Public

----------------------------------------------------------------------------
(* Leaving a call.                                                         *)

\* A plausible slip: they stay.
MutClearMatches == UNCHANGED matches

\* The finaliser that empties impl_->matches.
ClearMatches == matches' = << >>

\* createOrder returns or throws: its locals and the caller's response go.
Leave(outcome) ==
  /\ phase' = "idle"
  /\ status' = outcome
  /\ taker' = 0 /\ created' = NoExec
  /\ walked' = {} /\ sumLots' = 0 /\ sumCost' = 0
  /\ next' = 0 /\ resp' = NoResp
  /\ committed' = Public'

\* The call's order is freed with the last reference to it.
Freed == Restrict(orders, DOMAIN orders \ {taker})

\* An assertion fails: the process is gone.  A build that defines NDEBUG, as the
\* default one does (CMakeLists.txt:11), goes on instead, with a book that breaks
\* what its functions rely on; what that leads to is not modelled.
Abort ==
  /\ phase' = "aborted"
  /\ UNCHANGED <<bookVars, sessVars, journal, matches, callVars, status, committed>>

----------------------------------------------------------------------------
(* Validation and creation.                                                *)

Expired(day) == ExpiryDay # 0 /\ ExpiryDay < day

Acceptable(lots, minLots) == lots # 0 /\ lots >= minLots

Reject(day, lots, minLots) ==
  /\ phase = "idle"
  /\ \/ Expired(day) /\ status' = "closed"
     \/ ~ Expired(day) /\ ~ Acceptable(lots, minLots) /\ status' = "invalid"
  /\ UNCHANGED <<bookVars, sessVars, journal, matches, phase, callVars, committed>>

Accept(day, lots, minLots) ==
  /\ phase = "idle"
  /\ maxOrderId < MaxOrders
  /\ ~ Expired(day)
  /\ Acceptable(lots, minLots)
  /\ maxOrderId' = maxOrderId + 1

\* Both ids are allocated, the order and its execution are made.
CreateOrder(day, trader, side, ticks, lots, minLots) ==
  LET order == NewOrder(trader, side, ticks, lots, minLots)
  IN  /\ Accept(day, lots, minLots)
      /\ maxExecId' = maxExecId + 1
      /\ orders' = [i \in DOMAIN orders \cup {maxOrderId'} |->
                      IF i = maxOrderId' THEN order ELSE orders[i]]
      /\ taker' = maxOrderId'
      /\ created' = NewExec(order, maxOrderId', maxExecId')
      /\ phase' = "match"
      /\ status' = "none"
      /\ UNCHANGED <<resting, lastTrade, sessVars, journal, matches, loopVars,
                     next, resp, committed>>

\* The order or its execution cannot be made: only ids are lost.
CreateThrows(day, lots, minLots) ==
  /\ "create" \in Faults
  /\ Accept(day, lots, minLots)
  /\ maxExecId' \in {maxExecId, maxExecId + 1}
  /\ UNCHANGED <<orders, resting, lastTrade, sessVars, journal, matches>>
  /\ Leave("error")

----------------------------------------------------------------------------
(* Matching: one step per pass of the loop over the opposite side.         *)

Unwalked ==
  {i \in resting : orders[i].side = Opposite(orders[taker].side)} \ walked

\* The maker the loop looks at next.
IsNext(m) == m \in Unwalked /\ \A i \in Unwalked \ {m} : Precedes(m, i)

\* Neither break of the loop is taken at maker m.
Crosses(m) ==
  /\ IsNext(m)
  /\ sumLots # orders[taker].resd
  /\ Spread(orders[taker], orders[m]) <= 0

Least(a, b) == IF a < b THEN a ELSE b

\* A plausible slip: all of the maker, whatever the taker lacks.
MutAvailable(m) == orders[m].resd

Available(m) == Least(orders[taker].resd - sumLots, orders[m].resd)

\* A plausible slip: the taker's execution has the lots of this match only.
MutNewMatch(m, lots, lotsSoFar, costSoFar) ==
  LET makerId == maxExecId + 1
      takerId == maxExecId + 2
      ticks   == orders[m].ticks
  IN  [lots |-> lots, maker |-> m,
       makerTrade |-> ExecTrade(NewExec(orders[m], m, makerId), lots,
                        CostOf(lots, ticks), lots, ticks, takerId, "Maker",
                        orders[taker].trader),
       takerTrade |-> ExecTrade(NewExec(orders[taker], taker, takerId), lots,
                        costSoFar, lots, ticks, makerId, "Taker", orders[m].trader)]

\* newMatch: the maker's execution id is allocated before the taker's.
NewMatch(m, lots, lotsSoFar, costSoFar) ==
  LET makerId == maxExecId + 1
      takerId == maxExecId + 2
      ticks   == orders[m].ticks
  IN  [lots |-> lots, maker |-> m,
       makerTrade |-> ExecTrade(NewExec(orders[m], m, makerId), lots,
                        CostOf(lots, ticks), lots, ticks, takerId, "Maker",
                        orders[taker].trader),
       takerTrade |-> ExecTrade(NewExec(orders[taker], taker, takerId), lotsSoFar,
                        costSoFar, lots, ticks, makerId, "Taker", orders[m].trader)]

MatchMaker(m) ==
  LET lots == Available(m)
      cost == CostOf(lots, orders[m].ticks)
  IN  /\ phase = "match"
      /\ Crosses(m)
      /\ walked'  = walked \cup {m}
      /\ sumLots' = sumLots + lots
      /\ sumCost' = sumCost + cost
      /\ matches' = Append(matches, NewMatch(m, lots, sumLots', sumCost'))
      /\ maxExecId' = maxExecId + 2
      /\ allocated' = allocated \cup {orders[m].trader}
      /\ UNCHANGED <<orders, resting, lastTrade, maxOrderId, sessOrders, sessTrades,
                     posns, journal, phase, taker, created, next, resp, status,
                     committed>>

\* newMatch or push_back throws.  The finaliser is not yet in place: the
\* matches already made stay in impl_->matches.
MatchThrows(m) ==
  /\ "match" \in Faults
  /\ phase = "match"
  /\ Crosses(m)
  /\ maxExecId' = maxExecId + 2
  /\ allocated' \in {allocated, allocated \cup {orders[m].trader}}
  /\ orders' = Freed
  /\ UNCHANGED <<resting, lastTrade, maxOrderId, sessOrders, sessTrades, posns,
                 journal, matches>>
  /\ Leave("error")

\* A plausible slip: the loop goes on until the taker is filled.
MutLoopEnds == sumLots = orders[taker].resd

LoopEnds == \A m \in resting : ~ Crosses(m)

\* The loop ends; the taker trades the sums when there are matches at all.
MatchEnd ==
  /\ phase = "match"
  /\ LoopEnds
  /\ orders' = IF matches = << >> THEN orders
               ELSE [orders EXCEPT ![taker] = OrderTrade(@, sumLots, sumCost)]
  /\ phase' = "place"
  /\ UNCHANGED <<resting, lastTrade, maxOrderId, maxExecId, sessVars, journal,
                 matches, callVars, status, committed>>

----------------------------------------------------------------------------
(* Placing what is left of the order in the book.                          *)

Done == orders[taker].resd = 0

\* The assertions of BookSide::insertOrder.
Placeable ==
  /\ orders[taker].ticks # 0
  /\ orders[taker].resd > 0
  /\ orders[taker].exec <= orders[taker].lots
  /\ orders[taker].lots > 0
  /\ orders[taker].minLots >= 0

\* There is a level for the order's price already.
HasLevel ==
  \E i \in resting : /\ orders[i].side = orders[taker].side
                     /\ orders[i].ticks = orders[taker].ticks

PlaceOrder ==
  /\ phase = "place"
  /\ \/ Done /\ UNCHANGED resting
     \/ ~ Done /\ Placeable /\ resting' = resting \cup {taker}
  /\ phase' = "journal"
  /\ UNCHANGED <<orders, lastTrade, maxOrderId, maxExecId, sessVars, journal, matches,
                 callVars, status, committed>>

\* The level cannot be allocated.
PlaceThrows ==
  /\ "level" \in Faults
  /\ phase = "place"
  /\ ~ Done /\ Placeable /\ ~ HasLevel
  /\ orders' = Freed
  /\ ClearMatches
  /\ UNCHANGED <<resting, lastTrade, maxOrderId, maxExecId, sessVars, journal>>
  /\ Leave("error")

PlaceAborts ==
  /\ phase = "place"
  /\ ~ Done /\ ~ Placeable
  /\ Abort

----------------------------------------------------------------------------
(* Writing the journal: one call for all the executions.                   *)

\* A plausible slip: len one match short.
MutBatch ==
  [i \in 1 .. (IF matches = << >> THEN 1 ELSE 2 * Len(matches)) |->
     IF i = 1 THEN created
     ELSE IF i % 2 = 0 THEN matches[i \div 2].makerTrade
                       ELSE matches[i \div 2].takerTrade]

\* The array execs: the new order, then maker and taker of every match.
Batch ==
  [i \in 1 .. 1 + 2 * Len(matches) |->
     IF i = 1 THEN created
     ELSE IF i % 2 = 0 THEN matches[i \div 2].makerTrade
                       ELSE matches[i \div 2].takerTrade]

WriteJournal ==
  /\ phase = "journal"
  /\ journal' = journal \o Batch
  /\ phase' = "respond"
  /\ UNCHANGED <<bookVars, sessVars, matches, callVars, status, committed>>

\* A plausible slip: the order stays in the book.
MutUnplaced == resting

\* What the inner finaliser leaves in the book.
Unplaced == resting \ {taker}

JournalThrows ==
  /\ "journal" \in Faults
  /\ phase = "journal"
  /\ resting' = Unplaced
  /\ orders' = IF taker \in resting' THEN orders ELSE Freed
  /\ ClearMatches
  /\ UNCHANGED <<lastTrade, maxOrderId, maxExecId, sessVars, journal>>
  /\ Leave("error")

----------------------------------------------------------------------------
(* The response and the commit phase.                                      *)

TakerTrader == orders[taker].trader

\* A plausible slip: the new order is forgotten.
MutOrderCapacity == Len(matches)

OrderCapacity == 1 + Len(matches)

\* A plausible slip: the sign of the new execution, below zero without matches.
MutExecCapacity == 2 * Len(matches) - 1

ExecCapacity == 1 + 2 * Len(matches)

\* lazyPosn of the taker, only when there are matches.
TakerPosn == IF matches = << >> THEN allocated ELSE allocated \cup {TakerTrader}

\* Everything that may fail has been done; the order enters its session.
PrepareResponse ==
  /\ phase = "respond"
  /\ allocated' = TakerPosn
  /\ sessOrders' = [sessOrders EXCEPT ![TakerTrader] = @ \cup {taker}]
  /\ resp' = [orders |-> <<taker>>, execs |-> <<created.id>>,
              posn |-> IF matches = << >> THEN NoTrader ELSE TakerTrader,
              orderCap |-> OrderCapacity, execCap |-> ExecCapacity]
  /\ next' = 1
  /\ phase' = "commit"
  /\ UNCHANGED <<bookVars, sessTrades, posns, journal, matches, taker, created,
                 loopVars, status, committed>>

\* The position or the response's memory cannot be allocated: the journal is
\* written and the order is in the book, and both stay so.
ResponseThrows ==
  /\ phase = "respond"
  /\ \/ /\ "posn" \in Faults
        /\ matches # << >> /\ TakerTrader \notin allocated
        /\ UNCHANGED allocated
     \/ "reserve" \in Faults /\ allocated' = TakerPosn
  /\ orders' = IF taker \in resting THEN orders ELSE Freed
  /\ ClearMatches
  /\ UNCHANGED <<resting, lastTrade, maxOrderId, maxExecId, sessOrders, sessTrades,
                 posns, journal>>
  /\ Leave("error")

\* The assertions of reduceLevel and of the taker's insertTrade.
Committable(match) ==
  /\ match.maker \in resting => match.lots \in 0 .. orders[match.maker].resd
  /\ match.takerTrade.trader = TakerTrader

\* BookSide::takeOrder: the maker leaves the book when all of it is taken.
AfterTake(match) ==
  IF match.lots < orders[match.maker].resd THEN resting ELSE resting \ {match.maker}

\* Maker first, then taker; the same position when a trader meets himself.
AfterTrades(match) ==
  LET maker == match.makerTrade.trader
      made  == [posns EXCEPT ![maker] = AddTrade(@, match.makerTrade)]
  IN  [made EXCEPT ![TakerTrader] = AddTrade(@, match.takerTrade)]

SessionTrades(match) ==
  [t \in Traders |->
     sessTrades[t] \cup {e \in {match.makerTrade, match.takerTrade} : e.trader = t}]

\* The taker sees his own maker order and its execution too.
RespInsert(match) ==
  LET self == match.makerTrade.trader = TakerTrader
  IN  [resp EXCEPT
         !.orders = IF self THEN Append(@, match.maker) ELSE @,
         !.execs  = (IF self THEN Append(@, match.makerTrade.id) ELSE @)
                      \o <<match.takerTrade.id>>]

\* One pass of commitMatches.
CommitMatch ==
  LET match == matches[next]
      ticks == orders[match.maker].ticks
  IN  /\ phase = "commit"
      /\ next <= Len(matches)
      /\ Committable(match)
      /\ orders' = [orders EXCEPT ![match.maker] =
                      OrderTrade(@, match.lots, CostOf(match.lots, ticks))]
      /\ resting' = AfterTake(match)
      /\ lastTrade' = [lots |-> match.lots, ticks |-> ticks]
      /\ sessTrades' = SessionTrades(match)
      /\ posns' = AfterTrades(match)
      /\ resp' = RespInsert(match)
      /\ next' = next + 1
      /\ UNCHANGED <<maxOrderId, maxExecId, sessOrders, allocated, journal, matches,
                     phase, taker, created, loopVars, status, committed>>

CommitAborts ==
  /\ phase = "commit"
  /\ next <= Len(matches)
  /\ ~ Committable(matches[next])
  /\ Abort

Return ==
  /\ phase = "commit"
  /\ next > Len(matches)
  /\ ClearMatches
  /\ UNCHANGED <<bookVars, sessVars, journal>>
  /\ Leave("ok")

----------------------------------------------------------------------------
Request ==
  \E day \in Days, lots \in Lots, minLots \in MinLots :
    \/ Reject(day, lots, minLots)
    \/ CreateThrows(day, lots, minLots)
    \/ \E trader \in Traders, side \in Sides, ticks \in Ticks :
         CreateOrder(day, trader, side, ticks, lots, minLots)

Match == \E m \in resting : MatchMaker(m) \/ MatchThrows(m)

\* Every step of a call that has begun.
Step ==
  \/ Match \/ MatchEnd
  \/ PlaceOrder \/ PlaceThrows \/ PlaceAborts
  \/ WriteJournal \/ JournalThrows
  \/ PrepareResponse \/ ResponseThrows
  \/ CommitMatch \/ CommitAborts \/ Return

Next == Request \/ Step

Spec == Init /\ [][Next]_vars

\* The thread that runs a call does not stop in the middle of it.
FairSpec == Spec /\ WF_vars(Step)

----------------------------------------------------------------------------
(* Properties.                                                             *)

Idle == phase = "idle"

ExecRec ==
  [id : Nat, orderId : Nat, trader : Traders, side : Sides, ticks : Int,
   state : {"New", "Trade"}, resd : Int, exec : Int, cost : Int,
   lastLots : Int, lastTicks : Int, matchId : Nat,
   role : {"None", "Maker", "Taker"}, cpty : Traders \cup {NoTrader}]

OrderRec ==
  [trader : Traders, side : Sides, ticks : Int, lots : Int, minLots : Int,
   state : {"New", "Trade"}, resd : Int, exec : Int, cost : Int]

MatchRec == [lots : Int, maker : Nat, makerTrade : ExecRec, takerTrade : ExecRec]

PosnRec == [buyLots : Int, buyCost : Int, sellLots : Int, sellCost : Int]

RespRec == [orders : Seq(Nat), execs : Seq(Nat), posn : Traders \cup {NoTrader},
            orderCap : Nat, execCap : Nat]

\* The phases of a call, and those before its order is in its session.
Calling == {"match", "place", "journal", "respond", "commit"}
Pending == Calling \ {"commit"}

\* Every variable has its type (Serv::Impl, MarketBook, TraderSess, Posn).
TypeOK ==
  /\ maxOrderId \in Nat /\ maxExecId \in Nat
  /\ DOMAIN orders \subseteq 1 .. maxOrderId
  /\ \A i \in DOMAIN orders : orders[i] \in OrderRec
  /\ resting \subseteq DOMAIN orders
  /\ lastTrade \in [lots : Int, ticks : Int]
  /\ sessOrders \in [Traders -> SUBSET DOMAIN orders]
  /\ sessTrades \in [Traders -> SUBSET ExecRec]
  /\ posns \in [Traders -> PosnRec]
  /\ allocated \subseteq Traders
  /\ journal \in Seq(ExecRec)
  /\ matches \in Seq(MatchRec)
  /\ phase \in Calling \cup {"idle", "aborted"}
  /\ phase \in Calling => taker \in DOMAIN orders /\ created \in ExecRec
  /\ walked \subseteq Nat
  /\ sumLots \in Int /\ sumCost \in Int
  /\ next \in Nat
  /\ resp \in RespRec
  /\ status \in {"none", "closed", "invalid", "error", "ok"}

\* No order gives or owes more than it has: what is left and what is done
\* make up its lots, and between calls it is in the book exactly while lots
\* are left (Order::trade, commitMatches "Assumes that maker lots have not
\* been reduced since matching took place").
OrdersBalance ==
  /\ \A i \in DOMAIN orders :
       /\ orders[i].resd >= 0 /\ orders[i].exec >= 0
       /\ orders[i].resd + orders[i].exec = orders[i].lots
  /\ Idle => resting = {i \in Outstanding : orders[i].resd > 0}

\* The journal is enough to restore every order: the last execution written
\* for it has its state, residual, executed lots and cost, although those
\* executions were made and written before the orders changed (newMatch,
\* commitMatches).  And it holds no order that was not created.
JournalRestoresOrders ==
  Idle =>
    /\ {journal[i].orderId : i \in DOMAIN journal} = Outstanding
    /\ \A o \in Outstanding :
         LET last == journal[Max({i \in DOMAIN journal : journal[i].orderId = o})]
         IN  /\ last.state = orders[o].state /\ last.resd = orders[o].resd
             /\ last.exec = orders[o].exec   /\ last.cost = orders[o].cost

\* Between calls no match waits in impl_->matches for a later call to commit
\* (Serv.cpp:370 "Ensure that matches are cleared when scope exits").
MatchesCleared == Idle => matches = << >>

\* A failed call leaves nothing behind: no order in the book that its trader's
\* session does not know, and no execution in the journal of such an order
\* (Style.md:41 on "the atomicity (all or nothingness) of matching-engine
\* transactions").
AllOrNothing ==
  Idle => /\ resting \subseteq Outstanding
          /\ \A i \in DOMAIN journal : journal[i].orderId \in Outstanding

\* The commit phase never needs more room than was reserved for it, so that
\* nothing in it can throw (Serv.cpp:424 "sufficient capacity has been
\* reserved above").
ResponseFits ==
  /\ Len(resp.orders) <= resp.orderCap
  /\ Len(resp.execs) <= resp.execCap

\* No request makes the engine reach an assertion that does not hold, which ends
\* a build that has assertions and corrupts the book of one that has not.
NeverAborts == phase # "aborted"

----------------------------------------------------------------------------
(* Properties that hold whatever throws.                                   *)

SumOver(S, value(_)) == MapThenSumSet(value, S)

\* A trader's position is the sum of the trades of the trader's session.
PositionsAreTrades ==
  \A t \in Traders :
    LET of(side)  == {e \in sessTrades[t] : e.side = side}
        lots(S)   == SumOver(S, LAMBDA e : e.lastLots)
        cost(S)   == SumOver(S, LAMBDA e : e.lastLots * e.lastTicks)
    IN  posns[t] = [buyLots  |-> lots(of("Buy")),  buyCost  |-> cost(of("Buy")),
                    sellLots |-> lots(of("Sell")), sellCost |-> cost(of("Sell"))]

\* What a session shows has been journalled before, and an execution id is
\* written once only.
JournalFirst ==
  /\ Trades \subseteq ToSet(journal)
  /\ \A i, j \in DOMAIN journal : i # j => journal[i].id # journal[j].id

\* Every trade in the journal has its other side there: each names the other
\* as its match and counterparty, at the same price and lots.
TradesPaired ==
  \A e \in ToSet(journal) : e.role # "None" =>
    \E f \in ToSet(journal) :
      /\ f.id = e.matchId /\ f.matchId = e.id
      /\ f.role # e.role /\ f.role # "None" /\ f.side = Opposite(e.side)
      /\ f.cpty = e.trader /\ e.cpty = f.trader
      /\ f.lastLots = e.lastLots /\ f.lastTicks = e.lastTicks

\* A call that has begun returns, throws or fails an assertion: matching ends, and
\* again and again there is no call under way.
CallsEnd == []<>(phase \in {"idle", "aborted"})

\* The engine implements price-time matching: seen between calls, an accepted
\* order has traded exactly the lots the closed form gives, at its makers'
\* prices, and an order not accepted has changed nothing.
Matching == INSTANCE PriceTimeMatching WITH
  Quantities <- {n \in Lots : n > 0},
  Ids <- 1 .. MaxOrders,
  accounts <- committed.accounts,
  posns <- committed.posns,
  fills <- committed.fills

ImplementsMatching == Matching!Spec
=============================================================================
