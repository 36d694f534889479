----------------------------- MODULE ServProofs -----------------------------
(***************************************************************************)
(* Proofs about module Serv for every number of traders, prices, lots and   *)
(* orders.  First for every set of failing points: the types; of the         *)
(* journal, that each trade in it has its other side, that no id is written  *)
(* twice, and that sessions show only what has been written; and of the      *)
(* positions, that they are the sums of the trades in the sessions.          *)
(*                                                                          *)
(* Then of the book: what a match drafts is what its commit does, so that    *)
(* the assertions hold, the room reserved is enough, and a call that fails   *)
(* where createOrder undoes it leaves nothing behind.  These theorems are as *)
(* wide as the code: each names the failing points and quantities that it    *)
(* must exclude, and the runs serv_stale_matches, serv_orphan_order and      *)
(* serv_aborts show what happens with those.                                 *)
(***************************************************************************)
EXTENDS Serv, FoldProofs, TLAPS

USE DEF Calling, Pending, Sides

----------------------------------------------------------------------------
(* Types.                                                                  *)

\* Orders and executions keep their types through trades (Order::trade,
\* Factory::newExec, Exec::trade).
LEMMA OrderTradeType ==
  ASSUME NEW order \in OrderRec, NEW lots \in Int, NEW cost \in Int
  PROVE  OrderTrade(order, lots, cost) \in OrderRec
BY DEF OrderTrade, OrderRec

\* The execution made of an order is one (Factory::newExec).
LEMMA NewExecType ==
  ASSUME NEW order \in OrderRec, NEW orderId \in Nat, NEW id \in Nat
  PROVE  NewExec(order, orderId, id) \in ExecRec
BY DEF NewExec, OrderRec, ExecRec

\* An execution that has traded is one (Exec::trade).
LEMMA ExecTradeType ==
  ASSUME NEW exec \in ExecRec, NEW lots \in Int, NEW cost \in Int,
         NEW lastLots \in Int, NEW lastTicks \in Int, NEW matchId \in Nat,
         NEW role \in {"Maker", "Taker"}, NEW cpty \in Traders
  PROVE  ExecTrade(exec, lots, cost, lastLots, lastTicks, matchId, role, cpty)
           \in ExecRec
BY DEF ExecTrade, ExecRec

\* A position stays a position when a trade is added (Posn::addTrade).
LEMMA AddTradeType ==
  ASSUME NEW posn \in PosnRec, NEW trade \in ExecRec
  PROVE  AddTrade(posn, trade) \in PosnRec
<1>1. CostOf(trade.lastLots, trade.lastTicks) \in Int
  BY DEF CostOf, ExecRec
<1>2. PICK cost \in Int : cost = CostOf(trade.lastLots, trade.lastTicks)
  BY <1>1
<1>3. CASE trade.side = "Buy"
  <2>1. AddTrade(posn, trade) =
          [buyLots |-> posn.buyLots + trade.lastLots, buyCost |-> posn.buyCost + cost,
           sellLots |-> posn.sellLots, sellCost |-> posn.sellCost]
    BY <1>2, <1>3 DEF AddTrade, PosnRec
  <2> QED BY <2>1 DEF PosnRec, ExecRec
<1>4. CASE trade.side # "Buy"
  <2>1. AddTrade(posn, trade) =
          [buyLots |-> posn.buyLots, buyCost |-> posn.buyCost,
           sellLots |-> posn.sellLots + trade.lastLots,
           sellCost |-> posn.sellCost + cost]
    BY <1>2, <1>4 DEF AddTrade, PosnRec
  <2> QED BY <2>1 DEF PosnRec, ExecRec
<1> QED BY <1>3, <1>4

\* An order that a call is about to free is known to no session yet, and is
\* outside the book until it is placed: freeing it leaves no reference behind.
TakerFresh ==
  /\ phase \in Pending => \A t \in Traders : taker \notin sessOrders[t]
  /\ phase \in {"match", "place"} => taker \notin resting

TypeInv == TypeOK /\ TakerFresh

LEMMA InitTypeInv == Init => TypeInv
<1> SUFFICES ASSUME Init PROVE TypeInv
  OBVIOUS
<1>1. DOMAIN orders = {}
  BY DEF Init
<1>2. ZeroPosn \in PosnRec
  BY DEF ZeroPosn, PosnRec
<1>3. NoResp \in RespRec
  BY DEF NoResp, RespRec
<1> QED BY <1>1, <1>2, <1>3 DEF Init, TypeInv, TypeOK, TakerFresh

\* Leaving a call restores the types of the locals.
LEMMA LeaveTypes ==
  ASSUME NEW outcome \in {"error", "ok"}, Leave(outcome)
  PROVE  /\ phase' = "idle" /\ status' \in {"error", "ok"}
         /\ walked' = {} /\ sumLots' = 0 /\ sumCost' = 0 /\ next' = 0
         /\ resp' \in RespRec
<1>1. NoResp \in RespRec
  BY DEF NoResp, RespRec
<1> QED BY <1>1 DEF Leave

\* Freeing the call's order, when neither book nor session has it.
LEMMA FreedTypes ==
  ASSUME TypeInv, taker \in DOMAIN orders
  PROVE  /\ DOMAIN Freed = DOMAIN orders \ {taker}
         /\ \A i \in DOMAIN Freed : Freed[i] = orders[i]
BY DEF Freed, Restrict

LEMMA TypeRequest == TypeInv /\ Request => TypeInv'
<1> SUFFICES ASSUME TypeInv,
                    NEW day \in Days, NEW lots \in Lots, NEW minLots \in MinLots,
                    \/ Reject(day, lots, minLots)
                    \/ CreateThrows(day, lots, minLots)
                    \/ \E trader \in Traders, side \in Sides, ticks \in Ticks :
                         CreateOrder(day, trader, side, ticks, lots, minLots)
             PROVE  TypeInv'
  BY DEF Request
<1> USE ServAssumption
<1>1. CASE Reject(day, lots, minLots)
  BY <1>1 DEF Reject, TypeInv, TypeOK, TakerFresh, bookVars, sessVars, callVars, loopVars
<1>2. CASE CreateThrows(day, lots, minLots)
  <2>1. Leave("error")
    BY <1>2 DEF CreateThrows
  <2> QED BY <1>2, <2>1, LeaveTypes
        DEF CreateThrows, Accept, TypeInv, TypeOK, TakerFresh, sessVars
<1>3. ASSUME NEW trader \in Traders, NEW side \in Sides, NEW ticks \in Ticks,
             CreateOrder(day, trader, side, ticks, lots, minLots)
      PROVE  TypeInv'
  <2> DEFINE order == NewOrder(trader, side, ticks, lots, minLots)
             id    == maxOrderId + 1
  <2>1. order \in OrderRec
    BY DEF NewOrder, OrderRec
  <2>2. /\ phase = "idle" /\ phase' = "match" /\ maxOrderId' = id
        /\ maxExecId' = maxExecId + 1 /\ taker' = id /\ status' = "none"
        /\ UNCHANGED <<resting, lastTrade, sessVars, journal, matches, loopVars, next, resp>>
    BY <1>3 DEF CreateOrder, Accept
  <2>3. orders' = [i \in DOMAIN orders \cup {id} |-> IF i = id THEN order ELSE orders[i]]
    BY <1>3, <2>2, Zenon DEF CreateOrder
  <2>4. id \notin DOMAIN orders /\ id \in Nat
    BY DEF TypeInv, TypeOK
  <2>5. created' \in ExecRec
    <3>1. created' = NewExec(order, id, maxExecId + 1)
      BY <1>3, <2>2, Zenon DEF CreateOrder
    <3> QED BY <2>1, <2>4, <3>1, NewExecType DEF TypeInv, TypeOK
  <2>6. /\ DOMAIN orders' = DOMAIN orders \cup {id}
        /\ \A i \in DOMAIN orders' : orders'[i] \in OrderRec
    BY <2>1, <2>3 DEF TypeInv, TypeOK
  <2>7. DOMAIN orders' \subseteq 1 .. maxOrderId'
    BY <2>2, <2>6 DEF TypeInv, TypeOK
  <2>8. sessOrders' \in [Traders -> SUBSET DOMAIN orders']
    BY <2>2, <2>6 DEF TypeInv, TypeOK, sessVars
  <2>9. TypeOK'
    BY <2>2, <2>4, <2>5, <2>6, <2>7, <2>8, SMTT(60) DEF TypeInv, TypeOK, sessVars, loopVars
  <2>10. TakerFresh'
    BY <2>2, <2>4 DEF TypeInv, TypeOK, TakerFresh, sessVars
  <2> QED BY <2>9, <2>10 DEF TypeInv
<1> QED BY <1>1, <1>2, <1>3

\* A match of the call's order with a resting order has its type (newMatch).
LEMMA NewMatchType ==
  ASSUME TypeInv, phase \in Calling, NEW m \in DOMAIN orders, NEW lots \in Int,
         NEW lotsSoFar \in Int, NEW costSoFar \in Int
  PROVE  NewMatch(m, lots, lotsSoFar, costSoFar) \in MatchRec
<1> DEFINE makerId == maxExecId + 1
           takerId == maxExecId + 2
           ticks   == orders[m].ticks
           maker   == ExecTrade(NewExec(orders[m], m, makerId), lots, CostOf(lots, ticks),
                        lots, ticks, takerId, "Maker", orders[taker].trader)
           taken   == ExecTrade(NewExec(orders[taker], taker, takerId), lotsSoFar,
                        costSoFar, lots, ticks, makerId, "Taker", orders[m].trader)
<1>1. /\ orders[m] \in OrderRec /\ orders[taker] \in OrderRec
      /\ m \in Nat /\ taker \in Nat /\ makerId \in Nat /\ takerId \in Nat
  BY DEF TypeInv, TypeOK
<1>2. /\ ticks \in Int /\ orders[m].trader \in Traders /\ orders[taker].trader \in Traders
  BY <1>1 DEF OrderRec
<1>3. CostOf(lots, ticks) \in Int
  BY <1>2 DEF CostOf
<1>4. NewExec(orders[m], m, makerId) \in ExecRec /\ NewExec(orders[taker], taker, takerId) \in ExecRec
  BY <1>1, NewExecType
<1>5. maker \in ExecRec
  <2> HIDE DEF ticks
  <2> QED BY <1>1, <1>2, <1>3, <1>4, ExecTradeType
<1>6. taken \in ExecRec
  <2> HIDE DEF ticks
  <2> QED BY <1>1, <1>2, <1>4, ExecTradeType
<1>7. NewMatch(m, lots, lotsSoFar, costSoFar)
        = [lots |-> lots, maker |-> m, makerTrade |-> maker, takerTrade |-> taken]
  BY DEF NewMatch
<1> HIDE DEF maker, taken
<1> QED BY <1>1, <1>5, <1>6, <1>7 DEF MatchRec

LEMMA TypeMatch == TypeInv /\ (Match \/ MatchEnd) => TypeInv'
<1>1. ASSUME TypeInv, NEW m \in resting, MatchMaker(m)
      PROVE  TypeInv'
  <2> DEFINE lots == Available(m)
             cost == CostOf(lots, orders[m].ticks)
  <2>1. /\ m \in DOMAIN orders /\ m \in Nat /\ taker \in DOMAIN orders
        /\ orders[m] \in OrderRec /\ orders[taker] \in OrderRec
        /\ phase = "match"
    BY <1>1 DEF MatchMaker, TypeInv, TypeOK
  <2>2. lots \in Int
    <3>1. sumLots \in Int BY <1>1 DEF TypeInv, TypeOK
    <3>2. orders[m].resd \in Int /\ orders[taker].resd \in Int BY <2>1 DEF OrderRec
    <3> QED BY <3>1, <3>2 DEF Available, Least
  <2>3. cost \in Int
    BY <2>1, <2>2 DEF CostOf, OrderRec
  <2> HIDE DEF lots, cost
  <2>4. /\ sumLots' = sumLots + lots /\ sumCost' = sumCost + cost
        /\ walked' = walked \cup {m} /\ maxExecId' = maxExecId + 2
        /\ allocated' = allocated \cup {orders[m].trader}
        /\ matches' = Append(matches, NewMatch(m, lots, sumLots', sumCost'))
        /\ UNCHANGED <<orders, resting, lastTrade, maxOrderId, sessOrders, sessTrades,
                       posns, journal, phase, taker, created, next, resp, status>>
    BY <1>1 DEF MatchMaker, lots, cost
  <2>5. sumLots' \in Int /\ sumCost' \in Int
    BY <1>1, <2>2, <2>3, <2>4 DEF TypeInv, TypeOK
  <2>6. NewMatch(m, lots, sumLots', sumCost') \in MatchRec
    BY <1>1, <2>1, <2>2, <2>5, NewMatchType
  <2>7. matches' \in Seq(MatchRec)
    BY <1>1, <2>4, <2>6 DEF TypeInv, TypeOK
  <2>8. orders[m].trader \in Traders
    BY <2>1 DEF OrderRec
  <2>9. /\ walked' = walked \cup {m} /\ maxExecId' = maxExecId + 2
        /\ allocated' = allocated \cup {orders[m].trader}
        /\ UNCHANGED <<orders, resting, lastTrade, maxOrderId, sessOrders, sessTrades,
                       posns, journal, phase, taker, created, next, resp, status>>
    BY <2>4
  <2>10. TypeOK /\ TakerFresh
    BY <1>1 DEF TypeInv
  <2>11. TypeOK'
    <3>1. maxExecId' \in Nat
      BY <2>9, <2>10 DEF TypeOK
    <3>3. walked' \subseteq Nat
      <4>1. walked \subseteq Nat
        BY <2>10 DEF TypeOK
      <4> QED BY <2>1, <2>9, <4>1
    <3>4. allocated' \subseteq Traders
      <4>1. allocated \subseteq Traders
        BY <2>10 DEF TypeOK
      <4> QED BY <2>8, <2>9, <4>1
    <3>2. UNCHANGED <<orders, resting, lastTrade, maxOrderId, sessOrders, sessTrades,
                      posns, journal, phase, taker, created, next, resp, status>>
      BY <2>9
    <3> QED BY <2>5, <2>7, <2>10, <3>1, <3>2, <3>3, <3>4 DEF TypeOK
  <2>12. TakerFresh'
    BY <2>9, <2>10 DEF TakerFresh
  <2> QED BY <2>11, <2>12 DEF TypeInv
<1>2. ASSUME TypeInv, NEW m \in resting, MatchThrows(m)
      PROVE  TypeInv'
  <2>1. phase = "match" /\ Leave("error") /\ orders' = Freed /\ taker \in DOMAIN orders
    BY <1>2 DEF MatchThrows, TypeInv, TypeOK
  <2>2. orders[m].trader \in Traders
    BY <1>2 DEF TypeInv, TypeOK, OrderRec
  <2>3. taker \notin resting /\ \A t \in Traders : taker \notin sessOrders[t]
    BY <1>2, <2>1 DEF TypeInv, TakerFresh
  <2>4. sessOrders' \in [Traders -> SUBSET DOMAIN orders']
    BY <1>2, <2>1, <2>3, FreedTypes DEF MatchThrows, TypeInv, TypeOK
  <2> QED BY <1>2, <2>1, <2>2, <2>3, <2>4, LeaveTypes, FreedTypes
        DEF MatchThrows, TypeInv, TypeOK, TakerFresh
<1>3. ASSUME TypeInv, MatchEnd
      PROVE  TypeInv'
  <2>1. phase = "match" /\ taker \in DOMAIN orders /\ orders[taker] \in OrderRec
    BY <1>3 DEF MatchEnd, TypeInv, TypeOK
  <2>2. OrderTrade(orders[taker], sumLots, sumCost) \in OrderRec
    BY <1>3, <2>1, OrderTradeType DEF TypeInv, TypeOK
  <2>3. DOMAIN orders' = DOMAIN orders /\ \A i \in DOMAIN orders' : orders'[i] \in OrderRec
    BY <1>3, <2>1, <2>2 DEF MatchEnd, TypeInv, TypeOK
  <2> QED BY <1>3, <2>1, <2>3
        DEF MatchEnd, TypeInv, TypeOK, TakerFresh, sessVars, callVars, loopVars
<1> QED BY <1>1, <1>2, <1>3 DEF Match

\* What every throw of a call does to types: the call's order is freed, and
\* nobody refers to it.
LEMMA TypePlace ==
  TypeInv /\ (PlaceOrder \/ PlaceThrows \/ PlaceAborts) => TypeInv'
<1>1. ASSUME TypeInv, PlaceOrder
      PROVE  TypeInv'
  <2>1. phase = "place" /\ taker \in DOMAIN orders
    BY <1>1 DEF PlaceOrder, TypeInv, TypeOK
  <2> QED BY <1>1, <2>1
        DEF PlaceOrder, TypeInv, TypeOK, TakerFresh, sessVars, callVars, loopVars
<1>2. ASSUME TypeInv, PlaceThrows
      PROVE  TypeInv'
  <2>1. phase = "place" /\ Leave("error") /\ orders' = Freed /\ taker \in DOMAIN orders
    BY <1>2 DEF PlaceThrows, TypeInv, TypeOK
  <2>2. taker \notin resting /\ \A t \in Traders : taker \notin sessOrders[t]
    BY <1>2, <2>1 DEF TypeInv, TakerFresh
  <2>3. sessOrders' \in [Traders -> SUBSET DOMAIN orders']
    BY <1>2, <2>1, <2>2, FreedTypes DEF PlaceThrows, TypeInv, TypeOK, sessVars
  <2>4. matches' \in Seq(MatchRec)
    BY <1>2 DEF PlaceThrows, ClearMatches
  <2> QED BY <1>2, <2>1, <2>2, <2>3, <2>4, LeaveTypes, FreedTypes
        DEF PlaceThrows, TypeInv, TypeOK, TakerFresh, sessVars
<1>3. ASSUME TypeInv, PlaceAborts
      PROVE  TypeInv'
  BY <1>3 DEF PlaceAborts, Abort, TypeInv, TypeOK, TakerFresh, bookVars, sessVars,
              callVars, loopVars
<1> QED BY <1>1, <1>2, <1>3

\* Half of a position in the batch above the first is the position of a match.
LEMMA HalfIndex ==
  ASSUME NEW n \in Nat, NEW i \in 2 .. 1 + 2 * n
  PROVE  i \div 2 \in 1 .. n
OBVIOUS

\* The batch written to the journal is a sequence of executions (createOrder).
LEMMA BatchType ==
  ASSUME TypeInv, phase \in Calling
  PROVE  Batch \in Seq(ExecRec)
<1>1. Len(matches) \in Nat /\ created \in ExecRec
  BY DEF TypeInv, TypeOK
<1>2. ASSUME NEW k \in 1 .. Len(matches)
      PROVE  matches[k].makerTrade \in ExecRec /\ matches[k].takerTrade \in ExecRec
  <2>1. matches[k] \in MatchRec
    BY <1>2 DEF TypeInv, TypeOK
  <2> QED BY <2>1 DEF MatchRec
<1>3. ASSUME NEW i \in 1 .. 1 + 2 * Len(matches)
      PROVE  Batch[i] \in ExecRec
  <2>1. CASE i = 1
    BY <1>1, <2>1 DEF Batch
  <2>2. CASE i # 1
    <3>1. i \div 2 \in 1 .. Len(matches)
      BY <1>1, <2>2, HalfIndex
    <3> QED BY <1>1, <1>2, <2>2, <3>1 DEF Batch
  <2> QED BY <2>1, <2>2
<1>4. Batch = [i \in 1 .. 1 + 2 * Len(matches) |-> Batch[i]]
  BY DEF Batch
<1>5. 1 + 2 * Len(matches) \in Nat
  BY <1>1
<1> QED BY <1>3, <1>4, <1>5

LEMMA TypeJournal == TypeInv /\ (WriteJournal \/ JournalThrows) => TypeInv'
<1>1. ASSUME TypeInv, WriteJournal
      PROVE  TypeInv'
  <2>1. phase = "journal" /\ Batch \in Seq(ExecRec)
    BY <1>1, BatchType DEF WriteJournal
  <2>2. journal' \in Seq(ExecRec)
    BY <1>1, <2>1 DEF WriteJournal, TypeInv, TypeOK
  <2>3. /\ phase' = "respond"
        /\ UNCHANGED <<bookVars, sessVars, matches, callVars, status>>
    BY <1>1 DEF WriteJournal
  <2>4. TypeOK /\ TakerFresh
    BY <1>1 DEF TypeInv
  <2>5. TypeOK'
    BY <2>1, <2>2, <2>3, <2>4 DEF TypeOK, bookVars, sessVars, callVars, loopVars
  <2>6. TakerFresh'
    BY <2>1, <2>3, <2>4 DEF TakerFresh, bookVars, sessVars, callVars
  <2> QED BY <2>5, <2>6 DEF TypeInv
<1>2. ASSUME TypeInv, JournalThrows
      PROVE  TypeInv'
  <2>1. /\ phase = "journal" /\ Leave("error") /\ taker \in DOMAIN orders
        /\ resting' = resting \ {taker} /\ orders' = Freed
    BY <1>2 DEF JournalThrows, Unplaced, TypeInv, TypeOK
  <2>2. \A t \in Traders : taker \notin sessOrders[t]
    BY <1>2, <2>1 DEF TypeInv, TakerFresh
  <2>3. sessOrders' \in [Traders -> SUBSET DOMAIN orders']
    BY <1>2, <2>1, <2>2, FreedTypes DEF JournalThrows, TypeInv, TypeOK, sessVars
  <2>4. matches' \in Seq(MatchRec)
    BY <1>2 DEF JournalThrows, ClearMatches
  <2> QED BY <1>2, <2>1, <2>2, <2>3, <2>4, LeaveTypes, FreedTypes
        DEF JournalThrows, TypeInv, TypeOK, TakerFresh, sessVars
<1> QED BY <1>1, <1>2

LEMMA TypeRespond == TypeInv /\ (PrepareResponse \/ ResponseThrows) => TypeInv'
<1>1. ASSUME TypeInv, PrepareResponse
      PROVE  TypeInv'
  <2>1. /\ phase = "respond" /\ phase' = "commit" /\ next' = 1
        /\ taker \in DOMAIN orders /\ taker \in Nat /\ created \in ExecRec
    BY <1>1 DEF PrepareResponse, TypeInv, TypeOK
  <2>2. TakerTrader \in Traders /\ created.id \in Nat
    BY <1>1, <2>1 DEF TakerTrader, TypeInv, TypeOK, OrderRec, ExecRec
  <2>3. allocated' \subseteq Traders
    BY <1>1, <2>2 DEF PrepareResponse, TakerPosn, TypeInv, TypeOK
  <2>4. sessOrders' \in [Traders -> SUBSET DOMAIN orders']
    BY <1>1, <2>1, <2>2 DEF PrepareResponse, TypeInv, TypeOK, bookVars
  <2>5. OrderCapacity \in Nat /\ ExecCapacity \in Nat
    BY <1>1 DEF OrderCapacity, ExecCapacity, TypeInv, TypeOK
  <2>6. resp' \in RespRec
    <3>1. <<taker>> \in Seq(Nat) /\ <<created.id>> \in Seq(Nat)
      BY <2>1, <2>2
    <3> QED BY <1>1, <2>2, <2>5, <3>1 DEF PrepareResponse, RespRec
  <2>7. UNCHANGED <<bookVars, sessTrades, posns, journal, matches, taker, created,
                    loopVars, status>>
    BY <1>1 DEF PrepareResponse
  <2>8. TypeOK
    BY <1>1 DEF TypeInv
  <2>9. TypeOK'
    BY <2>1, <2>3, <2>4, <2>6, <2>7, <2>8 DEF TypeOK, bookVars, loopVars
  <2>10. TakerFresh'
    BY <2>1 DEF TakerFresh
  <2> QED BY <2>9, <2>10 DEF TypeInv
<1>2. ASSUME TypeInv, ResponseThrows
      PROVE  TypeInv'
  <2>1. /\ phase = "respond" /\ Leave("error") /\ taker \in DOMAIN orders
        /\ UNCHANGED <<resting, lastTrade, maxOrderId, maxExecId, sessOrders,
                       sessTrades, posns, journal>>
        /\ matches' = << >>
    BY <1>2 DEF ResponseThrows, ClearMatches, TypeInv, TypeOK
  <2>2. \A t \in Traders : taker \notin sessOrders[t]
    BY <1>2, <2>1 DEF TypeInv, TakerFresh
  <2>3. allocated' \subseteq Traders
    BY <1>2, <2>1 DEF ResponseThrows, TakerPosn, TakerTrader, TypeInv, TypeOK, OrderRec
  <2>4. /\ DOMAIN orders' \subseteq DOMAIN orders
        /\ \A i \in DOMAIN orders' : orders'[i] = orders[i]
        /\ resting \subseteq DOMAIN orders' /\ DOMAIN orders \ {taker} \subseteq DOMAIN orders'
    BY <1>2, <2>1, FreedTypes DEF ResponseThrows, TypeInv, TypeOK
  <2>5. sessOrders' \in [Traders -> SUBSET DOMAIN orders']
    BY <1>2, <2>1, <2>2, <2>4 DEF TypeInv, TypeOK
  <2> QED BY <1>2, <2>1, <2>3, <2>4, <2>5, LeaveTypes DEF TypeInv, TypeOK, TakerFresh
<1> QED BY <1>1, <1>2

\* Maker and taker positions stay positions (commitMatches).
LEMMA AfterTradesType ==
  ASSUME TypeInv, phase \in Calling, NEW match \in MatchRec
  PROVE  AfterTrades(match) \in [Traders -> PosnRec]
<1> DEFINE maker == match.makerTrade.trader
           made  == [posns EXCEPT ![maker] = AddTrade(@, match.makerTrade)]
<1>1. /\ match.makerTrade \in ExecRec /\ match.takerTrade \in ExecRec
      /\ maker \in Traders /\ posns \in [Traders -> PosnRec]
  BY DEF MatchRec, ExecRec, TypeInv, TypeOK
<1>2. AddTrade(posns[maker], match.makerTrade) \in PosnRec
  <2>1. posns[maker] \in PosnRec
    BY <1>1
  <2> QED BY <1>1, <2>1, AddTradeType
<1>3. made \in [Traders -> PosnRec]
  BY <1>1, <1>2
<1>4. TakerTrader \in Traders
  BY DEF TakerTrader, TypeInv, TypeOK, OrderRec
<1>5. AddTrade(made[TakerTrader], match.takerTrade) \in PosnRec
  <2>1. made[TakerTrader] \in PosnRec
    BY <1>3, <1>4
  <2> HIDE DEF made
  <2> QED BY <1>1, <2>1, AddTradeType
<1>6. AfterTrades(match) = [made EXCEPT ![TakerTrader] = AddTrade(@, match.takerTrade)]
  BY DEF AfterTrades
<1> HIDE DEF made
<1> QED BY <1>3, <1>4, <1>5, <1>6

\* The response stays one (commitMatches).
LEMMA RespInsertType ==
  ASSUME TypeInv, NEW match \in MatchRec
  PROVE  RespInsert(match) \in RespRec
<1> DEFINE self == match.makerTrade.trader = TakerTrader
           o == IF self THEN Append(resp.orders, match.maker) ELSE resp.orders
           e == (IF self THEN Append(resp.execs, match.makerTrade.id) ELSE resp.execs)
                   \o <<match.takerTrade.id>>
<1>1. /\ match.maker \in Nat /\ match.makerTrade.id \in Nat
      /\ match.takerTrade.id \in Nat
  BY DEF MatchRec, ExecRec
<1>2. resp \in RespRec /\ resp.orders \in Seq(Nat) /\ resp.execs \in Seq(Nat)
  BY DEF TypeInv, TypeOK, RespRec
<1>3. o \in Seq(Nat)
  BY <1>1, <1>2
<1>4. e \in Seq(Nat)
  <2>1. <<match.takerTrade.id>> \in Seq(Nat)
    BY <1>1
  <2>2. (IF self THEN Append(resp.execs, match.makerTrade.id) ELSE resp.execs) \in Seq(Nat)
    BY <1>1, <1>2
  <2> QED BY <2>1, <2>2
<1>5. RespInsert(match) = [resp EXCEPT !.orders = o, !.execs = e]
  BY DEF RespInsert
<1> HIDE DEF o, e
<1> QED BY <1>2, <1>3, <1>4, <1>5 DEF RespRec

\* A match's maker is an order that is not the call's own, so that freeing the
\* call's order never leaves a match without its maker; and the commit phase
\* begins at the first match.
MakersKnown ==
  /\ \A k \in DOMAIN matches :
       /\ matches[k].maker \in DOMAIN orders
       /\ phase \in Pending => matches[k].maker # taker
  /\ phase = "commit" => next >= 1

LEMMA TypeCommit ==
  TypeInv /\ MakersKnown /\ (CommitMatch \/ CommitAborts \/ Return) => TypeInv'
<1>1. ASSUME TypeInv, MakersKnown, CommitMatch
      PROVE  TypeInv'
  <2> DEFINE match == matches[next]
             maker == match.maker
             ticks == orders[maker].ticks
             traded == OrderTrade(orders[maker], match.lots, CostOf(match.lots, ticks))
  <2>1. phase = "commit" /\ TypeOK /\ next \in DOMAIN matches
    BY <1>1 DEF CommitMatch, TypeInv, TypeOK, MakersKnown
  <2>2. /\ orders' = [orders EXCEPT ![maker] = traded]
        /\ resting' = AfterTake(match)
        /\ lastTrade' = [lots |-> match.lots, ticks |-> ticks]
        /\ sessTrades' = SessionTrades(match)
        /\ posns' = AfterTrades(match)
        /\ resp' = RespInsert(match)
        /\ next' = next + 1
        /\ UNCHANGED <<maxOrderId, maxExecId, sessOrders, allocated, journal, matches,
                       phase, taker, created, loopVars, status>>
    BY <1>1 DEF CommitMatch
  <2>3. match \in MatchRec /\ maker \in DOMAIN orders
    BY <1>1, <2>1 DEF TypeOK, MakersKnown
  <2> HIDE DEF match, traded
  <2>4. match.lots \in Int /\ match.makerTrade \in ExecRec /\ match.takerTrade \in ExecRec
    BY <2>3 DEF MatchRec
  <2>5. orders[maker] \in OrderRec /\ ticks \in Int
    BY <2>1, <2>3 DEF TypeOK, OrderRec
  <2>6. traded \in OrderRec
    <3>1. CostOf(match.lots, ticks) \in Int
      BY <2>4, <2>5 DEF CostOf
    <3> HIDE DEF ticks
    <3> QED BY <2>4, <2>5, <3>1, OrderTradeType DEF traded
  <2>7. DOMAIN orders' = DOMAIN orders /\ \A i \in DOMAIN orders' : orders'[i] \in OrderRec
    BY <2>1, <2>2, <2>6 DEF TypeOK
  <2>8. resting' \subseteq DOMAIN orders'
    BY <2>1, <2>2, <2>7 DEF TypeOK, AfterTake
  <2>9. lastTrade' \in [lots : Int, ticks : Int]
    BY <2>2, <2>4, <2>5
  <2>10. sessTrades' \in [Traders -> SUBSET ExecRec]
    BY <2>1, <2>2, <2>4 DEF TypeOK, SessionTrades
  <2>11. posns' \in [Traders -> PosnRec]
    BY <1>1, <2>1, <2>2, <2>3, AfterTradesType
  <2>12. resp' \in RespRec
    BY <1>1, <2>2, <2>3, RespInsertType
  <2>13. sessOrders' \in [Traders -> SUBSET DOMAIN orders'] /\ next' \in Nat
    BY <2>1, <2>2, <2>7 DEF TypeOK
  <2>14. UNCHANGED <<maxOrderId, maxExecId, allocated, journal, matches, phase, taker,
                     created, loopVars, status>>
    BY <2>2
  <2>15. TypeOK'
    BY <2>1, <2>7, <2>8, <2>9, <2>10, <2>11, <2>12, <2>13, <2>14 DEF TypeOK, loopVars
  <2>16. TakerFresh'
    BY <2>1, <2>14 DEF TakerFresh
  <2> QED BY <2>15, <2>16 DEF TypeInv
<1>2. ASSUME TypeInv, CommitAborts
      PROVE  TypeInv'
  BY <1>2 DEF CommitAborts, Abort, TypeInv, TypeOK, TakerFresh, bookVars, sessVars,
              callVars, loopVars
<1>3. ASSUME TypeInv, Return
      PROVE  TypeInv'
  <2>1. Leave("ok") /\ matches' = << >> /\ UNCHANGED <<bookVars, sessVars, journal>>
    BY <1>3 DEF Return, ClearMatches
  <2> QED BY <1>3, <2>1, LeaveTypes
        DEF TypeInv, TypeOK, TakerFresh, bookVars, sessVars
<1> QED BY <1>1, <1>2, <1>3

\* What is common to the throws of a call: the matches stay or go, and the
\* call's order goes at most.
LEMMA MakersKnownThrow ==
  ASSUME TypeInv, MakersKnown, phase \in Pending \cup {"idle"},
         phase' = "idle", matches' \in {matches, << >>},
         orders' \in {orders, Freed}, phase = "idle" => orders' = orders
  PROVE  MakersKnown'
<1>1. CASE orders' = orders
  BY <1>1 DEF MakersKnown
<1>2. CASE orders' = Freed /\ phase \in Pending
  <2>1. DOMAIN orders' = DOMAIN orders \ {taker}
    BY <1>2 DEF Freed, Restrict
  <2> QED BY <1>2, <2>1 DEF MakersKnown
<1> QED BY <1>1, <1>2

LEMMA MakersKnownNext == TypeInv /\ MakersKnown /\ [Next]_vars => MakersKnown'
<1> SUFFICES ASSUME TypeInv, MakersKnown, [Next]_vars
             PROVE  MakersKnown'
  OBVIOUS
<1> USE DEF TypeInv
<1>1. ASSUME NEW day \in Days, NEW lots \in Lots, NEW minLots \in MinLots,
             Reject(day, lots, minLots)
      PROVE  MakersKnown'
  BY <1>1 DEF Reject, MakersKnown, bookVars, callVars
<1>2. ASSUME NEW day \in Days, NEW lots \in Lots, NEW minLots \in MinLots,
             CreateThrows(day, lots, minLots)
      PROVE  MakersKnown'
  BY <1>2, MakersKnownThrow DEF CreateThrows, Accept, Leave
<1>3. ASSUME NEW day \in Days, NEW lots \in Lots, NEW minLots \in MinLots,
             NEW trader \in Traders, NEW side \in Sides, NEW ticks \in Ticks,
             CreateOrder(day, trader, side, ticks, lots, minLots)
      PROVE  MakersKnown'
  <2>1. /\ phase' = "match" /\ matches' = matches /\ taker' = maxOrderId + 1
        /\ DOMAIN orders' = DOMAIN orders \cup {maxOrderId + 1}
    BY <1>3 DEF CreateOrder, Accept
  <2> QED BY <2>1 DEF MakersKnown, TypeOK
<1>4. ASSUME NEW m \in resting, MatchMaker(m)
      PROVE  MakersKnown'
  <2>1. /\ phase = "match" /\ UNCHANGED <<phase, orders, taker>>
        /\ m \in DOMAIN orders /\ m # taker
    BY <1>4 DEF MatchMaker, TakerFresh, TypeOK
  <2>2. PICK match : match.maker = m /\ matches' = Append(matches, match)
    BY <1>4 DEF MatchMaker, NewMatch
  <2>3. matches \in Seq(MatchRec)
    BY DEF TypeOK
  <2>4. ASSUME NEW k \in DOMAIN matches'
        PROVE  matches'[k].maker \in DOMAIN orders /\ matches'[k].maker # taker
    <3>1. k \in DOMAIN matches \/ k = Len(matches) + 1
      BY <2>2, <2>3, <2>4
    <3>2. CASE k \in DOMAIN matches
      BY <2>1, <2>2, <2>3, <3>2 DEF MakersKnown
    <3>3. CASE k = Len(matches) + 1
      BY <2>1, <2>2, <2>3, <3>3
    <3> QED BY <3>1, <3>2, <3>3
  <2> QED BY <2>1, <2>4 DEF MakersKnown
<1>5. ASSUME NEW m \in resting, MatchThrows(m)
      PROVE  MakersKnown'
  BY <1>5, MakersKnownThrow DEF MatchThrows, Leave
<1>6. CASE MatchEnd
  <2>1. DOMAIN orders' = DOMAIN orders
    BY <1>6 DEF MatchEnd
  <2> QED BY <1>6, <2>1 DEF MatchEnd, MakersKnown, callVars
<1>7. CASE PlaceOrder
  BY <1>7 DEF PlaceOrder, MakersKnown, callVars
<1>8. CASE PlaceThrows
  BY <1>8, MakersKnownThrow DEF PlaceThrows, Leave, ClearMatches
<1>9. CASE PlaceAborts \/ CommitAborts
  BY <1>9 DEF PlaceAborts, CommitAborts, Abort, MakersKnown, bookVars, callVars
<1>10. CASE WriteJournal
  BY <1>10 DEF WriteJournal, MakersKnown, bookVars, callVars
<1>11. CASE JournalThrows
  BY <1>11, MakersKnownThrow DEF JournalThrows, Leave, ClearMatches
<1>12. CASE PrepareResponse
  BY <1>12 DEF PrepareResponse, MakersKnown, bookVars
<1>13. CASE ResponseThrows
  BY <1>13, MakersKnownThrow DEF ResponseThrows, Leave, ClearMatches
<1>14. CASE CommitMatch
  <2>1. DOMAIN orders' = DOMAIN orders /\ phase = "commit" /\ next' = next + 1
        /\ UNCHANGED <<matches, phase>>
    BY <1>14 DEF CommitMatch
  <2> QED BY <2>1 DEF MakersKnown, TypeOK
<1>15. CASE Return
  BY <1>15 DEF Return, Leave, ClearMatches, MakersKnown
<1>16. CASE UNCHANGED vars
  BY <1>16 DEF vars, bookVars, callVars, MakersKnown
<1> QED BY <1>1, <1>2, <1>3, <1>4, <1>5, <1>6, <1>7, <1>8, <1>9, <1>10, <1>11, <1>12,
           <1>13, <1>14, <1>15, <1>16 DEF Next, Request, Step, Match

LEMMA TypeNext == TypeInv /\ MakersKnown /\ [Next]_vars => TypeInv'
<1>1. TypeInv /\ UNCHANGED vars => TypeInv'
  BY DEF vars, bookVars, sessVars, callVars, loopVars, TypeInv, TypeOK, TakerFresh
<1> QED BY <1>1, TypeRequest, TypeMatch, TypePlace, TypeJournal, TypeRespond, TypeCommit
        DEF Next, Step

\* Whatever the traders send and wherever a call fails, every variable keeps its
\* type: no session and no match refers to an order that has been freed
\* (Serv::createOrder, with the reference counts of Order.hpp).
THEOREM TypeCorrect == Spec => []TypeOK
<1>1. Init => TypeInv /\ MakersKnown
  BY InitTypeInv DEF Init, MakersKnown
<1>2. TypeInv /\ MakersKnown /\ [Next]_vars => (TypeInv /\ MakersKnown)'
  BY TypeNext, MakersKnownNext
<1>3. TypeInv => TypeOK
  BY DEF TypeInv
<1> QED BY <1>1, <1>2, <1>3, PTL DEF Spec

----------------------------------------------------------------------------
(* Each trade has its other side.                                          *)

\* Two executions that are the sides of one trade.
TwoSides(e, f) ==
  /\ f.id = e.matchId /\ f.matchId = e.id
  /\ f.role # e.role /\ f.role # "None" /\ e.role # "None"
  /\ f.side = Opposite(e.side) /\ e.side = Opposite(f.side)
  /\ f.cpty = e.trader /\ e.cpty = f.trader
  /\ f.lastLots = e.lastLots /\ f.lastTicks = e.lastTicks

MatchesPaired ==
  \A k \in DOMAIN matches : TwoSides(matches[k].makerTrade, matches[k].takerTrade)

CreatedPlain == phase \in Calling => created.role = "None"

PairInv == MatchesPaired /\ CreatedPlain /\ TradesPaired

\* Maker and taker of a new match are on opposite sides (newMatch).
LEMMA NewMatchSides ==
  ASSUME TypeInv, phase = "match", NEW m \in resting, Crosses(m), NEW lots,
         NEW lotsSoFar, NEW costSoFar, NEW match,
         match = NewMatch(m, lots, lotsSoFar, costSoFar)
  PROVE  TwoSides(match.makerTrade, match.takerTrade)
<1>1. /\ orders[m].side \in Sides /\ orders[taker].side \in Sides
      /\ orders[m].side = Opposite(orders[taker].side)
  BY DEF Crosses, IsNext, Unwalked, TypeInv, TypeOK, OrderRec
<1>2. orders[taker].side = Opposite(orders[m].side)
  BY <1>1 DEF Opposite
<1> QED BY <1>1, <1>2 DEF TwoSides, NewMatch, ExecTrade, NewExec

\* The batch keeps every trade of the journal and pairs its own (createOrder).
LEMMA WritePairs == TypeInv /\ PairInv /\ WriteJournal => TradesPaired'
<1> SUFFICES ASSUME TypeInv, PairInv, WriteJournal
             PROVE  TradesPaired'
  OBVIOUS
<1> DEFINE n == Len(matches)
<1>1. /\ phase = "journal" /\ journal' = journal \o Batch
      /\ journal \in Seq(ExecRec) /\ Batch \in Seq(ExecRec) /\ n \in Nat
      /\ Len(Batch) = 1 + 2 * n /\ DOMAIN matches = 1 .. n
  <2>1. phase = "journal" /\ journal' = journal \o Batch
    BY DEF WriteJournal
  <2>2. journal \in Seq(ExecRec) /\ n \in Nat /\ DOMAIN matches = 1 .. n
    BY DEF TypeInv, TypeOK
  <2>3. Batch \in Seq(ExecRec)
    BY <2>1, BatchType
  <2>4. DOMAIN Batch = 1 .. 1 + 2 * n
    BY DEF Batch
  <2> QED BY <2>1, <2>2, <2>3, <2>4
<1>2. ToSet(journal') = ToSet(journal) \cup ToSet(Batch)
  <2>1. ASSUME NEW s \in Seq(ExecRec), NEW t \in Seq(ExecRec)
        PROVE  ToSet(s \o t) = ToSet(s) \cup ToSet(t)
    <3>1. ToSet(s \o t) \subseteq ToSet(s) \cup ToSet(t)
      BY DEF ToSet
    <3>2. ToSet(s) \subseteq ToSet(s \o t)
      BY DEF ToSet
    <3>3. ASSUME NEW i \in DOMAIN t
          PROVE  t[i] \in ToSet(s \o t)
      <4>1. Len(s) + i \in DOMAIN (s \o t) /\ (s \o t)[Len(s) + i] = t[i]
        OBVIOUS
      <4> QED BY <4>1 DEF ToSet
    <3> QED BY <3>1, <3>2, <3>3 DEF ToSet
  <2> QED BY <1>1, <2>1
<1>3. ASSUME NEW e \in ToSet(Batch), e.role # "None"
      PROVE  \E f \in ToSet(Batch) : TwoSides(e, f)
  <2>1. PICK i \in 1 .. 1 + 2 * n : e = Batch[i]
    BY <1>1 DEF ToSet, Batch
  <2>2. i # 1
    BY <1>1, <1>3, <2>1 DEF Batch, PairInv, CreatedPlain
  <2> DEFINE k == i \div 2
  <2>3. k \in 1 .. n /\ (i = 2 * k \/ i = 2 * k + 1)
    BY <1>1, <2>1, <2>2, HalfIndex
  <2>4. /\ Batch[2 * k] = matches[k].makerTrade
        /\ Batch[2 * k + 1] = matches[k].takerTrade
        /\ 2 * k \in DOMAIN Batch /\ 2 * k + 1 \in DOMAIN Batch
    <3> HIDE DEF k, n
    <3>1. /\ 2 * k \in 1 .. 1 + 2 * n /\ 2 * k # 1 /\ (2 * k) % 2 = 0
          /\ (2 * k) \div 2 = k
      BY <1>1, <2>3
    <3>2. /\ 2 * k + 1 \in 1 .. 1 + 2 * n /\ 2 * k + 1 # 1 /\ (2 * k + 1) % 2 # 0
          /\ (2 * k + 1) \div 2 = k
      BY <1>1, <2>3
    <3> QED BY <3>1, <3>2 DEF Batch, n
  <2>5. TwoSides(matches[k].makerTrade, matches[k].takerTrade)
    BY <1>1, <2>3 DEF PairInv, MatchesPaired
  <2>6. TwoSides(matches[k].takerTrade, matches[k].makerTrade)
    BY <2>5 DEF TwoSides
  <2> QED BY <2>1, <2>3, <2>4, <2>5, <2>6 DEF ToSet
<1>4. ASSUME NEW e \in ToSet(journal), e.role # "None"
      PROVE  \E f \in ToSet(journal) : TwoSides(e, f)
  <2>1. PICK f \in ToSet(journal) :
          /\ f.id = e.matchId /\ f.matchId = e.id
          /\ f.role # e.role /\ f.role # "None" /\ f.side = Opposite(e.side)
          /\ f.cpty = e.trader /\ e.cpty = f.trader
          /\ f.lastLots = e.lastLots /\ f.lastTicks = e.lastTicks
    BY <1>4 DEF PairInv, TradesPaired
  <2>2. e.side \in Sides
    <3>1. e \in ExecRec
      BY <1>1 DEF ToSet
    <3> QED BY <3>1 DEF ExecRec
  <2> QED BY <1>4, <2>1, <2>2 DEF TwoSides, Opposite
<1>5. ASSUME NEW e \in ToSet(journal'), e.role # "None"
      PROVE  \E f \in ToSet(journal') : TwoSides(e, f)
  BY <1>2, <1>3, <1>4, <1>5
<1> QED BY <1>5 DEF TradesPaired, TwoSides

\* What a step that leaves the journal alone must keep.
LEMMA PairFrame ==
  ASSUME PairInv, UNCHANGED journal, matches' \in {matches, << >>},
         phase' \in Calling => phase \in Calling /\ created' = created
  PROVE  PairInv'
<1>1. MatchesPaired'
  BY DEF PairInv, MatchesPaired
<1>2. CreatedPlain'
  BY DEF PairInv, CreatedPlain
<1>3. TradesPaired'
  BY DEF PairInv, TradesPaired
<1> QED BY <1>1, <1>2, <1>3 DEF PairInv

LEMMA PairNext == TypeInv /\ PairInv /\ [Next]_vars => PairInv'
<1> SUFFICES ASSUME TypeInv, PairInv, [Next]_vars
             PROVE  PairInv'
  OBVIOUS
<1>1. ASSUME NEW day \in Days, NEW lots \in Lots, NEW minLots \in MinLots,
             Reject(day, lots, minLots)
      PROVE  PairInv'
  BY <1>1, PairFrame DEF Reject
<1>2. ASSUME NEW day \in Days, NEW lots \in Lots, NEW minLots \in MinLots,
             CreateThrows(day, lots, minLots)
      PROVE  PairInv'
  BY <1>2, PairFrame DEF CreateThrows, Leave
<1>3. ASSUME NEW day \in Days, NEW lots \in Lots, NEW minLots \in MinLots,
             NEW trader \in Traders, NEW side \in Sides, NEW ticks \in Ticks,
             CreateOrder(day, trader, side, ticks, lots, minLots)
      PROVE  PairInv'
  <2>1. UNCHANGED <<journal, matches>> /\ created'.role = "None"
    BY <1>3 DEF CreateOrder, NewExec
  <2> QED BY <2>1 DEF PairInv, MatchesPaired, CreatedPlain, TradesPaired
<1>4. ASSUME NEW m \in resting, MatchMaker(m)
      PROVE  PairInv'
  <2>1. /\ phase = "match" /\ Crosses(m)
        /\ UNCHANGED <<journal, phase, created>>
        /\ matches' = Append(matches, NewMatch(m, Available(m), sumLots', sumCost'))
    BY <1>4 DEF MatchMaker
  <2>2. PICK match : /\ match = NewMatch(m, Available(m), sumLots', sumCost')
                     /\ matches' = Append(matches, match)
    BY <2>1
  <2>3. TwoSides(match.makerTrade, match.takerTrade)
    BY <2>1, <2>2, NewMatchSides
  <2>4. matches \in Seq(MatchRec)
    BY DEF TypeInv, TypeOK
  <2>5. ASSUME NEW k \in DOMAIN matches'
        PROVE  TwoSides(matches'[k].makerTrade, matches'[k].takerTrade)
    <3>1. CASE k \in DOMAIN matches
      BY <2>2, <2>4, <3>1 DEF PairInv, MatchesPaired
    <3>2. CASE k = Len(matches) + 1
      BY <2>2, <2>3, <2>4, <3>2
    <3> QED BY <2>2, <2>4, <3>1, <3>2
  <2>6. MatchesPaired'
    BY <2>5 DEF MatchesPaired
  <2>7. CreatedPlain' /\ TradesPaired'
    BY <2>1 DEF PairInv, CreatedPlain, TradesPaired
  <2> QED BY <2>6, <2>7 DEF PairInv
<1>5. ASSUME NEW m \in resting, MatchThrows(m)
      PROVE  PairInv'
  BY <1>5, PairFrame DEF MatchThrows, Leave
<1>6. CASE MatchEnd
  BY <1>6, PairFrame DEF MatchEnd, callVars
<1>7. CASE PlaceOrder
  BY <1>7, PairFrame DEF PlaceOrder, callVars
<1>8. CASE PlaceThrows
  BY <1>8, PairFrame DEF PlaceThrows, Leave, ClearMatches
<1>9. CASE PlaceAborts \/ CommitAborts
  BY <1>9, PairFrame DEF PlaceAborts, CommitAborts, Abort
<1>10. CASE WriteJournal
  <2>1. UNCHANGED <<matches, created>> /\ phase = "journal"
    BY <1>10 DEF WriteJournal, callVars
  <2> QED BY <1>10, <2>1, WritePairs DEF PairInv, MatchesPaired, CreatedPlain
<1>11. CASE JournalThrows
  BY <1>11, PairFrame DEF JournalThrows, Leave, ClearMatches
<1>12. CASE PrepareResponse
  BY <1>12, PairFrame DEF PrepareResponse
<1>13. CASE ResponseThrows
  BY <1>13, PairFrame DEF ResponseThrows, Leave, ClearMatches
<1>14. CASE CommitMatch
  BY <1>14, PairFrame DEF CommitMatch
<1>15. CASE Return
  BY <1>15, PairFrame DEF Return, Leave, ClearMatches
<1>16. CASE UNCHANGED vars
  BY <1>16, PairFrame DEF vars, callVars
<1> QED BY <1>1, <1>2, <1>3, <1>4, <1>5, <1>6, <1>7, <1>8, <1>9, <1>10, <1>11, <1>12,
           <1>13, <1>14, <1>15, <1>16 DEF Next, Request, Step, Match

\* However calls fail, and also when matches that a failed call left behind are
\* journalled by another, every trade in the journal has its other side there
\* (newMatch, Serv::createOrder).
THEOREM TradesArePaired == Spec => []TradesPaired
<1>1. Init => TypeInv /\ MakersKnown /\ PairInv
  BY InitTypeInv
    DEF Init, MakersKnown, PairInv, MatchesPaired, CreatedPlain, TradesPaired, ToSet
<1>2. TypeInv /\ MakersKnown /\ PairInv /\ [Next]_vars => (TypeInv /\ MakersKnown /\ PairInv)'
  BY TypeNext, MakersKnownNext, PairNext
<1>3. PairInv => TradesPaired
  BY DEF PairInv
<1> QED BY <1>1, <1>2, <1>3, PTL DEF Spec

----------------------------------------------------------------------------
(* Ids are written once, and before a session shows them.                  *)

\* The executions of the running call, or of one that failed while matching,
\* have not been written yet.
Unwritten == phase \in {"idle", "match", "place", "journal"}

JournalIds ==
  /\ \A i \in DOMAIN journal : journal[i].id <= maxExecId
  /\ \A i, j \in DOMAIN journal : i # j => journal[i].id # journal[j].id

\* Ids of matches grow from match to match, and so does newMatch allocate them.
MatchIds ==
  /\ \A k \in DOMAIN matches :
       /\ matches[k].takerTrade.id = matches[k].makerTrade.id + 1
       /\ matches[k].takerTrade.id <= maxExecId
  /\ \A k, l \in DOMAIN matches :
       k < l => matches[k].takerTrade.id < matches[l].makerTrade.id

NewId(id) == \A i \in DOMAIN journal : journal[i].id # id

DraftIds ==
  /\ Unwritten =>
       \A k \in DOMAIN matches :
         NewId(matches[k].makerTrade.id) /\ NewId(matches[k].takerTrade.id)
  /\ phase \in {"match", "place", "journal"} =>
       /\ created.id <= maxExecId /\ NewId(created.id)
       /\ \A k \in DOMAIN matches :
            /\ matches[k].makerTrade.id # created.id
            /\ matches[k].takerTrade.id # created.id

WrittenMatches ==
  phase \in {"respond", "commit"} =>
    \A k \in DOMAIN matches :
      matches[k].makerTrade \in ToSet(journal) /\ matches[k].takerTrade \in ToSet(journal)

WrittenTrades == \A t \in Traders : sessTrades[t] \subseteq ToSet(journal)

IdInv == JournalIds /\ MatchIds /\ DraftIds /\ WrittenMatches /\ WrittenTrades

\* Ids are natural numbers.
LEMMA IdTypes ==
  ASSUME TypeInv
  PROVE  /\ maxExecId \in Nat
         /\ \A i \in DOMAIN journal : journal[i].id \in Nat
         /\ phase \in Calling => created.id \in Nat
         /\ \A k \in DOMAIN matches : /\ matches[k].makerTrade.id \in Nat
                                      /\ matches[k].takerTrade.id \in Nat
<1>1. ASSUME NEW i \in DOMAIN journal
      PROVE  journal[i].id \in Nat
  <2>1. journal[i] \in ExecRec
    BY DEF TypeInv, TypeOK
  <2> QED BY <2>1 DEF ExecRec
<1>2. ASSUME NEW k \in DOMAIN matches
      PROVE  matches[k].makerTrade.id \in Nat /\ matches[k].takerTrade.id \in Nat
  <2>1. matches[k] \in MatchRec
    BY DEF TypeInv, TypeOK
  <2> QED BY <2>1 DEF MatchRec, ExecRec
<1>3. maxExecId \in Nat /\ (phase \in Calling => created.id \in Nat)
  BY DEF TypeInv, TypeOK, ExecRec
<1> QED BY <1>1, <1>2, <1>3

\* What a step that neither writes nor commits must keep.
LEMMA IdFrame ==
  ASSUME TypeInv, IdInv, UNCHANGED <<journal, sessTrades>>,
         matches' \in {matches, << >>}, maxExecId' \in Nat, maxExecId' >= maxExecId,
         Unwritten' => Unwritten \/ matches' = << >>,
         phase' \in {"match", "place", "journal"} =>
           phase \in {"match", "place", "journal"} /\ created' = created,
         phase' \in {"respond", "commit"} => phase \in {"respond", "commit"}
  PROVE  IdInv'
<1>1. /\ maxExecId \in Nat
      /\ \A i \in DOMAIN journal : journal[i].id \in Nat
      /\ phase \in Calling => created.id \in Nat
      /\ \A k \in DOMAIN matches : /\ matches[k].makerTrade.id \in Nat
                                   /\ matches[k].takerTrade.id \in Nat
  BY IdTypes
<1>2. JournalIds'
  BY <1>1 DEF IdInv, JournalIds
<1>3. DraftIds'
  <2>1. CASE matches' = matches
    BY <1>1, <2>1 DEF IdInv, DraftIds, MatchIds, NewId, Unwritten
  <2>2. CASE matches' = << >>
    BY <1>1, <2>2 DEF IdInv, DraftIds, MatchIds, NewId
  <2> QED BY <2>1, <2>2
<1>4. WrittenMatches'
  BY DEF IdInv, WrittenMatches
<1>5. WrittenTrades'
  BY DEF IdInv, WrittenTrades
<1>6. MatchIds'
  BY <1>1 DEF IdInv, MatchIds
<1> QED BY <1>2, <1>3, <1>4, <1>5, <1>6 DEF IdInv

LEMMA IdCreate ==
  ASSUME TypeInv, IdInv, NEW day, NEW trader, NEW side, NEW ticks, NEW lots, NEW minLots,
         CreateOrder(day, trader, side, ticks, lots, minLots)
  PROVE  IdInv'
<1>1. /\ phase = "idle" /\ phase' = "match" /\ maxExecId' = maxExecId + 1
      /\ created'.id = maxExecId + 1 /\ UNCHANGED <<journal, matches, sessTrades>>
  BY DEF CreateOrder, Accept, NewExec, sessVars
<1>2. JournalIds'
  BY <1>1, IdTypes DEF IdInv, JournalIds
<1>3. DraftIds'
  BY <1>1, IdTypes DEF IdInv, JournalIds, DraftIds, MatchIds, NewId, Unwritten
<1>4. WrittenMatches' /\ WrittenTrades'
  BY <1>1 DEF IdInv, WrittenMatches, WrittenTrades
<1>5. MatchIds'
  BY <1>1, IdTypes DEF IdInv, MatchIds
<1> QED BY <1>2, <1>3, <1>4, <1>5 DEF IdInv

LEMMA IdMatch ==
  ASSUME TypeInv, IdInv, NEW m \in resting, MatchMaker(m)
  PROVE  IdInv'
<1>1. /\ phase = "match" /\ maxExecId' = maxExecId + 2
      /\ UNCHANGED <<journal, sessTrades, phase, created>>
      /\ matches' = Append(matches, NewMatch(m, Available(m), sumLots', sumCost'))
  BY DEF MatchMaker
<1>2. PICK match : /\ match.makerTrade.id = maxExecId + 1
                   /\ match.takerTrade.id = maxExecId + 2
                   /\ matches' = Append(matches, match)
  BY <1>1 DEF NewMatch, ExecTrade, NewExec
<1>3. matches \in Seq(MatchRec)
  BY DEF TypeInv, TypeOK
<1> DEFINE n == Len(matches)
<1>4. /\ n \in Nat /\ DOMAIN matches = 1 .. n /\ DOMAIN matches' = 1 .. n + 1
      /\ \A k \in 1 .. n : matches'[k] = matches[k]
      /\ matches'[n + 1] = match
  BY <1>2, <1>3
<1> HIDE DEF n
<1>5. JournalIds'
  BY <1>1, IdTypes DEF IdInv, JournalIds
<1>6. /\ MatchIds
      /\ created.id <= maxExecId /\ NewId(created.id)
      /\ \A k \in DOMAIN matches :
           /\ NewId(matches[k].makerTrade.id) /\ NewId(matches[k].takerTrade.id)
           /\ matches[k].makerTrade.id # created.id
           /\ matches[k].takerTrade.id # created.id
  BY <1>1 DEF IdInv, DraftIds, Unwritten
<1>7. MatchIds'
  <2>1. ASSUME NEW k \in DOMAIN matches'
        PROVE  /\ matches'[k].takerTrade.id = matches'[k].makerTrade.id + 1
               /\ matches'[k].takerTrade.id <= maxExecId'
    <3>1. CASE k \in 1 .. n
      BY <1>1, <1>4, <1>6, <3>1, IdTypes DEF MatchIds
    <3>2. CASE k = n + 1
      BY <1>1, <1>2, <1>4, <3>2, IdTypes
    <3> QED BY <1>4, <3>1, <3>2
  <2>2. ASSUME NEW k \in DOMAIN matches', NEW l \in DOMAIN matches', k < l
        PROVE  matches'[k].takerTrade.id < matches'[l].makerTrade.id
    <3>1. CASE l \in 1 .. n
      BY <1>4, <1>6, <2>2, <3>1 DEF MatchIds
    <3>2. CASE l = n + 1
      BY <1>2, <1>4, <1>6, <2>2, <3>2, IdTypes DEF MatchIds
    <3> QED BY <1>4, <3>1, <3>2
  <2> QED BY <2>1, <2>2 DEF MatchIds
<1>8. NewId(maxExecId + 1) /\ NewId(maxExecId + 2) /\ maxExecId \in Nat
      /\ created.id # maxExecId + 1 /\ created.id # maxExecId + 2
  <2>1. /\ maxExecId \in Nat /\ created.id \in Nat /\ created.id <= maxExecId
        /\ \A i \in DOMAIN journal : journal[i].id \in Nat /\ journal[i].id <= maxExecId
    BY <1>1, <1>6, IdTypes DEF IdInv, JournalIds, Calling
  <2> QED BY <2>1 DEF NewId
<1>9. ASSUME NEW k \in DOMAIN matches'
      PROVE  /\ NewId(matches'[k].makerTrade.id) /\ NewId(matches'[k].takerTrade.id)
             /\ matches'[k].makerTrade.id # created.id
             /\ matches'[k].takerTrade.id # created.id
  <2>1. CASE k \in 1 .. n
    BY <1>4, <1>6, <2>1
  <2>2. CASE k = n + 1
    BY <1>2, <1>4, <1>8, <2>2
  <2> QED BY <1>4, <2>1, <2>2
<1>10. DraftIds'
  <2>1. \A k \in DOMAIN matches' :
          /\ \A i \in DOMAIN journal' : /\ journal'[i].id # matches'[k].makerTrade.id
                                        /\ journal'[i].id # matches'[k].takerTrade.id
          /\ matches'[k].makerTrade.id # created'.id
          /\ matches'[k].takerTrade.id # created'.id
    BY <1>1, <1>9 DEF NewId
  <2>2. created'.id <= maxExecId' /\ (\A i \in DOMAIN journal' : journal'[i].id # created'.id)
    BY <1>1, <1>6, <1>8, IdTypes DEF NewId, Calling
  <2> QED BY <1>7, <2>1, <2>2 DEF DraftIds, NewId
<1>11. WrittenMatches' /\ WrittenTrades'
  BY <1>1 DEF IdInv, WrittenMatches, WrittenTrades
<1> QED BY <1>5, <1>7, <1>10, <1>11 DEF IdInv

\* The batch in terms of the matches.
LEMMA BatchParts ==
  ASSUME TypeInv, phase \in Calling
  PROVE  /\ Len(matches) \in Nat /\ DOMAIN matches = 1 .. Len(matches)
         /\ Batch \in Seq(ExecRec) /\ Len(Batch) = 1 + 2 * Len(matches)
         /\ Batch[1] = created
         /\ \A k \in DOMAIN matches : /\ Batch[2 * k] = matches[k].makerTrade
                                      /\ Batch[2 * k + 1] = matches[k].takerTrade
         /\ \A i \in 2 .. Len(Batch) :
              \E k \in DOMAIN matches : i = 2 * k \/ i = 2 * k + 1
<1> DEFINE n == Len(matches)
<1>1. n \in Nat /\ DOMAIN matches = 1 .. n
  BY DEF TypeInv, TypeOK
<1>2. DOMAIN Batch = 1 .. 1 + 2 * n
  BY DEF Batch
<1>3. Batch \in Seq(ExecRec) /\ Len(Batch) = 1 + 2 * n
  BY <1>1, <1>2, BatchType
<1>4. Batch[1] = created
  BY <1>1 DEF Batch
<1>5. ASSUME NEW k \in 1 .. n
      PROVE  Batch[2 * k] = matches[k].makerTrade /\ Batch[2 * k + 1] = matches[k].takerTrade
  <2> HIDE DEF n
  <2>1. 2 * k \in 1 .. 1 + 2 * n /\ 2 * k # 1 /\ (2 * k) % 2 = 0 /\ (2 * k) \div 2 = k
    BY <1>1, <1>5
  <2>2. /\ 2 * k + 1 \in 1 .. 1 + 2 * n /\ 2 * k + 1 # 1
        /\ (2 * k + 1) % 2 # 0 /\ (2 * k + 1) \div 2 = k
    BY <1>1, <1>5
  <2> QED BY <2>1, <2>2 DEF Batch, n
<1>6. ASSUME NEW i \in 2 .. 1 + 2 * n
      PROVE  \E k \in 1 .. n : i = 2 * k \/ i = 2 * k + 1
  <2>1. i \div 2 \in 1 .. n /\ (i = 2 * (i \div 2) \/ i = 2 * (i \div 2) + 1)
    BY <1>1, <1>6, HalfIndex
  <2> QED BY <2>1
<1> HIDE DEF n
<1> QED BY <1>1, <1>3, <1>4, <1>5, <1>6 DEF n

\* Nothing of a batch has been written, and nothing twice.
LEMMA BatchIds ==
  ASSUME TypeInv, IdInv, phase = "journal"
  PROVE  /\ \A i \in DOMAIN Batch : Batch[i].id <= maxExecId /\ NewId(Batch[i].id)
         /\ \A i, j \in DOMAIN Batch : i # j => Batch[i].id # Batch[j].id
<1>1. DOMAIN Batch = 1 .. Len(Batch) /\ Len(Batch) \in Nat
  BY BatchParts
<1>2. /\ MatchIds
      /\ \A k \in DOMAIN matches :
           /\ NewId(matches[k].makerTrade.id) /\ NewId(matches[k].takerTrade.id)
           /\ matches[k].makerTrade.id # created.id
           /\ matches[k].takerTrade.id # created.id
      /\ created.id <= maxExecId /\ NewId(created.id)
  BY DEF IdInv, DraftIds, Unwritten
<1>3. /\ created.id \in Nat /\ maxExecId \in Nat
      /\ \A k \in DOMAIN matches : /\ k \in Nat
                                   /\ matches[k].makerTrade.id \in Nat
                                   /\ matches[k].takerTrade.id \in Nat
                                   /\ Batch[2 * k] = matches[k].makerTrade
                                   /\ Batch[2 * k + 1] = matches[k].takerTrade
  BY BatchParts, IdTypes DEF Calling
<1>4. \A k \in DOMAIN matches :
        /\ matches[k].takerTrade.id = matches[k].makerTrade.id + 1
        /\ matches[k].makerTrade.id <= maxExecId /\ matches[k].takerTrade.id <= maxExecId
  BY <1>2, <1>3 DEF MatchIds
<1>5. \A k, l \in DOMAIN matches :
        k < l => matches[k].takerTrade.id < matches[l].makerTrade.id
  BY <1>2 DEF MatchIds
<1>6. ASSUME NEW i \in DOMAIN Batch
      PROVE  \/ i = 1 /\ Batch[i] = created
             \/ \E k \in DOMAIN matches : \/ i = 2 * k /\ Batch[i] = matches[k].makerTrade
                                          \/ i = 2 * k + 1 /\ Batch[i] = matches[k].takerTrade
  <2>1. Batch[1] = created /\ (i = 1 \/ i \in 2 .. Len(Batch))
    BY <1>1, BatchParts DEF Calling
  <2>2. CASE i = 1
    BY <2>1, <2>2
  <2>3. CASE i \in 2 .. Len(Batch)
    <3>1. PICK k \in DOMAIN matches : i = 2 * k \/ i = 2 * k + 1
      BY <2>3, BatchParts DEF Calling
    <3>2. Batch[2 * k] = matches[k].makerTrade /\ Batch[2 * k + 1] = matches[k].takerTrade
      BY <1>3
    <3> HIDE DEF Batch
    <3>3. CASE i = 2 * k
      BY <3>2, <3>3
    <3>4. CASE i = 2 * k + 1
      BY <3>2, <3>4
    <3> QED BY <3>1, <3>3, <3>4
  <2> QED BY <2>1, <2>2, <2>3
<1>7. ASSUME NEW i \in DOMAIN Batch
      PROVE  Batch[i].id <= maxExecId /\ NewId(Batch[i].id)
  BY <1>2, <1>4, <1>6
<1>8. ASSUME NEW i \in DOMAIN Batch, NEW j \in DOMAIN Batch, i < j
      PROVE  Batch[i].id # Batch[j].id
  <2>1. PICK l \in DOMAIN matches : \/ j = 2 * l /\ Batch[j] = matches[l].makerTrade
                                    \/ j = 2 * l + 1 /\ Batch[j] = matches[l].takerTrade
    BY <1>1, <1>6, <1>8
  <2>2. CASE i = 1 /\ Batch[i] = created
    BY <1>2, <2>1, <2>2
  <2>3. ASSUME NEW k \in DOMAIN matches,
               \/ i = 2 * k /\ Batch[i] = matches[k].makerTrade
               \/ i = 2 * k + 1 /\ Batch[i] = matches[k].takerTrade
        PROVE  Batch[i].id # Batch[j].id
    <3>1. k < l \/ (k = l /\ i = 2 * k /\ j = 2 * l + 1)
      BY <1>3, <1>8, <2>1, <2>3
    <3>2. CASE k < l
      <4>1. matches[k].takerTrade.id < matches[l].makerTrade.id
        BY <1>5, <3>2
      <4> QED BY <1>3, <1>4, <2>1, <2>3, <4>1
    <3>3. CASE k = l /\ i = 2 * k /\ j = 2 * l + 1
      BY <1>3, <1>4, <3>3
    <3> QED BY <3>1, <3>2, <3>3
  <2> QED BY <1>6, <2>2, <2>3
<1> QED
  <2>1. \A i, j \in DOMAIN Batch : i # j => i < j \/ j < i
    BY <1>1
  <2> QED BY <1>7, <1>8, <2>1

LEMMA IdWrite ==
  ASSUME TypeInv, IdInv, WriteJournal
  PROVE  IdInv'
<1>1. /\ phase = "journal" /\ phase' = "respond" /\ journal' = journal \o Batch
      /\ UNCHANGED <<matches, sessTrades, maxExecId>>
  BY DEF WriteJournal, bookVars, sessVars
<1> DEFINE n == Len(journal)
<1>2. /\ journal \in Seq(ExecRec) /\ Batch \in Seq(ExecRec)
      /\ DOMAIN Batch = 1 .. Len(Batch) /\ Len(Batch) \in Nat
      /\ n \in Nat /\ DOMAIN journal = 1 .. n /\ DOMAIN journal' = 1 .. n + Len(Batch)
      /\ \A i \in DOMAIN journal : journal'[i] = journal[i]
      /\ \A i \in DOMAIN Batch : journal'[n + i] = Batch[i]
  <2>1. journal \in Seq(ExecRec) BY DEF TypeInv, TypeOK
  <2>2. Batch \in Seq(ExecRec) BY <1>1, BatchParts DEF Calling
  <2> QED BY <1>1, <2>1, <2>2, SMTT(30)
<1>3. ASSUME NEW i \in DOMAIN journal', i \notin DOMAIN journal
      PROVE  i - n \in DOMAIN Batch /\ journal'[i] = Batch[i - n]
  <2>1. i - n \in DOMAIN Batch /\ n + (i - n) = i
    BY <1>2, <1>3
  <2> QED BY <1>2, <2>1
<1> HIDE DEF n
<1>4. ASSUME NEW i \in DOMAIN journal'
      PROVE  journal'[i].id <= maxExecId
  BY <1>1, <1>2, <1>3, BatchIds DEF IdInv, JournalIds
<1>5. ASSUME NEW i \in DOMAIN journal', NEW j \in DOMAIN journal', i < j
      PROVE  journal'[i].id # journal'[j].id
  <2>1. CASE j \in DOMAIN journal
    BY <1>2, <1>5, <2>1 DEF IdInv, JournalIds
  <2>2. CASE i \in DOMAIN journal /\ j \notin DOMAIN journal
    BY <1>1, <1>2, <1>3, <2>2, BatchIds DEF NewId
  <2>3. CASE i \notin DOMAIN journal /\ j \notin DOMAIN journal
    <3>1. i - n # j - n
      BY <1>2, <1>5
    <3> QED BY <1>1, <1>3, <2>3, <3>1, BatchIds
  <2>4. j \notin DOMAIN journal \/ i \in DOMAIN journal
    BY <1>2, <1>5
  <2> QED BY <2>1, <2>2, <2>3, <2>4
<1>6. JournalIds'
  <2>1. \A i, j \in DOMAIN journal' : i # j => i < j \/ j < i
    BY <1>2
  <2> QED BY <1>1, <1>4, <1>5, <2>1 DEF JournalIds
<1>7. ToSet(journal) \subseteq ToSet(journal')
  BY <1>2 DEF ToSet
<1>8. ASSUME NEW i \in DOMAIN Batch
      PROVE  Batch[i] \in ToSet(journal')
  <2>1. n + i \in DOMAIN journal'
    BY <1>2
  <2> QED BY <1>2, <2>1 DEF ToSet
<1>9. WrittenMatches'
  <2>1. ASSUME NEW k \in DOMAIN matches
        PROVE  2 * k \in DOMAIN Batch /\ 2 * k + 1 \in DOMAIN Batch
    BY <1>1, <1>2, <2>1, BatchParts
  <2> QED BY <1>1, <1>8, <2>1, BatchParts DEF WrittenMatches
<1>10. WrittenTrades'
  BY <1>1, <1>7 DEF IdInv, WrittenTrades
<1>11. DraftIds'
  BY <1>1 DEF DraftIds, Unwritten
<1>12. MatchIds'
  BY <1>1 DEF IdInv, MatchIds
<1> QED BY <1>6, <1>9, <1>10, <1>11, <1>12 DEF IdInv

LEMMA IdCommit ==
  ASSUME TypeInv, MakersKnown, IdInv, CommitMatch
  PROVE  IdInv'
<1>1. /\ phase = "commit" /\ next \in DOMAIN matches
      /\ sessTrades' = SessionTrades(matches[next])
      /\ UNCHANGED <<journal, matches, maxExecId, phase>>
  BY DEF CommitMatch, TypeInv, TypeOK, MakersKnown
<1>2. JournalIds' /\ MatchIds' /\ DraftIds' /\ WrittenMatches'
  BY <1>1 DEF IdInv, JournalIds, MatchIds, DraftIds, WrittenMatches, Unwritten
<1>3. WrittenTrades'
  BY <1>1 DEF IdInv, WrittenMatches, WrittenTrades, SessionTrades
<1> QED BY <1>2, <1>3 DEF IdInv

LEMMA IdNext == TypeInv /\ MakersKnown /\ IdInv /\ [Next]_vars => IdInv'
<1> SUFFICES ASSUME TypeInv, MakersKnown, IdInv, [Next]_vars
             PROVE  IdInv'
  OBVIOUS
<1> USE IdTypes
<1>1. ASSUME NEW day \in Days, NEW lots \in Lots, NEW minLots \in MinLots,
             Reject(day, lots, minLots)
      PROVE  IdInv'
  BY <1>1, IdFrame DEF Reject, bookVars, sessVars, callVars, Unwritten
<1>2. ASSUME NEW day \in Days, NEW lots \in Lots, NEW minLots \in MinLots,
             CreateThrows(day, lots, minLots)
      PROVE  IdInv'
  BY <1>2, IdFrame DEF CreateThrows, Accept, Leave, sessVars, Unwritten
<1>3. ASSUME NEW day \in Days, NEW lots \in Lots, NEW minLots \in MinLots,
             NEW trader \in Traders, NEW side \in Sides, NEW ticks \in Ticks,
             CreateOrder(day, trader, side, ticks, lots, minLots)
      PROVE  IdInv'
  BY <1>3, IdCreate
<1>4. ASSUME NEW m \in resting, MatchMaker(m)
      PROVE  IdInv'
  BY <1>4, IdMatch
<1>5. ASSUME NEW m \in resting, MatchThrows(m)
      PROVE  IdInv'
  BY <1>5, IdFrame DEF MatchThrows, Leave, Unwritten
<1>6. CASE MatchEnd
  BY <1>6, IdFrame DEF MatchEnd, callVars, sessVars, Unwritten
<1>7. CASE PlaceOrder
  BY <1>7, IdFrame DEF PlaceOrder, callVars, sessVars, Unwritten
<1>8. CASE PlaceThrows
  BY <1>8, IdFrame DEF PlaceThrows, Leave, ClearMatches, sessVars, Unwritten
<1>9. CASE PlaceAborts \/ CommitAborts
  BY <1>9, IdFrame DEF PlaceAborts, CommitAborts, Abort, bookVars, sessVars, Unwritten
<1>10. CASE WriteJournal
  BY <1>10, IdWrite
<1>11. CASE JournalThrows
  BY <1>11, IdFrame DEF JournalThrows, Leave, ClearMatches, sessVars, Unwritten
<1>12. CASE PrepareResponse
  BY <1>12, IdFrame DEF PrepareResponse, bookVars, Unwritten
<1>13. CASE ResponseThrows
  BY <1>13, IdFrame DEF ResponseThrows, Leave, ClearMatches, Unwritten
<1>14. CASE CommitMatch
  BY <1>14, IdCommit
<1>15. CASE Return
  BY <1>15, IdFrame DEF Return, Leave, ClearMatches, bookVars, sessVars, Unwritten
<1>16. CASE UNCHANGED vars
  BY <1>16, IdFrame DEF vars, bookVars, sessVars, callVars, Unwritten
<1> QED BY <1>1, <1>2, <1>3, <1>4, <1>5, <1>6, <1>7, <1>8, <1>9, <1>10, <1>11, <1>12,
           <1>13, <1>14, <1>15, <1>16 DEF Next, Request, Step, Match

LEMMA IdInit == Init => TypeInv /\ MakersKnown /\ IdInv
<1> SUFFICES ASSUME Init PROVE TypeInv /\ MakersKnown /\ IdInv
  OBVIOUS
<1>1. TypeInv /\ MakersKnown
  BY InitTypeInv DEF Init, MakersKnown
<1>2. JournalIds /\ WrittenMatches /\ WrittenTrades
  BY DEF Init, JournalIds, WrittenMatches, WrittenTrades
<1>3. MatchIds /\ DraftIds
  BY DEF Init, DraftIds, MatchIds
<1> QED BY <1>1, <1>2, <1>3 DEF IdInv

\* However calls fail, no execution id is written twice, and a session shows a
\* trade only after the journal has it (createOrder writes before it commits).
THEOREM JournalIsFirst == Spec => []JournalFirst
<1>1. Init => TypeInv /\ MakersKnown /\ IdInv
  BY IdInit
<1>2. TypeInv /\ MakersKnown /\ IdInv /\ [Next]_vars => (TypeInv /\ MakersKnown /\ IdInv)'
  BY TypeNext, MakersKnownNext, IdNext
<1>3. IdInv => JournalFirst
  BY DEF IdInv, JournalIds, WrittenTrades, JournalFirst, Trades
<1> QED BY <1>1, <1>2, <1>3, PTL DEF Spec

----------------------------------------------------------------------------
(* Positions.                                                              *)

\* The lots and the costs of a set of executions.
LotsOf(S) == SumOver(S, LAMBDA e : e.lastLots)

CostsOf(S) == SumOver(S, LAMBDA e : e.lastLots * e.lastTicks)

\* The two values that are summed, as functions.
LotsIn == [e \in ExecRec |-> e.lastLots]

CostsIn == [e \in ExecRec |-> e.lastLots * e.lastTicks]

\* Both folds are sums.
LEMMA LotsAreSums ==
  ASSUME NEW S \in SUBSET ExecRec, IsFiniteSet(S)
  PROVE  \E f : SetSums(f, LotsIn, S) /\ LotsOf(S) = f[S]
<1> DEFINE Folds(f) == f = [T \in SUBSET S |->
             IF T = {} THEN 0
             ELSE (CHOOSE x \in T : TRUE).lastLots + f[T \ {CHOOSE x \in T : TRUE}]]
<1>1. \A x \in S : LotsIn[x] = x.lastLots /\ LotsIn[x] \in Int
  BY DEF LotsIn, ExecRec
<1>2. PICK f : SetSums(f, LotsIn, S)
  BY <1>1, SumExists
<1>3. ASSUME NEW T \in SUBSET S, T # {}
      PROVE  Chosen(T) \in S /\ Chosen(T) = CHOOSE x \in T : TRUE
  BY <1>3 DEF Chosen
<1>4. Folds(f)
  <2>1. f \in [SUBSET S -> Int] /\ IsSum(f, LotsIn, S)
    BY <1>2 DEF SetSums
  <2>2. \A T \in SUBSET S : T # {} =>
          f[T] = (CHOOSE x \in T : TRUE).lastLots + f[T \ {CHOOSE x \in T : TRUE}]
    BY <1>1, <1>3, <2>1 DEF IsSum
  <2>3. f[{}] = 0
    BY <2>1 DEF IsSum
  <2> QED BY <2>1, <2>2, <2>3
<1>5. PICK g : Folds(g) /\ LotsOf(S) = g[S]
  <2>1. Folds(CHOOSE h : Folds(h))
    BY <1>4, Zenon
  <2>2. LotsOf(S) = (CHOOSE h : Folds(h))[S]
    BY Zenon DEF LotsOf, SumOver, MapThenSumSet, MapThenFoldSet
  <2> HIDE DEF Folds
  <2> QED BY <2>1, <2>2
<1>6. IsSum(g, LotsIn, S)
  <2>1. \A T \in SUBSET S : T # {} =>
          g[T] = (CHOOSE x \in T : TRUE).lastLots + g[T \ {CHOOSE x \in T : TRUE}]
    BY <1>5
  <2>2. g[{}] = 0
    BY <1>5
  <2> HIDE DEF Folds
  <2>3. \A T \in SUBSET S : T # {} => g[T] = LotsIn[Chosen(T)] + g[T \ {Chosen(T)}]
    <3> SUFFICES ASSUME NEW T \in SUBSET S, T # {}
                 PROVE  g[T] = LotsIn[Chosen(T)] + g[T \ {Chosen(T)}]
      OBVIOUS
    <3>1. PICK x \in S : x = Chosen(T) /\ x = CHOOSE y \in T : TRUE
      BY <1>3
    <3>2. g[T] = x.lastLots + g[T \ {x}]
      BY <2>1, <3>1
    <3> QED BY <1>1, <3>1, <3>2
  <2> QED BY <2>2, <2>3 DEF IsSum
<1>7. f[S] = g[S]
  BY <1>2, <1>6, SumSame DEF SetSums
<1> QED BY <1>2, <1>5, <1>7

LEMMA CostsAreSums ==
  ASSUME NEW S \in SUBSET ExecRec, IsFiniteSet(S)
  PROVE  \E f : SetSums(f, CostsIn, S) /\ CostsOf(S) = f[S]
<1> DEFINE Folds(f) == f = [T \in SUBSET S |->
             IF T = {} THEN 0
             ELSE (CHOOSE x \in T : TRUE).lastLots * (CHOOSE x \in T : TRUE).lastTicks
                    + f[T \ {CHOOSE x \in T : TRUE}]]
<1>1. \A x \in S : CostsIn[x] = x.lastLots * x.lastTicks /\ CostsIn[x] \in Int
  BY DEF CostsIn, ExecRec
<1>2. PICK f : SetSums(f, CostsIn, S)
  BY <1>1, SumExists
<1>3. ASSUME NEW T \in SUBSET S, T # {}
      PROVE  Chosen(T) \in S /\ Chosen(T) = CHOOSE x \in T : TRUE
  BY <1>3 DEF Chosen
<1>4. Folds(f)
  <2>1. f \in [SUBSET S -> Int] /\ IsSum(f, CostsIn, S)
    BY <1>2 DEF SetSums
  <2>2. \A T \in SUBSET S : T # {} =>
          f[T] = (CHOOSE x \in T : TRUE).lastLots * (CHOOSE x \in T : TRUE).lastTicks
                   + f[T \ {CHOOSE x \in T : TRUE}]
    BY <1>1, <1>3, <2>1 DEF IsSum
  <2>3. f[{}] = 0
    BY <2>1 DEF IsSum
  <2> QED BY <2>1, <2>2, <2>3
<1>5. PICK g : Folds(g) /\ CostsOf(S) = g[S]
  <2>1. Folds(CHOOSE h : Folds(h))
    BY <1>4, Zenon
  <2>2. CostsOf(S) = (CHOOSE h : Folds(h))[S]
    BY Zenon DEF CostsOf, SumOver, MapThenSumSet, MapThenFoldSet
  <2> HIDE DEF Folds
  <2> QED BY <2>1, <2>2
<1>6. IsSum(g, CostsIn, S)
  <2>1. \A T \in SUBSET S : T # {} =>
          g[T] = (CHOOSE x \in T : TRUE).lastLots * (CHOOSE x \in T : TRUE).lastTicks
                   + g[T \ {CHOOSE x \in T : TRUE}]
    BY <1>5
  <2>2. g[{}] = 0
    BY <1>5
  <2> HIDE DEF Folds
  <2>3. \A T \in SUBSET S : T # {} => g[T] = CostsIn[Chosen(T)] + g[T \ {Chosen(T)}]
    <3> SUFFICES ASSUME NEW T \in SUBSET S, T # {}
                 PROVE  g[T] = CostsIn[Chosen(T)] + g[T \ {Chosen(T)}]
      OBVIOUS
    <3>1. PICK x \in S : x = Chosen(T) /\ x = CHOOSE y \in T : TRUE
      BY <1>3
    <3>2. g[T] = x.lastLots * x.lastTicks + g[T \ {x}]
      BY <2>1, <3>1
    <3> QED BY <1>1, <3>1, <3>2
  <2> QED BY <2>2, <2>3 DEF IsSum
<1>7. f[S] = g[S]
  BY <1>2, <1>6, SumSame DEF SetSums
<1> QED BY <1>2, <1>5, <1>7

\* No trade, no lots; a further trade adds its lots and its cost.
LEMMA TradesAdd ==
  ASSUME NEW S \in SUBSET ExecRec, IsFiniteSet(S), NEW e \in ExecRec, e \notin S
  PROVE  /\ LotsOf(S \cup {e}) = e.lastLots + LotsOf(S)
         /\ CostsOf(S \cup {e}) = e.lastLots * e.lastTicks + CostsOf(S)
<1>1. PICK R \in SUBSET ExecRec : R = S \cup {e} /\ IsFiniteSet(R)
  <2>1. IsFiniteSet(S \cup {e})
    BY FS_AddElement
  <2> QED BY <2>1
<1>2. LotsIn[e] = e.lastLots /\ CostsIn[e] = e.lastLots * e.lastTicks
  BY DEF LotsIn, CostsIn
<1>3. LotsOf(R) = e.lastLots + LotsOf(S)
  <2>1. PICK f : SetSums(f, LotsIn, S) /\ LotsOf(S) = f[S]
    BY LotsAreSums
  <2>2. PICK g : SetSums(g, LotsIn, R) /\ LotsOf(R) = g[R]
    BY <1>1, LotsAreSums
  <2>3. g[R] = LotsIn[e] + f[S]
    BY <1>1, <2>1, <2>2, SumAdd
  <2> QED BY <1>2, <2>1, <2>2, <2>3
<1>4. CostsOf(R) = e.lastLots * e.lastTicks + CostsOf(S)
  <2>1. PICK f : SetSums(f, CostsIn, S) /\ CostsOf(S) = f[S]
    BY CostsAreSums
  <2>2. PICK g : SetSums(g, CostsIn, R) /\ CostsOf(R) = g[R]
    BY <1>1, CostsAreSums
  <2>3. g[R] = CostsIn[e] + f[S]
    BY <1>1, <2>1, <2>2, SumAdd
  <2> QED BY <1>2, <2>1, <2>2, <2>3
<1> QED BY <1>1, <1>3, <1>4, Zenon

LEMMA NoTrades == LotsOf({}) = 0 /\ CostsOf({}) = 0
<1>1. PICK S \in SUBSET ExecRec : S = {} /\ IsFiniteSet(S)
  BY FS_EmptySet
<1>2. PICK f : SetSums(f, LotsIn, S) /\ LotsOf(S) = f[S]
  BY <1>1, LotsAreSums
<1>3. PICK g : SetSums(g, CostsIn, S) /\ CostsOf(S) = g[S]
  BY <1>1, CostsAreSums
<1>4. f[S] = 0 /\ g[S] = 0
  BY <1>1, <1>2, <1>3 DEF SetSums, IsSum
<1> QED BY <1>1, <1>2, <1>3, <1>4, Zenon

\* The sums are integers.
LEMMA TradesType ==
  ASSUME NEW S \in SUBSET ExecRec, IsFiniteSet(S)
  PROVE  LotsOf(S) \in Int /\ CostsOf(S) \in Int
<1>1. LotsOf(S) \in Int
  <2>1. PICK f : SetSums(f, LotsIn, S) /\ LotsOf(S) = f[S]
    BY LotsAreSums
  <2> QED BY <2>1 DEF SetSums
<1>2. CostsOf(S) \in Int
  <2>1. PICK f : SetSums(f, CostsIn, S) /\ CostsOf(S) = f[S]
    BY CostsAreSums
  <2> QED BY <2>1 DEF SetSums
<1> QED BY <1>1, <1>2

\* The trades of a set on one side.
On(S, side) == {e \in S : e.side = side}

\* The position that a set of trades makes.
PosnOf(S) ==
  [buyLots  |-> LotsOf(On(S, "Buy")),  buyCost  |-> CostsOf(On(S, "Buy")),
   sellLots |-> LotsOf(On(S, "Sell")), sellCost |-> CostsOf(On(S, "Sell"))]

\* Adding a trade to the position of a set of trades makes that of the set with it
\* (Posn::addTrade).
LEMMA PosnAdd ==
  ASSUME NEW S \in SUBSET ExecRec, IsFiniteSet(S), NEW e \in ExecRec, e \notin S
  PROVE  AddTrade(PosnOf(S), e) = PosnOf(S \cup {e})
<1>1. PICK R : R = S \cup {e}
  OBVIOUS
<1>2. PICK B \in SUBSET ExecRec : B = On(S, "Buy") /\ IsFiniteSet(B) /\ e \notin B
  <2>1. On(S, "Buy") \in SUBSET S
    BY DEF On
  <2> QED BY <2>1, FS_Subset
<1>3. PICK C \in SUBSET ExecRec : C = On(S, "Sell") /\ IsFiniteSet(C) /\ e \notin C
  <2>1. On(S, "Sell") \in SUBSET S
    BY DEF On
  <2> QED BY <2>1, FS_Subset
<1>4. PICK b, c : b = LotsOf(B) /\ c = CostsOf(B)
  OBVIOUS
<1>5. PICK d, h : d = LotsOf(C) /\ h = CostsOf(C)
  OBVIOUS
<1>6. PICK p : p = PosnOf(S) /\ p = [buyLots |-> b, buyCost |-> c, sellLots |-> d, sellCost |-> h]
  BY <1>2, <1>3, <1>4, <1>5, Zenon DEF PosnOf
<1>7. /\ b \in Int /\ c \in Int /\ d \in Int /\ h \in Int
      /\ e.lastLots \in Int /\ e.lastTicks \in Int /\ e.lastLots * e.lastTicks \in Int
  BY <1>2, <1>3, <1>4, <1>5, TradesType DEF ExecRec
<1>8. PICK x : x = e.lastLots * e.lastTicks /\ x = CostOf(e.lastLots, e.lastTicks)
  BY DEF CostOf
<1>9. p \in PosnRec
  BY <1>6, <1>7 DEF PosnRec
<1>10. p.buyLots = b /\ p.buyCost = c /\ p.sellLots = d /\ p.sellCost = h
  BY <1>6
<1>11. CASE e.side = "Buy"
  <2>1. On(R, "Buy") = B \cup {e} /\ On(R, "Sell") = C
    BY <1>1, <1>2, <1>3, <1>11 DEF On
  <2>2. LotsOf(B \cup {e}) = e.lastLots + b /\ CostsOf(B \cup {e}) = x + c
    BY <1>2, <1>4, <1>8, TradesAdd
  <2>3. PosnOf(R) = [buyLots |-> e.lastLots + b, buyCost |-> x + c,
                     sellLots |-> d, sellCost |-> h]
    BY <1>5, <2>1, <2>2, Zenon DEF PosnOf
  <2>4. AddTrade(p, e) =
          [buyLots |-> b + e.lastLots, buyCost |-> c + x,
           sellLots |-> d, sellCost |-> h]
    <3>1. AddTrade(p, e) =
            [buyLots |-> p.buyLots + e.lastLots, buyCost |-> p.buyCost + x,
             sellLots |-> p.sellLots, sellCost |-> p.sellCost]
      BY <1>8, <1>9, <1>11 DEF AddTrade, PosnRec
    <3> QED BY <1>10, <3>1, Zenon
  <2>5. b + e.lastLots = e.lastLots + b /\ c + x = x + c
    BY <1>7, <1>8
  <2> QED BY <1>1, <1>6, <2>3, <2>4, <2>5, Zenon
<1>12. CASE e.side # "Buy"
  <2>0. e.side = "Sell"
    BY <1>12 DEF ExecRec, Sides
  <2>1. On(R, "Buy") = B /\ On(R, "Sell") = C \cup {e}
    BY <1>1, <1>2, <1>3, <2>0 DEF On
  <2>2. LotsOf(C \cup {e}) = e.lastLots + d /\ CostsOf(C \cup {e}) = x + h
    BY <1>3, <1>5, <1>8, TradesAdd
  <2>3. PosnOf(R) = [buyLots |-> b, buyCost |-> c, sellLots |-> e.lastLots + d,
                     sellCost |-> x + h]
    BY <1>4, <2>1, <2>2, Zenon DEF PosnOf
  <2>4. AddTrade(p, e) =
          [buyLots |-> b, buyCost |-> c,
           sellLots |-> d + e.lastLots, sellCost |-> h + x]
    <3>1. AddTrade(p, e) =
            [buyLots |-> p.buyLots, buyCost |-> p.buyCost,
             sellLots |-> p.sellLots + e.lastLots, sellCost |-> p.sellCost + x]
      BY <1>8, <1>9, <1>12 DEF AddTrade, PosnRec
    <3> QED BY <1>10, <3>1, Zenon
  <2>5. d + e.lastLots = e.lastLots + d /\ h + x = x + h
    BY <1>7, <1>8
  <2> QED BY <1>1, <1>6, <2>3, <2>4, <2>5, Zenon
<1> QED BY <1>11, <1>12

\* A match that has not been committed: it may wait, or have been left behind.
Waits(k) == phase # "aborted" /\ (phase = "commit" => k >= next)

\* Its trades are in no session.
MatchesUnsettled ==
  \A k \in DOMAIN matches : Waits(k) =>
    \A t \in Traders : \A e \in sessTrades[t] :
      e.id # matches[k].makerTrade.id /\ e.id # matches[k].takerTrade.id

SessionsFinite == \A t \in Traders : IsFiniteSet(sessTrades[t])

PosnsRight == \A t \in Traders : posns[t] = PosnOf(sessTrades[t])

PosnInv == MatchesUnsettled /\ SessionsFinite /\ PosnsRight

LEMMA PosnFrame ==
  ASSUME PosnInv, UNCHANGED <<sessTrades, posns>>,
         matches' = << >> \/ (matches' = matches /\ \A k \in DOMAIN matches : Waits(k)' => Waits(k))
  PROVE  PosnInv'
<1>1. SessionsFinite' /\ PosnsRight'
  BY DEF PosnInv, SessionsFinite, PosnsRight
<1>2. MatchesUnsettled'
  BY DEF PosnInv, MatchesUnsettled
<1> QED BY <1>1, <1>2 DEF PosnInv

\* Ids of trades in sessions have been allocated before.
LEMMA SettledIds ==
  ASSUME TypeInv, IdInv
  PROVE  \A t \in Traders : \A e \in sessTrades[t] : e \in ExecRec /\ e.id <= maxExecId
<1> SUFFICES ASSUME NEW t \in Traders, NEW e \in sessTrades[t]
             PROVE  e \in ExecRec /\ e.id <= maxExecId
  OBVIOUS
<1>1. e \in ExecRec
  BY DEF TypeInv, TypeOK
<1>2. PICK i \in DOMAIN journal : journal[i] = e
  BY DEF IdInv, WrittenTrades, ToSet
<1> QED BY <1>1, <1>2 DEF IdInv, JournalIds

LEMMA PosnMatch ==
  ASSUME TypeInv, IdInv, PosnInv, NEW m \in resting, MatchMaker(m)
  PROVE  PosnInv'
<1>1. phase = "match" /\ UNCHANGED <<phase, sessTrades, posns>>
  BY DEF MatchMaker
<1>2. PICK match : /\ match.makerTrade.id = maxExecId + 1
                   /\ match.takerTrade.id = maxExecId + 2
                   /\ matches' = Append(matches, match)
  BY DEF MatchMaker, NewMatch, ExecTrade, NewExec
<1>3. /\ DOMAIN matches' = DOMAIN matches \cup {Len(matches) + 1}
      /\ \A k \in DOMAIN matches : matches'[k] = matches[k]
      /\ matches'[Len(matches) + 1] = match
  <2>1. matches \in Seq(MatchRec)
    BY DEF TypeInv, TypeOK
  <2> QED BY <1>2, <2>1
<1>4. ASSUME NEW t \in Traders, NEW e \in sessTrades[t]
      PROVE  e.id # maxExecId + 1 /\ e.id # maxExecId + 2
  <2>1. e \in ExecRec /\ e.id <= maxExecId
    BY SettledIds
  <2> QED BY <2>1, IdTypes DEF ExecRec
<1>5. ASSUME NEW k \in DOMAIN matches', NEW t \in Traders, NEW e \in sessTrades[t]
      PROVE  e.id # matches'[k].makerTrade.id /\ e.id # matches'[k].takerTrade.id
  <2>1. CASE k \in DOMAIN matches
    <3>1. Waits(k)
      BY <1>1 DEF Waits
    <3> QED BY <1>3, <2>1, <3>1 DEF PosnInv, MatchesUnsettled
  <2>2. CASE k \notin DOMAIN matches
    BY <1>2, <1>3, <1>4, <2>2
  <2> QED BY <2>1, <2>2
<1>6. MatchesUnsettled'
  BY <1>1, <1>5 DEF MatchesUnsettled
<1>7. SessionsFinite' /\ PosnsRight'
  BY <1>1 DEF PosnInv, SessionsFinite, PosnsRight
<1> QED BY <1>6, <1>7 DEF PosnInv

LEMMA PosnCommit ==
  ASSUME TypeInv, MakersKnown, IdInv, PosnInv, CommitMatch
  PROVE  PosnInv'
<1>1. /\ phase = "commit" /\ next \in DOMAIN matches /\ next \in Nat
      /\ matches[next] \in MatchRec /\ matches[next].takerTrade.trader = TakerTrader
      /\ sessTrades' = SessionTrades(matches[next])
      /\ posns' = AfterTrades(matches[next])
      /\ next' = next + 1 /\ UNCHANGED <<matches, phase>>
  BY DEF CommitMatch, Committable, TypeInv, TypeOK, MakersKnown
<1>2. PICK made \in ExecRec : made = matches[next].makerTrade
  BY <1>1 DEF MatchRec
<1>3. PICK took \in ExecRec : took = matches[next].takerTrade
  BY <1>1 DEF MatchRec
<1>4. /\ \A t \in Traders : \A e \in sessTrades[t] : e.id # made.id /\ e.id # took.id
      /\ made.id # took.id
  <2>1. Waits(next)
    BY <1>1 DEF Waits
  <2>2. took.id = made.id + 1 /\ made.id \in Nat
    BY <1>1, <1>2, <1>3 DEF IdInv, MatchIds, ExecRec
  <2> QED BY <1>1, <1>2, <1>3, <2>1, <2>2 DEF PosnInv, MatchesUnsettled
<1>5. made.trader \in Traders /\ took.trader \in Traders /\ took.trader = TakerTrader
  BY <1>1, <1>3 DEF ExecRec
<1>6. ASSUME NEW t \in Traders
      PROVE  /\ IsFiniteSet(sessTrades'[t])
             /\ posns'[t] = PosnOf(sessTrades'[t])
  <2>1. PICK S \in SUBSET ExecRec : S = sessTrades[t] /\ IsFiniteSet(S) /\ posns[t] = PosnOf(S)
    BY DEF TypeInv, TypeOK, PosnInv, SessionsFinite, PosnsRight
  <2>2. made \notin S /\ took \notin S /\ took # made
    BY <1>4, <2>1
  <2>3. PICK R \in SUBSET ExecRec : /\ R = S \cup (IF made.trader = t THEN {made} ELSE {})
                                    /\ IsFiniteSet(R)
    <3>1. IsFiniteSet(S \cup {made})
      BY <2>1, FS_AddElement
    <3>2. IsFiniteSet(S \cup (IF made.trader = t THEN {made} ELSE {}))
      <4>1. CASE made.trader = t
        BY <3>1, <4>1
      <4>2. CASE made.trader # t
        <5>1. S \cup (IF made.trader = t THEN {made} ELSE {}) = S
          BY <4>2
        <5> QED BY <2>1, <5>1
      <4> QED BY <4>1, <4>2
    <3> QED BY <3>2
  <2>4. PICK p : p = IF made.trader = t THEN AddTrade(posns[t], made) ELSE posns[t]
    OBVIOUS
  <2>5. p = PosnOf(R)
    <3>1. CASE made.trader = t
      <4>1. AddTrade(PosnOf(S), made) = PosnOf(S \cup {made}) /\ R = S \cup {made}
        BY <2>1, <2>2, <2>3, <3>1, PosnAdd
      <4> QED BY <2>1, <2>4, <3>1, <4>1, Zenon
    <3>2. CASE made.trader # t
      <4>1. R = S
        BY <2>3, <3>2
      <4> QED BY <2>1, <2>4, <3>2, <4>1
    <3> QED BY <3>1, <3>2
  <2>6. took \notin R
    BY <2>2, <2>3
  <2>7. sessTrades'[t] = R \cup (IF took.trader = t THEN {took} ELSE {})
    <3>1. sessTrades'[t] = S \cup {e \in {made, took} : e.trader = t}
      BY <1>1, <1>2, <1>3, <2>1 DEF SessionTrades
    <3> QED BY <2>3, <3>1
  <2>8. posns'[t] = IF took.trader = t THEN AddTrade(p, took) ELSE p
    <3>1. DOMAIN posns = Traders
      BY DEF TypeInv, TypeOK
    <3>2. posns' = [[posns EXCEPT ![made.trader] = AddTrade(@, made)]
                      EXCEPT ![took.trader] = AddTrade(@, took)]
      BY <1>1, <1>2, <1>3, <1>5, Zenon DEF AfterTrades
    <3> QED BY <1>5, <2>4, <3>1, <3>2
  <2>9. CASE took.trader = t
    <3>1. AddTrade(PosnOf(R), took) = PosnOf(R \cup {took})
      BY <2>3, <2>6, PosnAdd
    <3>2. sessTrades'[t] = R \cup {took}
      BY <2>7, <2>9
    <3>3. IsFiniteSet(R \cup {took})
      BY <2>3, FS_AddElement
    <3>4. posns'[t] = AddTrade(PosnOf(R), took)
      BY <2>5, <2>8, <2>9, Zenon
    <3> QED BY <3>1, <3>2, <3>3, <3>4, Zenon
  <2>10. CASE took.trader # t
    <3>1. sessTrades'[t] = R /\ posns'[t] = p
      BY <2>7, <2>8, <2>10
    <3> QED BY <2>3, <2>5, <3>1
  <2> QED BY <2>9, <2>10
<1>7. SessionsFinite'
  BY <1>6 DEF SessionsFinite
<1>8. PosnsRight'
  BY <1>6 DEF PosnsRight
<1>9. ASSUME NEW k \in DOMAIN matches, k >= next', NEW t \in Traders, NEW e \in sessTrades'[t]
      PROVE  e.id # matches[k].makerTrade.id /\ e.id # matches[k].takerTrade.id
  <2>1. e \in sessTrades[t] \/ e = made \/ e = took
    BY <1>1, <1>2, <1>3 DEF SessionTrades
  <2>2. k \in Nat /\ k > next
    <3>1. DOMAIN matches \subseteq Nat
      BY DEF TypeInv, TypeOK
    <3> QED BY <1>1, <1>9, <3>1
  <2>3. Waits(k)
    BY <1>1, <2>2 DEF Waits
  <2>4. took.id < matches[k].makerTrade.id /\ made.id < took.id
        /\ matches[k].makerTrade.id < matches[k].takerTrade.id
    BY <1>1, <1>2, <1>3, <2>2, IdTypes DEF IdInv, MatchIds
  <2>5. CASE e \in sessTrades[t]
    BY <2>3, <2>5 DEF PosnInv, MatchesUnsettled
  <2>6. CASE e = made \/ e = took
    BY <1>2, <1>3, <2>4, <2>6, IdTypes DEF ExecRec
  <2> QED BY <2>1, <2>5, <2>6
<1>10. MatchesUnsettled'
  BY <1>1, <1>9 DEF MatchesUnsettled, Waits
<1> QED BY <1>7, <1>8, <1>10 DEF PosnInv

LEMMA PosnNext == TypeInv /\ MakersKnown /\ IdInv /\ PosnInv /\ [Next]_vars => PosnInv'
<1> SUFFICES ASSUME TypeInv, MakersKnown, IdInv, PosnInv, [Next]_vars
             PROVE  PosnInv'
  OBVIOUS
<1>1. ASSUME NEW day \in Days, NEW lots \in Lots, NEW minLots \in MinLots,
             \/ Reject(day, lots, minLots)
             \/ CreateThrows(day, lots, minLots)
             \/ \E trader \in Traders, side \in Sides, ticks \in Ticks :
                  CreateOrder(day, trader, side, ticks, lots, minLots)
      PROVE  PosnInv'
  BY <1>1, PosnFrame DEF Reject, CreateThrows, CreateOrder, Accept, Leave, Waits,
                         bookVars, sessVars, callVars
<1>2. ASSUME NEW m \in resting, MatchMaker(m)
      PROVE  PosnInv'
  BY <1>2, PosnMatch
<1>3. ASSUME NEW m \in resting, MatchThrows(m)
      PROVE  PosnInv'
  BY <1>3, PosnFrame DEF MatchThrows, Leave, Waits
<1>4. CASE MatchEnd
  BY <1>4, PosnFrame DEF MatchEnd, Waits, callVars, sessVars
<1>5. CASE PlaceOrder \/ WriteJournal
  BY <1>5, PosnFrame DEF PlaceOrder, WriteJournal, Waits, callVars, sessVars
<1>6. CASE PlaceThrows \/ JournalThrows \/ ResponseThrows
  BY <1>6, PosnFrame DEF PlaceThrows, JournalThrows, ResponseThrows, ClearMatches, sessVars
<1>7. CASE PlaceAborts \/ CommitAborts
  BY <1>7, PosnFrame DEF PlaceAborts, CommitAborts, Abort, Waits, bookVars, sessVars
<1>8. CASE PrepareResponse
  BY <1>8, PosnFrame DEF PrepareResponse, Waits
<1>9. CASE CommitMatch
  BY <1>9, PosnCommit
<1>10. CASE Return
  BY <1>10, PosnFrame DEF Return, ClearMatches, sessVars
<1>11. CASE UNCHANGED vars
  BY <1>11, PosnFrame DEF vars, Waits, sessVars, callVars
<1> QED BY <1>1, <1>2, <1>3, <1>4, <1>5, <1>6, <1>7, <1>8, <1>9, <1>10, <1>11
        DEF Next, Request, Step, Match

\* However calls fail, what a trader's position says is the sum of the trades that the
\* trader's session has: commitMatches adds each trade to both or to neither, and none
\* twice (TraderSess::insertTrade, Posn::addTrade).
THEOREM PositionsAreSums == Spec => []PositionsAreTrades
<1>1. Init => TypeInv /\ MakersKnown /\ IdInv /\ PosnInv
  <2> SUFFICES ASSUME Init PROVE TypeInv /\ MakersKnown /\ IdInv /\ PosnInv
    OBVIOUS
  <2>1. TypeInv /\ MakersKnown /\ IdInv
    BY IdInit
  <2>2. \A t \in Traders : sessTrades[t] = {} /\ posns[t] = ZeroPosn
    BY DEF Init
  <2>3. PosnOf({}) = ZeroPosn
    <3>1. On({}, "Buy") = {} /\ On({}, "Sell") = {}
      BY DEF On
    <3> QED BY <3>1, NoTrades, Zenon DEF PosnOf, ZeroPosn
  <2>4. SessionsFinite /\ PosnsRight
    <3>1. IsFiniteSet({})
      BY FS_EmptySet
    <3> QED BY <2>2, <2>3, <3>1 DEF SessionsFinite, PosnsRight
  <2>5. MatchesUnsettled
    BY <2>2 DEF MatchesUnsettled
  <2> QED BY <2>1, <2>4, <2>5 DEF PosnInv
<1>2. /\ TypeInv /\ MakersKnown /\ IdInv /\ PosnInv /\ [Next]_vars
      => (TypeInv /\ MakersKnown /\ IdInv /\ PosnInv)'
  BY TypeNext, MakersKnownNext, IdNext, PosnNext
<1>3. PosnInv => PositionsAreTrades
  <2> SUFFICES ASSUME PosnInv, NEW t \in Traders
               PROVE  posns[t] =
                 [buyLots  |-> LotsOf(On(sessTrades[t], "Buy")),
                  buyCost  |-> CostsOf(On(sessTrades[t], "Buy")),
                  sellLots |-> LotsOf(On(sessTrades[t], "Sell")),
                  sellCost |-> CostsOf(On(sessTrades[t], "Sell"))]
    BY Zenon DEF PositionsAreTrades, LotsOf, CostsOf, On, SumOver, MapThenSumSet, MapThenFoldSet
  <2> QED BY DEF PosnInv, PosnsRight, PosnOf
<1> QED BY <1>1, <1>2, <1>3, PTL DEF Spec

----------------------------------------------------------------------------
(* What may fail, and what clients may send.                               *)

\* Matching does not throw: nothing is left in impl_->matches by a failed call.
MatchingIsSafe == "match" \notin Faults

\* Only those points throw whose failure createOrder undoes.
FaultsAreUndone == Faults \cap {"match", "posn", "reserve"} = {}

\* Clients send no negative quantity.
LotsAreNatural == Lots \subseteq Nat

\* Nor a negative minimum, nor a price of zero.
OrdersAreSane == LotsAreNatural /\ MinLots \subseteq Nat /\ 0 \notin Ticks

----------------------------------------------------------------------------
(* The invariant, in parts.                                                *)

\* Match k has been drafted and waits for its commit.
Uncommitted(k) == phase \in Pending \/ (phase = "commit" /\ k >= next)

\* The makers of the drafts rest in the book and are as many as the drafts.
MakersRest ==
  \A k \in DOMAIN matches : Uncommitted(k) => matches[k].maker \in resting \ {taker}

MakersDiffer ==
  phase \in Calling =>
    \A k, l \in DOMAIN matches : k # l => matches[k].maker # matches[l].maker

MakersWalked ==
  phase = "match" => \A k \in DOMAIN matches : matches[k].maker \in walked

MatchInv == MatchesCleared /\ MakersRest /\ MakersDiffer /\ MakersWalked

\* An execution has the state, residual, executed lots and cost of an order.
Shows(exec, order) ==
  /\ exec.state = order.state /\ exec.resd = order.resd
  /\ exec.exec = order.exec   /\ exec.cost = order.cost

\* What the commit of a match makes of its maker.
Traded(match) ==
  OrderTrade(orders[match.maker], match.lots,
             CostOf(match.lots, orders[match.maker].ticks))

\* The maker's execution shows what its order will be.
MakerDrafts ==
  \A k \in DOMAIN matches : Uncommitted(k) =>
    /\ matches[k].makerTrade.orderId = matches[k].maker
    /\ Shows(matches[k].makerTrade, Traded(matches[k]))

\* The taker's executions are of the call's order.
TakerDrafts ==
  phase \in Calling =>
    /\ created.orderId = taker
    /\ \A k \in DOMAIN matches :
         /\ matches[k].takerTrade.orderId = taker
         /\ matches[k].takerTrade.trader = orders[taker].trader

\* The last execution of the call's order.
LastDraft == IF matches = << >> THEN created ELSE matches[Len(matches)].takerTrade

\* It shows what the order is after matching.
LastDraftShows ==
  /\ phase = "match" =>
       /\ Shows(created, orders[taker])
       /\ matches # << >> =>
            Shows(LastDraft, OrderTrade(orders[taker], sumLots, sumCost))
  /\ phase \in {"place", "journal", "respond"} => Shows(LastDraft, orders[taker])

DraftInv == MakerDrafts /\ TakerDrafts /\ LastDraftShows

\* Orders are as their clients sent them.
AsSent ==
  \A i \in DOMAIN orders :
    /\ orders[i].lots \in Lots \ {0} /\ orders[i].minLots \in MinLots
    /\ orders[i].ticks \in Ticks

Balanced(order) == order.resd >= 0 /\ order.exec >= 0 /\ order.resd + order.exec = order.lots

OrdersBalanced == \A i \in DOMAIN orders : Balanced(orders[i])

RestingOpen == \A i \in resting : orders[i].resd > 0

\* No draft takes more than its maker has, nor all of them more than the taker has.
DraftsFit ==
  /\ \A k \in DOMAIN matches :
       Uncommitted(k) => matches[k].lots \in 1 .. orders[matches[k].maker].resd
  /\ phase = "match" => sumLots \in 0 .. orders[taker].resd

SumsBegin == Idle => sumLots = 0

BalanceInv == OrdersBalanced /\ RestingOpen /\ DraftsFit /\ SumsBegin

\* The orders that sessions know, with the call's order once it may be in the book.
Known == Outstanding \cup (IF phase \in {"journal", "respond"} THEN {taker} ELSE {})

\* The book and the journal have no other.
BookKnown == resting \subseteq Known

JournalKnown ==
  \A i \in DOMAIN journal :
    journal[i].orderId \in Outstanding \cup (IF phase = "respond" THEN {taker} ELSE {})

KnownInv == BookKnown /\ JournalKnown

\* The book has every order that has lots left.
OpenResting == \A i \in Known : orders[i].resd > 0 => i \in resting

\* Execution i of the journal is the last of order o.
IsLast(i, o) ==
  /\ i \in DOMAIN journal /\ journal[i].orderId = o
  /\ \A j \in DOMAIN journal : journal[j].orderId = o => j <= i

\* The last execution of an order shows the order, or what it will be when the
\* match that is written but not committed is.
Restorable(o) ==
  \E i \in DOMAIN journal :
    /\ IsLast(i, o)
    /\ \/ /\ Shows(journal[i], orders[o])
          /\ phase \in {"respond", "commit"} =>
               \A k \in DOMAIN matches : Uncommitted(k) => matches[k].maker # o
       \/ /\ phase \in {"respond", "commit"}
          /\ \E k \in DOMAIN matches :
               Uncommitted(k) /\ matches[k].maker = o /\ journal[i] = matches[k].makerTrade

Written == Outstanding \cup (IF phase = "respond" THEN {taker} ELSE {})

RestoreInv == phase # "aborted" => \A o \in Written : Restorable(o)

----------------------------------------------------------------------------
(* The steps, as the invariant sees them.                                  *)

seenVars == <<orders, resting, sessOrders, journal, matches, created, taker, next,
              walked, sumLots, sumCost, resp>>

Stays == UNCHANGED <<seenVars, phase>>

Aborts == phase \in {"place", "commit"} /\ phase' = "aborted" /\ UNCHANGED seenVars

\* A call returns or throws, and its matches go.
Ends ==
  /\ phase' = "idle" /\ matches' = << >> /\ sumLots' = 0
  /\ UNCHANGED <<sessOrders, journal>>
  /\ \/ /\ phase = "idle" \/ (phase = "commit" /\ next > Len(matches))
        /\ UNCHANGED <<orders, resting>>
     \/ /\ phase \in {"place", "journal"}
        /\ orders' = Freed /\ resting' = resting \ {taker}
     \/ /\ phase = "respond" /\ Faults \cap {"posn", "reserve"} # {}
        /\ UNCHANGED resting
        /\ orders' = IF taker \in resting THEN orders ELSE Freed

Creates ==
  \E day \in Days, lots \in Lots, minLots \in MinLots,
     trader \in Traders, side \in Sides, ticks \in Ticks :
    CreateOrder(day, trader, side, ticks, lots, minLots)

LEMMA StepForms ==
  ASSUME TypeInv, MatchesCleared, MatchingIsSafe, [Next]_vars
  PROVE  \/ Stays \/ Aborts \/ Ends \/ Creates
         \/ (\E m \in resting : MatchMaker(m)) \/ MatchEnd \/ PlaceOrder
         \/ WriteJournal \/ PrepareResponse \/ CommitMatch
<1>1. ASSUME NEW day \in Days, NEW lots \in Lots, NEW minLots \in MinLots,
             Reject(day, lots, minLots)
      PROVE  Stays
  BY <1>1 DEF Reject, Stays, seenVars, bookVars, sessVars, callVars, loopVars
<1>2. ASSUME NEW day \in Days, NEW lots \in Lots, NEW minLots \in MinLots,
             CreateThrows(day, lots, minLots)
      PROVE  Ends
  BY <1>2 DEF CreateThrows, Accept, Leave, Ends, MatchesCleared, Idle, sessVars
<1>3. ASSUME NEW m \in resting, MatchThrows(m)
      PROVE  FALSE
  BY <1>3 DEF MatchThrows, MatchingIsSafe
<1>4. CASE PlaceThrows
  <2>1. taker \notin resting
    BY <1>4 DEF PlaceThrows, TypeInv, TakerFresh
  <2>2. resting = resting \ {taker}
    BY <2>1
  <2>3. Ends
    BY <1>4, <2>2 DEF PlaceThrows, Leave, ClearMatches, Ends, sessVars
  <2> QED BY <2>3
<1>5. CASE PlaceAborts \/ CommitAborts
  <2>1. Aborts
    BY <1>5 DEF PlaceAborts, CommitAborts, Abort, Aborts, seenVars, bookVars, sessVars,
                callVars, loopVars
  <2> QED BY <2>1
<1>6. CASE JournalThrows
  <2>1. phase = "journal" /\ resting' = resting \ {taker}
    BY <1>6 DEF JournalThrows, Unplaced
  <2>2. orders' = Freed
    BY <1>6, <2>1 DEF JournalThrows
  <2>3. Ends
    BY <1>6, <2>1, <2>2 DEF JournalThrows, Leave, ClearMatches, Ends, sessVars
  <2> QED BY <2>3
<1>7. CASE ResponseThrows
  <2>1. Ends
    BY <1>7 DEF ResponseThrows, Leave, ClearMatches, Ends
  <2> QED BY <2>1
<1>8. CASE Return
  <2>1. Ends
    BY <1>8 DEF Return, Leave, ClearMatches, Ends, bookVars, sessVars
  <2> QED BY <2>1
<1>9. CASE UNCHANGED vars
  BY <1>9 DEF vars, bookVars, sessVars, callVars, loopVars, Stays, seenVars
<1> QED
  BY <1>1, <1>2, <1>3, <1>4, <1>5, <1>6, <1>7, <1>8, <1>9
    DEF Next, Request, Step, Match, Creates

\* What creating an order does to the book.
LEMMA CreateFacts ==
  ASSUME TypeInv, Creates
  PROVE  \E trader \in Traders, side \in Sides, ticks \in Ticks, lots \in Lots \ {0},
            minLots \in MinLots :
           LET order == NewOrder(trader, side, ticks, lots, minLots)
           IN  /\ phase = "idle" /\ phase' = "match" /\ taker' = maxOrderId + 1
               /\ taker' \notin DOMAIN orders
               /\ DOMAIN orders' = DOMAIN orders \cup {taker'}
               /\ orders'[taker'] = order
               /\ \A i \in DOMAIN orders : orders'[i] = orders[i]
               /\ created' = NewExec(order, taker', maxExecId')
               /\ UNCHANGED <<resting, sessOrders, journal, matches, walked, sumLots,
                              sumCost, next, resp>>
<1>1. PICK day \in Days, lots \in Lots, minLots \in MinLots,
           trader \in Traders, side \in Sides, ticks \in Ticks :
        CreateOrder(day, trader, side, ticks, lots, minLots)
  BY DEF Creates
<1> DEFINE order == NewOrder(trader, side, ticks, lots, minLots)
<1>2. /\ lots # 0 /\ phase = "idle" /\ phase' = "match" /\ taker' = maxOrderId + 1
      /\ maxOrderId' = maxOrderId + 1
      /\ UNCHANGED <<resting, sessOrders, journal, matches, walked, sumLots, sumCost,
                     next, resp>>
  BY <1>1 DEF CreateOrder, Accept, Acceptable, sessVars, loopVars
<1>3. /\ orders' = [i \in DOMAIN orders \cup {taker'} |-> IF i = taker' THEN order ELSE orders[i]]
      /\ created' = NewExec(order, taker', maxExecId')
  BY <1>1, <1>2, Zenon DEF CreateOrder
<1>4. taker' \notin DOMAIN orders
  BY <1>2 DEF TypeInv, TypeOK
<1> HIDE DEF order
<1>5. /\ DOMAIN orders' = DOMAIN orders \cup {taker'}
      /\ orders'[taker'] = order
      /\ \A i \in DOMAIN orders : orders'[i] = orders[i]
  BY <1>3, <1>4
<1> QED BY <1>2, <1>3, <1>4, <1>5 DEF order

\* What Append does to a sequence.
LEMMA AppendParts ==
  ASSUME NEW S, NEW s \in Seq(S), NEW x \in S
  PROVE  /\ Len(s) \in Nat /\ DOMAIN s = 1 .. Len(s)
         /\ Len(Append(s, x)) = Len(s) + 1
         /\ DOMAIN Append(s, x) = 1 .. Len(s) + 1
         /\ \A k \in DOMAIN s : Append(s, x)[k] = s[k]
         /\ Append(s, x)[Len(s) + 1] = x
OBVIOUS

\* What a pass of the matching loop appends.
LEMMA MatchFacts ==
  ASSUME TypeInv, NEW m \in resting, MatchMaker(m)
  PROVE  \E match \in MatchRec :
           /\ phase = "match" /\ Crosses(m) /\ m \notin walked /\ m # taker
           /\ m \in DOMAIN orders /\ taker \in DOMAIN orders
           /\ match = NewMatch(m, Available(m), sumLots', sumCost')
           /\ match.maker = m /\ match.lots = Available(m)
           /\ walked' = walked \cup {m}
           /\ sumLots' = sumLots + Available(m)
           /\ sumCost' = sumCost + CostOf(Available(m), orders[m].ticks)
           /\ sumLots \in Int /\ sumCost \in Int /\ sumLots' \in Int /\ sumCost' \in Int
           /\ matches' = Append(matches, match)
           /\ Len(matches) \in Nat /\ DOMAIN matches = 1 .. Len(matches)
           /\ Len(matches') = Len(matches) + 1
           /\ DOMAIN matches' = 1 .. Len(matches) + 1
           /\ \A k \in DOMAIN matches : matches'[k] = matches[k]
           /\ matches'[Len(matches) + 1] = match
           /\ UNCHANGED <<orders, resting, sessOrders, journal, phase, taker, created,
                          next, resp>>
<1> DEFINE match == NewMatch(m, Available(m), sumLots', sumCost')
<1>1. /\ phase = "match" /\ Crosses(m) /\ walked' = walked \cup {m}
      /\ sumLots' = sumLots + Available(m)
      /\ sumCost' = sumCost + CostOf(Available(m), orders[m].ticks)
      /\ matches' = Append(matches, match)
      /\ UNCHANGED <<orders, resting, sessOrders, journal, phase, taker, created,
                     next, resp>>
  BY DEF MatchMaker
<1>2. m \notin walked
  BY <1>1 DEF Crosses, IsNext, Unwalked
<1>3. m \in DOMAIN orders /\ taker \in DOMAIN orders /\ m # taker
  BY <1>1 DEF TypeInv, TypeOK, TakerFresh
<1>4. Available(m) \in Int /\ orders[m].ticks \in Int /\ sumLots \in Int /\ sumCost \in Int
  <2>1. orders[m] \in OrderRec /\ orders[taker] \in OrderRec
    BY <1>3 DEF TypeInv, TypeOK
  <2>2. sumLots \in Int /\ sumCost \in Int
    BY DEF TypeInv, TypeOK
  <2> QED BY <2>1, <2>2 DEF Available, Least, OrderRec
<1>5. CostOf(Available(m), orders[m].ticks) \in Int
  BY <1>4 DEF CostOf
<1>6. sumLots' \in Int /\ sumCost' \in Int
  BY <1>1, <1>4, <1>5
<1>7. match \in MatchRec
  BY <1>1, <1>3, <1>4, <1>6, NewMatchType
<1>8. match.maker = m /\ match.lots = Available(m)
  BY DEF NewMatch
<1>9. matches \in Seq(MatchRec)
  BY DEF TypeInv, TypeOK
<1>10. PICK x \in MatchRec : x = match
  BY <1>7
<1> HIDE DEF match
<1>11. matches' = Append(matches, x)
  BY <1>1, <1>10
<1>12. /\ Len(matches) \in Nat /\ DOMAIN matches = 1 .. Len(matches)
       /\ Len(matches') = Len(matches) + 1
       /\ DOMAIN matches' = 1 .. Len(matches) + 1
       /\ \A k \in DOMAIN matches : matches'[k] = matches[k]
       /\ matches'[Len(matches) + 1] = match
  BY <1>9, <1>10, <1>11, AppendParts
<1> QED BY <1>1, <1>2, <1>3, <1>4, <1>6, <1>7, <1>8, <1>12 DEF match

\* What one pass of commitMatches does to the book.
LEMMA CommitFacts ==
  ASSUME TypeInv, MakersKnown, CommitMatch
  PROVE  LET match == matches[next]
             m     == match.maker
         IN  /\ phase = "commit" /\ next \in DOMAIN matches /\ next' = next + 1
             /\ next \in Nat
             /\ m \in DOMAIN orders /\ DOMAIN orders' = DOMAIN orders
             /\ orders'[m] = Traded(match)
             /\ \A i \in DOMAIN orders \ {m} : orders'[i] = orders[i]
             /\ match.lots < orders[m].resd => resting' = resting
             /\ ~(match.lots < orders[m].resd) => resting' = resting \ {m}
             /\ UNCHANGED <<sessOrders, journal, matches, phase, taker, created, walked,
                            sumLots, sumCost>>
<1> DEFINE match == matches[next]
           m     == match.maker
<1>1. /\ phase = "commit" /\ next <= Len(matches) /\ next' = next + 1
      /\ orders' = [orders EXCEPT ![m] =
                      OrderTrade(@, match.lots, CostOf(match.lots, orders[m].ticks))]
      /\ resting' = AfterTake(match)
      /\ UNCHANGED <<sessOrders, journal, matches, phase, taker, created, walked,
                     sumLots, sumCost>>
  BY DEF CommitMatch, loopVars
<1>2. next \in DOMAIN matches /\ next \in Nat
  BY <1>1 DEF TypeInv, TypeOK, MakersKnown
<1>3. m \in DOMAIN orders
  BY <1>2 DEF MakersKnown
<1> HIDE DEF match
<1>4. /\ DOMAIN orders' = DOMAIN orders
      /\ orders'[m] = OrderTrade(orders[m], match.lots, CostOf(match.lots, orders[m].ticks))
      /\ \A i \in DOMAIN orders \ {m} : orders'[i] = orders[i]
  BY <1>1, <1>3
<1> QED BY <1>1, <1>2, <1>3, <1>4 DEF Traded, AfterTake, match

----------------------------------------------------------------------------
(* Matches are made, committed once, and gone when the call is.             *)

USE DEF Idle

LEMMA MatchNext ==
  ASSUME TypeInv, MakersKnown, MatchInv, MatchingIsSafe, [Next]_vars
  PROVE  MatchInv'
<1> USE DEF MatchInv, MatchesCleared, MakersRest, MakersDiffer, MakersWalked, Uncommitted
<1>1. CASE Stays
  BY <1>1 DEF Stays, seenVars
<1>2. CASE Aborts
  BY <1>2 DEF Aborts, seenVars
<1>3. CASE Ends
  BY <1>3 DEF Ends
<1>4. CASE Creates
  <2>1. phase = "idle" /\ phase' = "match" /\ matches' = matches
    BY <1>4, CreateFacts
  <2> QED BY <2>1
<1>5. ASSUME NEW m \in resting, MatchMaker(m)
      PROVE  MatchInv'
  <2>1. PICK match \in MatchRec :
          /\ phase = "match" /\ m \notin walked /\ m # taker
          /\ match.maker = m /\ walked' = walked \cup {m}
          /\ Len(matches) \in Nat /\ DOMAIN matches = 1 .. Len(matches)
          /\ DOMAIN matches' = 1 .. Len(matches) + 1
          /\ \A k \in DOMAIN matches : matches'[k] = matches[k]
          /\ matches'[Len(matches) + 1] = match
          /\ UNCHANGED <<resting, phase, taker>>
    BY <1>5, MatchFacts
  <2>2. \A k \in DOMAIN matches' : k \in DOMAIN matches \/ k = Len(matches) + 1
    BY <2>1
  <2>3. MakersRest' /\ MakersWalked'
    BY <2>1, <2>2
  <2>4. MakersDiffer'
    <3>1. \A k \in DOMAIN matches : matches[k].maker # m
      BY <2>1
    <3> QED BY <2>1, <2>2, <3>1
  <2>5. MatchesCleared'
    BY <2>1
  <2> QED BY <2>3, <2>4, <2>5
<1>6. CASE MatchEnd
  BY <1>6 DEF MatchEnd, callVars, loopVars
<1>7. CASE PlaceOrder
  BY <1>7 DEF PlaceOrder, callVars, loopVars
<1>8. CASE WriteJournal
  BY <1>8 DEF WriteJournal, bookVars, callVars, loopVars
<1>9. CASE PrepareResponse
  BY <1>9 DEF PrepareResponse, bookVars, loopVars
<1>10. CASE CommitMatch
  <2> DEFINE m == matches[next].maker
  <2>1. /\ phase = "commit" /\ next \in DOMAIN matches /\ next' = next + 1 /\ next \in Nat
        /\ resting' = resting \/ resting' = resting \ {m}
        /\ UNCHANGED <<matches, phase, taker>>
    BY <1>10, CommitFacts
  <2>2. ASSUME NEW k \in DOMAIN matches, k >= next + 1
        PROVE  matches[k].maker \in resting' \ {taker}
    <3>1. k # next /\ k >= next
      BY <2>1, <2>2 DEF TypeInv, TypeOK
    <3>2. matches[k].maker # m
      BY <2>1, <3>1
    <3>3. matches[k].maker \in resting \ {taker}
      BY <2>1, <3>1
    <3> QED BY <2>1, <3>2, <3>3
  <2> QED BY <2>1, <2>2
<1> QED BY <1>1, <1>2, <1>3, <1>4, <1>5, <1>6, <1>7, <1>8, <1>9, <1>10, StepForms

\* Unless matching itself throws, no call leaves a match behind for another to
\* commit (Serv::createOrder, impl_->matches).
THEOREM NoStaleMatches ==
  ASSUME MatchingIsSafe
  PROVE  Spec => []MatchesCleared
<1>1. Init => TypeInv /\ MakersKnown /\ MatchInv
  BY InitTypeInv
    DEF Init, MakersKnown, MatchInv, MatchesCleared, MakersRest, MakersDiffer, MakersWalked
<1>2. TypeInv /\ MakersKnown /\ MatchInv /\ [Next]_vars
        => (TypeInv /\ MakersKnown /\ MatchInv)'
  BY TypeNext, MakersKnownNext, MatchNext
<1>3. MatchInv => MatchesCleared
  BY DEF MatchInv
<1> QED BY <1>1, <1>2, <1>3, PTL DEF Spec

----------------------------------------------------------------------------
(* The room that the response reserves.                                    *)

\* A response is prepared once; after that each commit adds at most one order
\* and two executions to it.
RespInv ==
  /\ phase \notin {"commit", "aborted"} => resp = NoResp
  /\ phase = "commit" =>
       /\ next <= Len(matches) + 1
       /\ Len(resp.orders) <= next /\ Len(resp.execs) <= 2 * next - 1
       /\ resp.orderCap = OrderCapacity /\ resp.execCap = ExecCapacity
  /\ ResponseFits

\* An empty response fits.
LEMMA NoRespFits ==
  ASSUME resp' = NoResp, phase' \notin {"commit", "aborted"}
  PROVE  RespInv'
BY DEF RespInv, ResponseFits, NoResp

\* What a commit adds to the response (commitMatches).
LEMMA RespInsertLen ==
  ASSUME TypeInv, NEW match
  PROVE  /\ Len(RespInsert(match).orders) <= Len(resp.orders) + 1
         /\ Len(RespInsert(match).execs) <= Len(resp.execs) + 2
         /\ Len(RespInsert(match).orders) \in Nat /\ Len(RespInsert(match).execs) \in Nat
         /\ RespInsert(match).orderCap = resp.orderCap
         /\ RespInsert(match).execCap = resp.execCap
<1>1. resp \in RespRec /\ resp.orders \in Seq(Nat) /\ resp.execs \in Seq(Nat)
  BY DEF TypeInv, TypeOK, RespRec
<1> DEFINE self == match.makerTrade.trader = TakerTrader
           o == IF self THEN Append(resp.orders, match.maker) ELSE resp.orders
           e == (IF self THEN Append(resp.execs, match.makerTrade.id) ELSE resp.execs)
                   \o <<match.takerTrade.id>>
<1>2. RespInsert(match) = [resp EXCEPT !.orders = o, !.execs = e]
  BY DEF RespInsert
<1>3. Len(o) <= Len(resp.orders) + 1 /\ Len(o) \in Nat
  BY <1>1
<1>4. Len(e) <= Len(resp.execs) + 2 /\ Len(e) \in Nat
  BY <1>1
<1> HIDE DEF o, e
<1>5. /\ RespInsert(match).orders = o /\ RespInsert(match).execs = e
      /\ RespInsert(match).orderCap = resp.orderCap
      /\ RespInsert(match).execCap = resp.execCap
  BY <1>1, <1>2 DEF RespRec
<1> QED BY <1>3, <1>4, <1>5

LEMMA RespNext ==
  ASSUME TypeInv, MakersKnown, RespInv, [Next]_vars
  PROVE  RespInv'
<1>1. ASSUME NEW day \in Days, NEW lots \in Lots, NEW minLots \in MinLots,
             Reject(day, lots, minLots)
      PROVE  RespInv'
  BY <1>1, NoRespFits DEF Reject, callVars, RespInv
<1>2. ASSUME NEW day \in Days, NEW lots \in Lots, NEW minLots \in MinLots,
             \/ CreateThrows(day, lots, minLots)
             \/ \E trader \in Traders, side \in Sides, ticks \in Ticks :
                  CreateOrder(day, trader, side, ticks, lots, minLots)
      PROVE  RespInv'
  BY <1>2, NoRespFits DEF CreateThrows, CreateOrder, Accept, Leave, RespInv
<1>3. CASE Match \/ MatchEnd
  BY <1>3, NoRespFits DEF Match, MatchMaker, MatchThrows, MatchEnd, Leave, callVars, RespInv
<1>4. CASE PlaceOrder \/ PlaceThrows \/ WriteJournal \/ JournalThrows \/ ResponseThrows \/ Return
  BY <1>4, NoRespFits
    DEF PlaceOrder, PlaceThrows, WriteJournal, JournalThrows, ResponseThrows, Return,
        Leave, callVars, RespInv
<1>5. CASE PlaceAborts \/ CommitAborts
  <2>1. phase' = "aborted" /\ resp' = resp
    BY <1>5 DEF PlaceAborts, CommitAborts, Abort, callVars
  <2> QED BY <2>1 DEF RespInv, ResponseFits
<1>6. CASE PrepareResponse
  <2>1. /\ phase' = "commit" /\ next' = 1 /\ matches' = matches
        /\ resp'.orders = <<taker>> /\ resp'.execs = <<created.id>>
        /\ resp'.orderCap = OrderCapacity /\ resp'.execCap = ExecCapacity
    BY <1>6 DEF PrepareResponse
  <2>2. Len(resp'.orders) = 1 /\ Len(resp'.execs) = 1 /\ Len(matches) \in Nat
    BY <2>1 DEF TypeInv, TypeOK
  <2> QED BY <2>1, <2>2 DEF RespInv, ResponseFits, OrderCapacity, ExecCapacity
<1>7. CASE CommitMatch
  <2>1. /\ phase = "commit" /\ phase' = phase /\ next <= Len(matches) /\ next' = next + 1
        /\ matches' = matches /\ resp' = RespInsert(matches[next])
    BY <1>7 DEF CommitMatch
  <2>2. /\ next \in Nat /\ Len(matches) \in Nat
        /\ Len(resp.orders) \in Nat /\ Len(resp.execs) \in Nat
    BY DEF TypeInv, TypeOK, RespRec
  <2>3. /\ Len(resp'.orders) <= Len(resp.orders) + 1
        /\ Len(resp'.execs) <= Len(resp.execs) + 2
        /\ Len(resp'.orders) \in Nat /\ Len(resp'.execs) \in Nat
        /\ resp'.orderCap = resp.orderCap /\ resp'.execCap = resp.execCap
    BY <2>1, RespInsertLen
  <2>4. /\ Len(resp.orders) <= next /\ Len(resp.execs) <= 2 * next - 1
        /\ resp.orderCap = 1 + Len(matches) /\ resp.execCap = 1 + 2 * Len(matches)
    BY <2>1 DEF RespInv, OrderCapacity, ExecCapacity
  <2>5. /\ next' <= Len(matches') + 1
        /\ Len(resp'.orders) <= next' /\ Len(resp'.execs) <= 2 * next' - 1
        /\ Len(resp'.orders) <= resp'.orderCap /\ Len(resp'.execs) <= resp'.execCap
    <3>1. next' = next + 1 /\ next <= Len(matches) /\ matches' = matches
      BY <2>1
    <3> DEFINE o == Len(resp.orders)
               e == Len(resp.execs)
               p == Len(resp'.orders)
               f == Len(resp'.execs)
               n == Len(matches)
    <3>2. o \in Nat /\ e \in Nat /\ p \in Nat /\ f \in Nat /\ n \in Nat /\ next \in Nat
      BY <2>2, <2>3
    <3>3. p <= o + 1 /\ f <= e + 2 /\ o <= next /\ e <= 2 * next - 1 /\ next <= n
      BY <2>3, <2>4, <3>1
    <3> HIDE DEF o, e, p, f, n
    <3>4. next + 1 <= n + 1 /\ p <= next + 1 /\ f <= 2 * (next + 1) - 1 /\ p <= 1 + n /\ f <= 1 + 2 * n
      BY <3>2, <3>3
    <3> QED BY <2>3, <2>4, <3>1, <3>4 DEF p, f, n
  <2> QED BY <2>1, <2>3, <2>4, <2>5 DEF RespInv, ResponseFits, OrderCapacity, ExecCapacity
<1>8. CASE UNCHANGED vars
  BY <1>8 DEF vars, callVars, RespInv, ResponseFits, OrderCapacity, ExecCapacity
<1> QED BY <1>1, <1>2, <1>3, <1>4, <1>5, <1>6, <1>7, <1>8 DEF Next, Request, Step

\* Whatever a client sends, wherever calls fail and however many orders of his own
\* a trader meets, the commit phase never needs more room than was reserved
\* (Serv.cpp:424 "sufficient capacity has been reserved above").
THEOREM ReservedIsEnough == Spec => []ResponseFits
<1>1. Init => TypeInv /\ MakersKnown /\ RespInv
  <2> SUFFICES ASSUME Init PROVE TypeInv /\ MakersKnown /\ RespInv
    OBVIOUS
  <2>1. TypeInv /\ MakersKnown
    BY InitTypeInv DEF Init, MakersKnown
  <2>2. RespInv
    BY DEF Init, RespInv, ResponseFits, NoResp
  <2> QED BY <2>1, <2>2
<1>2. TypeInv /\ MakersKnown /\ RespInv /\ [Next]_vars => (TypeInv /\ MakersKnown /\ RespInv)'
  BY TypeNext, MakersKnownNext, RespNext
<1>3. RespInv => ResponseFits
  BY DEF RespInv
<1> QED BY <1>1, <1>2, <1>3, PTL DEF Spec

----------------------------------------------------------------------------
(* The orders of a step.                                                   *)

\* A call that ends frees at most its own order, and not while it is in the book.
LEMMA EndsFacts ==
  ASSUME TypeInv, Ends
  PROVE  /\ DOMAIN orders' \subseteq DOMAIN orders
         /\ \A i \in DOMAIN orders' : orders'[i] = orders[i]
         /\ resting' \subseteq DOMAIN orders' /\ resting' \subseteq resting
         /\ \A i \in DOMAIN orders : phase # "respond" /\ i \notin DOMAIN orders' =>
              i = taker /\ phase \in {"place", "journal"}
<1>1. CASE UNCHANGED <<orders, resting>>
  BY <1>1 DEF TypeInv, TypeOK
<1>2. CASE /\ phase \in {"place", "journal"}
           /\ orders' = Freed /\ resting' = resting \ {taker}
  <2>1. taker \in DOMAIN orders
    BY <1>2 DEF TypeInv, TypeOK
  <2> QED BY <1>2, <2>1, FreedTypes DEF TypeInv, TypeOK
<1>3. CASE /\ phase = "respond" /\ UNCHANGED resting
           /\ orders' = IF taker \in resting THEN orders ELSE Freed
  <2>1. taker \in DOMAIN orders
    BY <1>3 DEF TypeInv, TypeOK
  <2> QED BY <1>3, <2>1, FreedTypes DEF TypeInv, TypeOK
<1> QED BY <1>1, <1>2, <1>3 DEF Ends

\* The end of matching changes the call's order, by the sums, when it traded.
LEMMA MatchEndFacts ==
  ASSUME TypeInv, MatchEnd
  PROVE  /\ phase = "match" /\ phase' = "place" /\ taker \in DOMAIN orders
         /\ taker \notin resting
         /\ DOMAIN orders' = DOMAIN orders
         /\ \A i \in DOMAIN orders \ {taker} : orders'[i] = orders[i]
         /\ matches = << >> => orders' = orders
         /\ matches # << >> =>
              orders'[taker] = OrderTrade(orders[taker], sumLots, sumCost)
         /\ UNCHANGED <<resting, sessOrders, journal, matches, taker, created, next,
                        sumLots, sumCost>>
<1>1. /\ phase = "match" /\ phase' = "place"
      /\ orders' = IF matches = << >> THEN orders
                   ELSE [orders EXCEPT ![taker] = OrderTrade(@, sumLots, sumCost)]
      /\ UNCHANGED <<resting, sessOrders, journal, matches, taker, created, next,
                     sumLots, sumCost>>
  BY DEF MatchEnd, sessVars, callVars, loopVars
<1>2. taker \in DOMAIN orders /\ taker \notin resting
  BY <1>1 DEF TypeInv, TypeOK, TakerFresh
<1>3. CASE matches = << >>
  BY <1>1, <1>2, <1>3
<1>4. CASE matches # << >>
  BY <1>1, <1>2, <1>4
<1> QED BY <1>3, <1>4

\* Placing, writing and responding leave every order as it is.
LEMMA QuietFacts ==
  ASSUME PlaceOrder \/ WriteJournal \/ PrepareResponse
  PROVE  /\ UNCHANGED <<orders, matches, taker, created>>
         /\ \/ /\ phase = "place" /\ phase' = "journal"
               /\ UNCHANGED <<sessOrders, journal>>
               /\ \/ orders[taker].resd = 0 /\ resting' = resting
                  \/ Placeable /\ resting' = resting \cup {taker}
            \/ /\ phase = "journal" /\ phase' = "respond"
               /\ journal' = journal \o Batch /\ UNCHANGED <<sessOrders, resting>>
            \/ /\ phase = "respond" /\ phase' = "commit" /\ next' = 1
               /\ sessOrders' = [sessOrders EXCEPT ![TakerTrader] = @ \cup {taker}]
               /\ UNCHANGED <<journal, resting>>
BY DEF PlaceOrder, Done, WriteJournal, PrepareResponse, bookVars, sessVars, callVars, loopVars

----------------------------------------------------------------------------
(* What drafts show.                                                       *)

LEMMA DraftNext ==
  ASSUME TypeInv, MakersKnown, MatchInv, DraftInv, MatchingIsSafe, [Next]_vars
  PROVE  DraftInv'
<1> USE DEF DraftInv, MakerDrafts, TakerDrafts, LastDraftShows, LastDraft, Uncommitted, Traded
<1>1. CASE Stays
  BY <1>1 DEF Stays, seenVars
<1>2. CASE Aborts
  BY <1>2 DEF Aborts, seenVars
<1>3. CASE Ends
  BY <1>3 DEF Ends
<1>4. CASE Creates
  <2>1. PICK trader \in Traders, side \in Sides, ticks \in Ticks, lots \in Lots \ {0},
             minLots \in MinLots :
          /\ phase = "idle" /\ phase' = "match"
          /\ orders'[taker'] = NewOrder(trader, side, ticks, lots, minLots)
          /\ created' = NewExec(NewOrder(trader, side, ticks, lots, minLots), taker', maxExecId')
          /\ matches' = matches
    BY <1>4, CreateFacts
  <2>2. matches' = << >>
    BY <2>1 DEF MatchInv, MatchesCleared
  <2>3. created'.orderId = taker' /\ Shows(created', orders'[taker'])
    BY <2>1 DEF NewExec, NewOrder, Shows
  <2> QED BY <2>1, <2>2, <2>3
<1>5. ASSUME NEW m \in resting, MatchMaker(m)
      PROVE  DraftInv'
  <2>1. PICK match \in MatchRec :
          /\ phase = "match" /\ m # taker
          /\ match = NewMatch(m, Available(m), sumLots', sumCost')
          /\ match.maker = m /\ match.lots = Available(m)
          /\ Len(matches) \in Nat /\ DOMAIN matches = 1 .. Len(matches)
          /\ Len(matches') = Len(matches) + 1
          /\ DOMAIN matches' = 1 .. Len(matches) + 1
          /\ \A k \in DOMAIN matches : matches'[k] = matches[k]
          /\ matches'[Len(matches) + 1] = match
          /\ UNCHANGED <<orders, phase, taker, created>>
    BY <1>5, MatchFacts
  <2>2. \A k \in DOMAIN matches' : k \in DOMAIN matches \/ k = Len(matches) + 1
    BY <2>1
  <2>3. match.makerTrade.orderId = m /\ Shows(match.makerTrade, Traded(match))
    BY <2>1 DEF NewMatch, ExecTrade, NewExec, OrderTrade, Shows
  <2>4. /\ match.takerTrade.orderId = taker /\ match.takerTrade.trader = orders[taker].trader
        /\ Shows(match.takerTrade, OrderTrade(orders[taker], sumLots', sumCost'))
    BY <2>1 DEF NewMatch, ExecTrade, NewExec, OrderTrade, Shows
  <2>5. MakerDrafts'
    BY <2>1, <2>2, <2>3
  <2>6. TakerDrafts'
    BY <2>1, <2>2, <2>4
  <2>7. LastDraftShows'
    <3>1. matches' # << >>
      BY <2>1
    <3>2. LastDraft' = match.takerTrade
      BY <2>1, <3>1
    <3> QED BY <2>1, <2>4, <3>2
  <2> QED BY <2>5, <2>6, <2>7
<1>6. CASE MatchEnd
  <2>1. /\ phase = "match" /\ phase' = "place" /\ taker \in DOMAIN orders
        /\ \A i \in DOMAIN orders \ {taker} : orders'[i] = orders[i]
        /\ matches = << >> => orders' = orders
        /\ matches # << >> => orders'[taker] = OrderTrade(orders[taker], sumLots, sumCost)
        /\ UNCHANGED <<matches, taker, created>>
    BY <1>6, MatchEndFacts
  <2>2. MakerDrafts'
    <3>1. ASSUME NEW k \in DOMAIN matches
          PROVE  orders'[matches[k].maker] = orders[matches[k].maker]
      BY <2>1 DEF MakersKnown
    <3> QED BY <2>1, <3>1
  <2>3. TakerDrafts'
    <3>1. orders'[taker].trader = orders[taker].trader
      BY <2>1 DEF OrderTrade
    <3> QED BY <2>1, <3>1
  <2>4. LastDraftShows'
    BY <2>1
  <2> QED BY <2>2, <2>3, <2>4
<1>7. CASE PlaceOrder \/ WriteJournal \/ PrepareResponse
  <2>1. /\ UNCHANGED <<orders, matches, taker, created>>
        /\ \/ phase = "place" /\ phase' = "journal"
           \/ phase = "journal" /\ phase' = "respond"
           \/ phase = "respond" /\ phase' = "commit"
    BY <1>7, QuietFacts
  <2> QED BY <2>1
<1>8. CASE CommitMatch
  <2> DEFINE m == matches[next].maker
  <2>1. /\ phase = "commit" /\ next \in DOMAIN matches /\ next' = next + 1 /\ next \in Nat
        /\ m \in DOMAIN orders
        /\ \A i \in DOMAIN orders \ {m} : orders'[i] = orders[i]
        /\ UNCHANGED <<matches, phase, taker, created>>
    BY <1>8, CommitFacts
  <2>2. ASSUME NEW k \in DOMAIN matches, k >= next + 1
        PROVE  k >= next /\ orders'[matches[k].maker] = orders[matches[k].maker]
    <3>1. k # next /\ k >= next
      BY <2>1, <2>2 DEF TypeInv, TypeOK
    <3>2. matches[k].maker # m
      BY <2>1, <3>1 DEF MatchInv, MakersDiffer
    <3> QED BY <2>1, <3>1, <3>2 DEF MakersKnown
  <2>3. orders'[taker].trader = orders[taker].trader
    <3>1. taker # m
      BY <2>1 DEF MatchInv, MakersRest
    <3>2. taker \in DOMAIN orders
      BY <2>1 DEF TypeInv, TypeOK
    <3> QED BY <2>1, <3>1, <3>2
  <2>4. MakerDrafts'
    BY <2>1, <2>2
  <2>5. TakerDrafts' /\ LastDraftShows'
    BY <2>1, <2>3
  <2> QED BY <2>4, <2>5
<1> QED BY <1>1, <1>2, <1>3, <1>4, <1>5, <1>6, <1>7, <1>8, StepForms DEF MatchInv

----------------------------------------------------------------------------
(* Orders are as they were sent.                                           *)

LEMMA SentNext ==
  ASSUME TypeInv, MakersKnown, MatchInv, AsSent, MatchingIsSafe, [Next]_vars
  PROVE  AsSent'
<1>1. CASE Stays \/ Aborts
  BY <1>1 DEF AsSent, Stays, Aborts, seenVars
<1>2. CASE Ends
  BY <1>2, EndsFacts DEF AsSent
<1>3. CASE Creates
  <2>1. PICK trader \in Traders, side \in Sides, ticks \in Ticks, lots \in Lots \ {0},
             minLots \in MinLots :
          /\ DOMAIN orders' = DOMAIN orders \cup {taker'}
          /\ orders'[taker'] = NewOrder(trader, side, ticks, lots, minLots)
          /\ \A i \in DOMAIN orders : orders'[i] = orders[i]
    BY <1>3, CreateFacts
  <2>2. /\ orders'[taker'].lots = lots /\ orders'[taker'].minLots = minLots
        /\ orders'[taker'].ticks = ticks
    BY <2>1 DEF NewOrder
  <2> QED BY <2>1, <2>2 DEF AsSent
<1>4. ASSUME NEW m \in resting, MatchMaker(m)
      PROVE  AsSent'
  BY <1>4, MatchFacts DEF AsSent
<1>5. ASSUME NEW o, DOMAIN orders' = DOMAIN orders,
             \A i \in DOMAIN orders \ {o} : orders'[i] = orders[i],
             \E lots, cost : orders'[o] = OrderTrade(orders[o], lots, cost)
      PROVE  AsSent'
  BY <1>5 DEF AsSent, OrderTrade
<1>6. CASE MatchEnd
  <2>1. CASE matches = << >>
    BY <1>6, <2>1, MatchEndFacts DEF AsSent
  <2>2. CASE matches # << >>
    BY <1>5, <1>6, <2>2, MatchEndFacts
  <2> QED BY <2>1, <2>2
<1>7. CASE PlaceOrder \/ WriteJournal \/ PrepareResponse
  BY <1>7, QuietFacts DEF AsSent
<1>8. CASE CommitMatch
  <2> DEFINE m == matches[next].maker
  <2>1. /\ DOMAIN orders' = DOMAIN orders
        /\ \A i \in DOMAIN orders \ {m} : orders'[i] = orders[i]
        /\ orders'[m] = Traded(matches[next])
    BY <1>8, CommitFacts
  <2>2. \E lots, cost : orders'[m] = OrderTrade(orders[m], lots, cost)
    BY <2>1 DEF Traded
  <2> QED BY <1>5, <2>1, <2>2
<1> QED BY <1>1, <1>2, <1>3, <1>4, <1>6, <1>7, <1>8, StepForms DEF MatchInv

----------------------------------------------------------------------------
(* No order gives more than it has.                                        *)

\* A trade within what is left of an order keeps it balanced (Order::trade).
LEMMA TradeBalanced ==
  ASSUME NEW order \in OrderRec, Balanced(order), NEW lots \in 0 .. order.resd, NEW cost
  PROVE  /\ Balanced(OrderTrade(order, lots, cost))
         /\ OrderTrade(order, lots, cost).resd = order.resd - lots
<1>1. order.resd \in Int /\ order.exec \in Int /\ order.lots \in Int
  BY DEF OrderRec
<1> QED BY <1>1 DEF Balanced, OrderTrade

\* A match takes at least one lot, of what both sides have left (matchOrders).
LEMMA AvailableFits ==
  ASSUME TypeInv, BalanceInv, NEW m \in resting, phase = "match", Crosses(m)
  PROVE  /\ Available(m) \in 1 .. orders[m].resd
         /\ sumLots + Available(m) \in 0 .. orders[taker].resd
<1>1. m \in DOMAIN orders /\ taker \in DOMAIN orders
  BY DEF TypeInv, TypeOK
<1>2. orders[m] \in OrderRec /\ orders[taker] \in OrderRec
  BY <1>1 DEF TypeInv, TypeOK
<1>3. orders[m].resd \in Int /\ orders[taker].resd \in Int
  BY <1>2 DEF OrderRec
<1>4. orders[m].resd > 0 /\ sumLots \in 0 .. orders[taker].resd
  BY DEF BalanceInv, RestingOpen, DraftsFit
<1>5. sumLots # orders[taker].resd
  BY DEF Crosses
<1> QED BY <1>3, <1>4, <1>5 DEF Available, Least

LEMMA BalanceNext ==
  ASSUME TypeInv, MakersKnown, MatchInv, BalanceInv, MatchingIsSafe, LotsAreNatural,
         [Next]_vars
  PROVE  BalanceInv'
<1> USE DEF BalanceInv, OrdersBalanced, RestingOpen, DraftsFit, SumsBegin, Uncommitted
<1>1. CASE Stays
  BY <1>1 DEF Stays, seenVars
<1>2. CASE Aborts
  BY <1>2 DEF Aborts, seenVars
<1>3. CASE Ends
  <2>1. /\ DOMAIN orders' \subseteq DOMAIN orders
        /\ \A i \in DOMAIN orders' : orders'[i] = orders[i]
        /\ resting' \subseteq DOMAIN orders' /\ resting' \subseteq resting
    BY <1>3, EndsFacts
  <2> QED BY <1>3, <2>1 DEF Ends
<1>4. CASE Creates
  <2>1. PICK trader \in Traders, side \in Sides, ticks \in Ticks, lots \in Lots \ {0},
             minLots \in MinLots :
          /\ phase = "idle" /\ phase' = "match"
          /\ DOMAIN orders' = DOMAIN orders \cup {taker'}
          /\ orders'[taker'] = NewOrder(trader, side, ticks, lots, minLots)
          /\ \A i \in DOMAIN orders : orders'[i] = orders[i]
          /\ UNCHANGED <<resting, matches, sumLots>>
    BY <1>4, CreateFacts
  <2>2. lots \in Nat
    BY DEF LotsAreNatural
  <2>3. Balanced(orders'[taker']) /\ orders'[taker'].resd = lots
    BY <2>1, <2>2 DEF NewOrder, Balanced
  <2>4. resting \subseteq DOMAIN orders
    BY DEF TypeInv, TypeOK
  <2>5. matches = << >>
    BY <2>1 DEF MatchInv, MatchesCleared
  <2> QED BY <2>1, <2>2, <2>3, <2>4, <2>5
<1>5. ASSUME NEW m \in resting, MatchMaker(m)
      PROVE  BalanceInv'
  <2>1. PICK match \in MatchRec :
          /\ phase = "match" /\ Crosses(m)
          /\ match.maker = m /\ match.lots = Available(m)
          /\ sumLots' = sumLots + Available(m)
          /\ DOMAIN matches = 1 .. Len(matches)
          /\ DOMAIN matches' = 1 .. Len(matches) + 1 /\ Len(matches) \in Nat
          /\ \A k \in DOMAIN matches : matches'[k] = matches[k]
          /\ matches'[Len(matches) + 1] = match
          /\ UNCHANGED <<orders, resting, phase, taker>>
    BY <1>5, MatchFacts
  <2>2. \A k \in DOMAIN matches' : k \in DOMAIN matches \/ k = Len(matches) + 1
    BY <2>1
  <2>3. /\ Available(m) \in 1 .. orders[m].resd
        /\ sumLots + Available(m) \in 0 .. orders[taker].resd
    BY <2>1, AvailableFits
  <2>4. DraftsFit'
    BY <2>1, <2>2, <2>3
  <2> QED BY <2>1, <2>4
<1>6. CASE MatchEnd
  <2>1. /\ phase = "match" /\ phase' = "place" /\ taker \in DOMAIN orders
        /\ taker \notin resting /\ DOMAIN orders' = DOMAIN orders
        /\ \A i \in DOMAIN orders \ {taker} : orders'[i] = orders[i]
        /\ matches = << >> => orders' = orders
        /\ matches # << >> => orders'[taker] = OrderTrade(orders[taker], sumLots, sumCost)
        /\ UNCHANGED <<resting, matches>>
    BY <1>6, MatchEndFacts
  <2>2. Balanced(orders'[taker])
    <3>1. orders[taker] \in OrderRec
      BY <2>1 DEF TypeInv, TypeOK
    <3> QED BY <2>1, <3>1, TradeBalanced
  <2>3. OrdersBalanced'
    BY <2>1, <2>2
  <2>4. RestingOpen'
    BY <2>1 DEF TypeInv, TypeOK
  <2>5. ASSUME NEW k \in DOMAIN matches
        PROVE  matches[k].lots \in 1 .. orders'[matches[k].maker].resd
    <3>1. matches[k].maker \in resting \ {taker}
      BY <2>1 DEF MatchInv, MakersRest
    <3>2. orders'[matches[k].maker] = orders[matches[k].maker]
      BY <2>1, <3>1 DEF MakersKnown
    <3> QED BY <2>1, <3>2
  <2> QED BY <2>1, <2>3, <2>4, <2>5
<1>7. CASE PlaceOrder \/ WriteJournal \/ PrepareResponse
  <2>1. /\ UNCHANGED <<orders, matches>>
        /\ phase \in Pending /\ phase' \in {"journal", "respond", "commit"}
        /\ resting' = resting \/ (Placeable /\ resting' = resting \cup {taker})
    BY <1>7, QuietFacts
  <2>2. RestingOpen'
    BY <2>1 DEF Placeable
  <2> QED BY <2>1, <2>2
<1>8. CASE CommitMatch
  <2> DEFINE m == matches[next].maker
             lots == matches[next].lots
  <2>1. /\ phase = "commit" /\ next \in DOMAIN matches /\ next' = next + 1 /\ next \in Nat
        /\ m \in DOMAIN orders /\ DOMAIN orders' = DOMAIN orders
        /\ orders'[m] = Traded(matches[next])
        /\ \A i \in DOMAIN orders \ {m} : orders'[i] = orders[i]
        /\ lots < orders[m].resd => resting' = resting
        /\ ~(lots < orders[m].resd) => resting' = resting \ {m}
        /\ UNCHANGED <<matches, phase>>
    BY <1>8, CommitFacts
  <2>2. lots \in 1 .. orders[m].resd /\ orders[m] \in OrderRec /\ orders[m].resd \in Int
    <3>1. lots \in 1 .. orders[m].resd
      BY <2>1
    <3>2. orders[m] \in OrderRec
      BY <2>1 DEF TypeInv, TypeOK
    <3> QED BY <3>1, <3>2 DEF OrderRec
  <2>3. Balanced(orders'[m]) /\ orders'[m].resd = orders[m].resd - lots
    BY <2>1, <2>2, TradeBalanced DEF Traded
  <2>4. OrdersBalanced'
    BY <2>1, <2>3
  <2>5. RestingOpen'
    <3>1. m \in resting' => orders'[m].resd > 0
      BY <2>1, <2>2, <2>3
    <3>2. \A i \in resting' \ {m} : i \in resting /\ orders'[i] = orders[i]
      BY <2>1 DEF TypeInv, TypeOK
    <3> QED BY <3>1, <3>2
  <2>6. ASSUME NEW k \in DOMAIN matches, k >= next + 1
        PROVE  matches[k].lots \in 1 .. orders'[matches[k].maker].resd
    <3>1. k # next /\ k >= next
      BY <2>1, <2>6 DEF TypeInv, TypeOK
    <3>2. matches[k].maker # m
      BY <2>1, <3>1 DEF MatchInv, MakersDiffer
    <3>3. orders'[matches[k].maker] = orders[matches[k].maker]
      BY <2>1, <3>2 DEF MakersKnown
    <3> QED BY <2>1, <3>1, <3>3
  <2> QED BY <2>1, <2>4, <2>5, <2>6
<1> QED BY <1>1, <1>2, <1>3, <1>4, <1>5, <1>6, <1>7, <1>8, StepForms DEF MatchInv

----------------------------------------------------------------------------
(* Book and journal have only orders that sessions know.                   *)

\* Nothing but a response changes what the sessions know.
LEMMA OutstandingFacts ==
  /\ sessOrders' = sessOrders => Outstanding' = Outstanding
  /\ TypeInv /\ PrepareResponse => Outstanding' = Outstanding \cup {taker}
<1>1. ASSUME sessOrders' = sessOrders
      PROVE  Outstanding' = Outstanding
  BY <1>1 DEF Outstanding
<1>2. ASSUME TypeInv, PrepareResponse
      PROVE  Outstanding' = Outstanding \cup {taker}
  <2>1. phase = "respond" /\ sessOrders' = [sessOrders EXCEPT ![TakerTrader] = @ \cup {taker}]
    BY <1>2 DEF PrepareResponse
  <2>2. sessOrders \in [Traders -> SUBSET DOMAIN orders]
    BY <1>2 DEF TypeInv, TypeOK
  <2>3. TakerTrader \in Traders
    <3>1. orders[taker] \in OrderRec
      BY <1>2, <2>1 DEF TypeInv, TypeOK
    <3> QED BY <3>1 DEF TakerTrader, OrderRec
  <2>4. \A t \in Traders : sessOrders'[t] = IF t = TakerTrader THEN sessOrders[t] \cup {taker}
                                                             ELSE sessOrders[t]
    BY <2>1, <2>2
  <2> QED BY <2>3, <2>4 DEF Outstanding
<1> QED BY <1>1, <1>2

\* Between its creation and its response no session knows the call's order.
LEMMA TakerUnknown ==
  ASSUME TypeInv
  PROVE  /\ phase \in Pending => taker \notin Outstanding
         /\ Outstanding \subseteq DOMAIN orders
BY DEF TypeInv, TypeOK, TakerFresh, Outstanding

\* What concatenation does to two sequences.
LEMMA ConcatParts ==
  ASSUME NEW S, NEW s \in Seq(S), NEW t \in Seq(S)
  PROVE  /\ Len(s) \in Nat /\ DOMAIN s = 1 .. Len(s) /\ Len(t) \in Nat
         /\ DOMAIN (s \o t) = 1 .. Len(s) + Len(t)
         /\ \A i \in 1 .. Len(s) : (s \o t)[i] = s[i]
         /\ \A i \in 1 .. Len(t) : (s \o t)[Len(s) + i] = t[i]
OBVIOUS

\* What the call writes: its order, then maker and taker of every match.
LEMMA WriteFacts ==
  ASSUME TypeInv, WriteJournal
  PROVE  LET n == Len(journal)
         IN  /\ n \in Nat /\ DOMAIN journal = 1 .. n
             /\ Len(matches) \in Nat /\ DOMAIN matches = 1 .. Len(matches)
             /\ DOMAIN journal' = 1 .. n + (1 + 2 * Len(matches))
             /\ \A i \in DOMAIN journal : journal'[i] = journal[i]
             /\ journal'[n + 1] = created
             /\ \A k \in DOMAIN matches :
                  /\ n + 2 * k \in DOMAIN journal' /\ n + (2 * k + 1) \in DOMAIN journal'
                  /\ journal'[n + 2 * k] = matches[k].makerTrade
                  /\ journal'[n + (2 * k + 1)] = matches[k].takerTrade
             /\ \A i \in DOMAIN journal' :
                  \/ i \in DOMAIN journal \/ i = n + 1
                  \/ \E k \in DOMAIN matches : i = n + 2 * k \/ i = n + (2 * k + 1)
<1> DEFINE n == Len(journal)
           l == Len(matches)
<1>1. phase = "journal" /\ journal' = journal \o Batch
  BY DEF WriteJournal
<1>2. journal \in Seq(ExecRec)
  BY DEF TypeInv, TypeOK
<1>3. /\ l \in Nat /\ DOMAIN matches = 1 .. l
      /\ Batch \in Seq(ExecRec) /\ Len(Batch) = 1 + 2 * l
      /\ Batch[1] = created
      /\ \A k \in DOMAIN matches : /\ Batch[2 * k] = matches[k].makerTrade
                                   /\ Batch[2 * k + 1] = matches[k].takerTrade
      /\ \A i \in 2 .. Len(Batch) : \E k \in DOMAIN matches : i = 2 * k \/ i = 2 * k + 1
  BY <1>1, BatchParts
<1>4. /\ n \in Nat /\ DOMAIN journal = 1 .. n
      /\ DOMAIN journal' = 1 .. n + Len(Batch)
      /\ \A i \in 1 .. n : journal'[i] = journal[i]
      /\ \A i \in 1 .. Len(Batch) : journal'[n + i] = Batch[i]
  <2>1. PICK b \in Seq(ExecRec) : b = Batch
    BY <1>3
  <2>2. PICK j \in Seq(ExecRec) : j = journal
    BY <1>2
  <2>3. /\ Len(j) \in Nat /\ DOMAIN j = 1 .. Len(j)
        /\ DOMAIN (j \o b) = 1 .. Len(j) + Len(b)
        /\ \A i \in 1 .. Len(j) : (j \o b)[i] = j[i]
        /\ \A i \in 1 .. Len(b) : (j \o b)[Len(j) + i] = b[i]
    BY ConcatParts
  <2>4. journal' = j \o b
    BY <1>1, <2>1, <2>2
  <2> QED BY <2>1, <2>2, <2>3, <2>4, Zenon
<1> HIDE DEF n, l
<1>5. ASSUME NEW i \in DOMAIN journal'
      PROVE  \/ i \in DOMAIN journal \/ i = n + 1
             \/ \E k \in DOMAIN matches : i = n + 2 * k \/ i = n + (2 * k + 1)
  <2>1. CASE i <= n + 1
    BY <1>4, <1>5, <1>3, <2>1
  <2>2. CASE i > n + 1
    <3>1. i - n \in 2 .. Len(Batch) /\ i = n + (i - n)
      BY <1>3, <1>4, <2>2
    <3>2. PICK k \in DOMAIN matches : i - n = 2 * k \/ i - n = 2 * k + 1
      BY <1>3, <3>1
    <3> QED BY <3>1, <3>2
  <2> QED BY <1>3, <1>4, <2>1, <2>2
<1>6. ASSUME NEW k \in DOMAIN matches
      PROVE  /\ n + 2 * k \in DOMAIN journal' /\ n + (2 * k + 1) \in DOMAIN journal'
             /\ journal'[n + 2 * k] = matches[k].makerTrade
             /\ journal'[n + (2 * k + 1)] = matches[k].takerTrade
  <2>1. 2 * k \in 1 .. Len(Batch) /\ 2 * k + 1 \in 1 .. Len(Batch)
    BY <1>3, <1>6
  <2>2. n + 2 * k \in 1 .. n + Len(Batch) /\ n + (2 * k + 1) \in 1 .. n + Len(Batch)
    <3>1. \A b \in Nat : \A j \in 1 .. b : n + j \in 1 .. n + b
      BY <1>4
    <3>2. Len(Batch) \in Nat
      BY <1>3
    <3> QED BY <2>1, <3>1, <3>2
  <2>3. journal'[n + 2 * k] = Batch[2 * k] /\ journal'[n + (2 * k + 1)] = Batch[2 * k + 1]
    BY <1>4, <2>1
  <2> QED BY <1>3, <1>4, <2>2, <2>3
<1>7. journal'[n + 1] = created
  BY <1>3, <1>4
<1> QED BY <1>3, <1>4, <1>5, <1>6, <1>7 DEF n, l

LEMMA KnownNext ==
  ASSUME TypeInv, MakersKnown, MatchInv, DraftInv, KnownInv, FaultsAreUndone, [Next]_vars
  PROVE  KnownInv'
<1> USE DEF KnownInv, BookKnown, JournalKnown, Known
<1>1. CASE Stays
  BY <1>1 DEF Stays, seenVars, Outstanding
<1>2. CASE Aborts
  BY <1>2 DEF Aborts, seenVars, Outstanding
<1>3. CASE Ends
  <2>1. /\ phase' = "idle" /\ journal' = journal /\ Outstanding' = Outstanding
        /\ phase # "respond"
        /\ \/ phase \in {"idle", "commit"} /\ resting' = resting
           \/ phase \in {"place", "journal"} /\ resting' = resting \ {taker}
    BY <1>3, OutstandingFacts DEF Ends, FaultsAreUndone
  <2> QED BY <2>1
<1>4. CASE Creates
  <2>1. phase = "idle" /\ phase' = "match" /\ UNCHANGED <<resting, sessOrders, journal>>
    BY <1>4, CreateFacts
  <2> QED BY <2>1, OutstandingFacts
<1>5. ASSUME NEW m \in resting, MatchMaker(m)
      PROVE  KnownInv'
  <2>1. phase = "match" /\ UNCHANGED <<resting, sessOrders, journal, phase>>
    BY <1>5, MatchFacts
  <2> QED BY <2>1, OutstandingFacts
<1>6. CASE MatchEnd
  <2>1. /\ phase = "match" /\ phase' = "place"
        /\ UNCHANGED <<resting, sessOrders, journal>>
    BY <1>6, MatchEndFacts
  <2> QED BY <2>1, OutstandingFacts
<1>7. CASE PlaceOrder
  <2>1. /\ phase = "place" /\ phase' = "journal" /\ taker' = taker
        /\ UNCHANGED <<sessOrders, journal>> /\ resting' \subseteq resting \cup {taker}
    BY <1>7 DEF PlaceOrder, sessVars, callVars
  <2> QED BY <2>1, OutstandingFacts
<1>8. CASE WriteJournal
  <2> DEFINE n == Len(journal)
  <2>1. /\ phase = "journal" /\ phase' = "respond" /\ taker' = taker
        /\ UNCHANGED <<sessOrders, resting>>
    BY <1>8 DEF WriteJournal, bookVars, sessVars, callVars
  <2>2. Outstanding' = Outstanding
    BY <2>1, OutstandingFacts
  <2>3. BookKnown'
    BY <2>1, <2>2
  <2>4. created.orderId = taker
    BY <2>1 DEF DraftInv, TakerDrafts
  <2>5. ASSUME NEW k \in DOMAIN matches
        PROVE  /\ matches[k].makerTrade.orderId \in Outstanding
               /\ matches[k].takerTrade.orderId = taker
    <3>1. Uncommitted(k)
      BY <2>1 DEF Uncommitted
    <3>2. matches[k].makerTrade.orderId = matches[k].maker
      BY <3>1 DEF DraftInv, MakerDrafts
    <3>3. matches[k].maker \in resting \ {taker}
      BY <3>1 DEF MatchInv, MakersRest
    <3>4. matches[k].takerTrade.orderId = taker
      BY <2>1 DEF DraftInv, TakerDrafts
    <3> QED BY <2>1, <3>2, <3>3, <3>4
  <2>6. ASSUME NEW i \in DOMAIN journal'
        PROVE  journal'[i].orderId \in Outstanding \cup {taker}
    <3>1. /\ \A j \in DOMAIN journal : journal'[j] = journal[j]
          /\ journal'[n + 1] = created
          /\ \A k \in DOMAIN matches : /\ journal'[n + 2 * k] = matches[k].makerTrade
                                       /\ journal'[n + (2 * k + 1)] = matches[k].takerTrade
      BY <1>8, WriteFacts
    <3>2. \/ i \in DOMAIN journal \/ i = n + 1
          \/ \E k \in DOMAIN matches : i = n + 2 * k \/ i = n + (2 * k + 1)
      BY <1>8, WriteFacts
    <3> HIDE DEF n
    <3> QED BY <2>1, <2>4, <2>5, <3>1, <3>2
  <2>7. JournalKnown'
    BY <2>1, <2>2, <2>6
  <2> QED BY <2>3, <2>7
<1>9. CASE PrepareResponse
  <2>1. /\ phase = "respond" /\ phase' = "commit" /\ UNCHANGED <<resting, journal>>
    BY <1>9 DEF PrepareResponse, bookVars
  <2> QED BY <1>9, <2>1, OutstandingFacts
<1>10. CASE CommitMatch
  <2>1. /\ phase = "commit" /\ phase' = phase /\ resting' \subseteq resting
        /\ UNCHANGED <<sessOrders, journal>>
    BY <1>10, CommitFacts
  <2> QED BY <2>1, OutstandingFacts
<1>11. MatchesCleared /\ MatchingIsSafe
  BY DEF MatchInv, FaultsAreUndone, MatchingIsSafe
<1> QED BY <1>1, <1>2, <1>3, <1>4, <1>5, <1>6, <1>7, <1>8, <1>9, <1>10, <1>11, StepForms

----------------------------------------------------------------------------
(* The book has every order with lots left.                                *)

LEMMA OpenNext ==
  ASSUME TypeInv, MakersKnown, MatchInv, OpenResting, FaultsAreUndone, [Next]_vars
  PROVE  OpenResting'
<1> USE DEF OpenResting, Known
<1>1. CASE Stays
  BY <1>1 DEF Stays, seenVars, Outstanding
<1>2. CASE Aborts
  BY <1>2 DEF Aborts, seenVars, Outstanding
<1>3. CASE Ends
  <2>1. /\ phase' = "idle" /\ Outstanding' = Outstanding /\ phase # "respond"
        /\ \/ phase \in {"idle", "commit"} /\ resting' = resting
           \/ phase \in {"place", "journal"} /\ resting' = resting \ {taker}
    BY <1>3, OutstandingFacts DEF Ends, FaultsAreUndone
  <2>2. Outstanding' \subseteq DOMAIN orders'
    <3>1. TypeInv'
      BY TypeNext
    <3> QED BY <3>1 DEF TypeInv, TypeOK, Outstanding
  <2>3. \A i \in DOMAIN orders' : orders'[i] = orders[i]
    BY <1>3, EndsFacts
  <2>4. phase \in {"place", "journal"} => taker \notin Outstanding
    BY TakerUnknown
  <2> QED BY <2>1, <2>2, <2>3, <2>4
<1>4. CASE Creates
  <2>1. /\ phase = "idle" /\ phase' = "match" /\ UNCHANGED <<resting, sessOrders>>
        /\ \A i \in DOMAIN orders : orders'[i] = orders[i]
    BY <1>4, CreateFacts
  <2> QED BY <2>1, OutstandingFacts, TakerUnknown
<1>5. ASSUME NEW m \in resting, MatchMaker(m)
      PROVE  OpenResting'
  <2>1. phase = "match" /\ UNCHANGED <<orders, resting, sessOrders, phase>>
    BY <1>5, MatchFacts
  <2> QED BY <2>1, OutstandingFacts
<1>6. CASE MatchEnd
  <2>1. /\ phase = "match" /\ phase' = "place" /\ UNCHANGED <<resting, sessOrders>>
        /\ \A i \in DOMAIN orders \ {taker} : orders'[i] = orders[i]
    BY <1>6, MatchEndFacts
  <2> QED BY <2>1, OutstandingFacts, TakerUnknown
<1>7. CASE PlaceOrder
  <2>1. /\ phase = "place" /\ phase' = "journal" /\ UNCHANGED <<sessOrders, orders, taker>>
        /\ \/ orders[taker].resd = 0 /\ resting' = resting
           \/ Placeable /\ resting' = resting \cup {taker}
    BY <1>7 DEF PlaceOrder, Done, sessVars, callVars
  <2> QED BY <2>1, OutstandingFacts
<1>8. CASE WriteJournal
  <2>1. /\ phase = "journal" /\ phase' = "respond"
        /\ UNCHANGED <<sessOrders, orders, resting, taker>>
    BY <1>8 DEF WriteJournal, bookVars, sessVars, callVars
  <2> QED BY <2>1, OutstandingFacts
<1>9. CASE PrepareResponse
  <2>1. phase = "respond" /\ phase' = "commit" /\ UNCHANGED <<orders, resting>>
    BY <1>9 DEF PrepareResponse, bookVars
  <2> QED BY <1>9, <2>1, OutstandingFacts
<1>10. CASE CommitMatch
  <2> DEFINE m == matches[next].maker
             lots == matches[next].lots
  <2>1. /\ phase = "commit" /\ phase' = phase /\ next \in DOMAIN matches
        /\ next \in Nat /\ m \in DOMAIN orders
        /\ sessOrders' = sessOrders
        /\ orders'[m] = Traded(matches[next])
        /\ \A i \in DOMAIN orders \ {m} : orders'[i] = orders[i]
        /\ lots < orders[m].resd => resting' = resting
        /\ ~(lots < orders[m].resd) => resting' = resting \ {m}
    BY <1>10, CommitFacts
  <2>2. Outstanding' = Outstanding /\ Outstanding \subseteq DOMAIN orders
    BY <2>1, OutstandingFacts, TakerUnknown
  <2>3. m \in resting
    BY <2>1 DEF MatchInv, MakersRest, Uncommitted
  <2>4. orders'[m].resd > 0 => m \in resting'
    <3>1. orders'[m].resd = orders[m].resd - lots
      BY <2>1 DEF Traded, OrderTrade
    <3>2. orders[m].resd \in Int /\ lots \in Int
      <4>1. orders[m] \in OrderRec /\ matches[next] \in MatchRec
        BY <2>1 DEF TypeInv, TypeOK
      <4> QED BY <4>1 DEF OrderRec, MatchRec
    <3> QED BY <2>1, <2>3, <3>1, <3>2
  <2> QED BY <2>1, <2>2, <2>4
<1>11. MatchesCleared /\ MatchingIsSafe
  BY DEF MatchInv, FaultsAreUndone, MatchingIsSafe
<1> QED BY <1>1, <1>2, <1>3, <1>4, <1>5, <1>6, <1>7, <1>8, <1>9, <1>10, <1>11, StepForms

----------------------------------------------------------------------------
(* The journal shows every order as it is or will be.                      *)

\* Before the journal is written, only the first case of Restorable applies.
LEMMA ShownBefore ==
  ASSUME NEW o, Restorable(o), phase \notin {"respond", "commit"}
  PROVE  \E i \in DOMAIN journal : IsLast(i, o) /\ Shows(journal[i], orders[o])
BY DEF Restorable

\* A step that leaves an order and the journal alone, outside of a commit.
LEMMA ShownAfter ==
  ASSUME NEW o, NEW i \in DOMAIN journal, IsLast(i, o), Shows(journal[i], orders[o]),
         journal' = journal, orders'[o] = orders[o], phase' \notin {"respond", "commit"}
  PROVE  Restorable(o)'
BY DEF Restorable, IsLast, Shows

\* The batch makes the taker restorable, and every maker as its match will make
\* it; no other order's last execution changes (createOrder).
LEMMA RestoreWrite ==
  ASSUME TypeInv, MakersKnown, MatchInv, DraftInv, KnownInv, RestoreInv, WriteJournal
  PROVE  RestoreInv'
<1>0. PICK n \in Nat, l \in Nat : n = Len(journal) /\ l = Len(matches)
  BY WriteFacts
<1>1. /\ phase = "journal" /\ phase' = "respond"
      /\ UNCHANGED <<orders, sessOrders, matches, created, taker, next>>
  BY DEF WriteJournal, bookVars, sessVars, callVars
<1>2. /\ n \in Nat /\ DOMAIN journal = 1 .. n /\ l \in Nat /\ DOMAIN matches = 1 .. l
      /\ DOMAIN journal' = 1 .. n + (1 + 2 * l)
      /\ \A i \in DOMAIN journal : journal'[i] = journal[i]
      /\ journal'[n + 1] = created
      /\ \A k \in DOMAIN matches :
           /\ n + 2 * k \in DOMAIN journal' /\ n + (2 * k + 1) \in DOMAIN journal'
           /\ journal'[n + 2 * k] = matches[k].makerTrade
           /\ journal'[n + (2 * k + 1)] = matches[k].takerTrade
      /\ \A i \in DOMAIN journal' :
           \/ i \in DOMAIN journal \/ i = n + 1
           \/ \E k \in DOMAIN matches : i = n + 2 * k \/ i = n + (2 * k + 1)
  BY <1>0, WriteFacts
<1>3. /\ created.orderId = taker
      /\ \A k \in DOMAIN matches :
           /\ matches[k].makerTrade.orderId = matches[k].maker
           /\ matches[k].takerTrade.orderId = taker
           /\ matches[k].maker # taker /\ Uncommitted(k) /\ Uncommitted(k)'
           /\ \A j \in DOMAIN matches : j # k => matches[j].maker # matches[k].maker
  BY <1>1 DEF DraftInv, MakerDrafts, TakerDrafts, MatchInv, MakersRest, MakersDiffer, Uncommitted
<1>4. Outstanding' = Outstanding /\ taker \notin Outstanding
  BY <1>1, OutstandingFacts, TakerUnknown
<1>5. Restorable(taker)'
  <2> DEFINE i == n + (1 + 2 * l)
  <2>1. i \in DOMAIN journal' /\ journal'[i] = LastDraft
    <3>1. CASE l = 0
      <4>1. matches = << >>
        <5>1. matches \in Seq(MatchRec)
          BY DEF TypeInv, TypeOK
        <5>2. \A q \in Seq(MatchRec) : Len(q) = 0 => q = << >>
          OBVIOUS
        <5> QED BY <1>0, <3>1, <5>1, <5>2
      <4>2. i = n + 1
        BY <1>2, <3>1
      <4> QED BY <1>2, <3>1, <4>1, <4>2 DEF LastDraft
    <3>2. CASE l # 0
      <4>1. l \in DOMAIN matches /\ matches # << >>
        BY <1>2, <3>2
      <4>2. i = n + (2 * l + 1)
        BY <1>2
      <4> QED BY <1>0, <1>2, <4>1, <4>2 DEF LastDraft
    <3> QED BY <3>1, <3>2
  <2>2. LastDraft.orderId = taker
    <3>1. matches # << >> => Len(matches) \in DOMAIN matches
      BY <1>0, <1>2
    <3> QED BY <1>3, <3>1 DEF LastDraft
  <2>3. IsLast(i, taker)'
    <3>1. \A j \in DOMAIN journal' : j <= i
      BY <1>2
    <3> QED BY <1>1, <2>1, <2>2, <3>1 DEF IsLast
  <2>4. Shows(LastDraft, orders[taker])
    BY <1>1 DEF DraftInv, LastDraftShows
  <2>5. Shows(journal'[i], orders'[taker'])
    BY <1>1, <2>1, <2>4
  <2> QED BY <1>1, <1>3, <2>1, <2>3, <2>5 DEF Restorable, Shows
<1>6. ASSUME NEW o \in Outstanding
      PROVE  Restorable(o)'
  <2>1. o # taker
    BY <1>4
  <2>2. PICK i \in DOMAIN journal : IsLast(i, o) /\ Shows(journal[i], orders[o])
    BY <1>1, ShownBefore DEF RestoreInv, Written
  <2>3. CASE \E k \in DOMAIN matches : matches[k].maker = o
    <3>1. PICK k \in DOMAIN matches : matches[k].maker = o
      BY <2>3
    <3>2. n + 2 * k \in DOMAIN journal' /\ journal'[n + 2 * k] = matches[k].makerTrade
      BY <1>2
    <3>3. ASSUME NEW j \in DOMAIN journal', journal'[j].orderId = o
          PROVE  j <= n + 2 * k
      <4>1. CASE j \in DOMAIN journal
        BY <1>2, <4>1
      <4>2. CASE j = n + 1
        BY <1>2, <1>3, <2>1, <3>3, <4>2
      <4>3. ASSUME NEW h \in DOMAIN matches, j = n + 2 * h
            PROVE  j <= n + 2 * k
        <5>1. matches[h].maker = o
          BY <1>2, <1>3, <3>3, <4>3
        <5>2. h = k
          BY <1>3, <3>1, <5>1
        <5> QED BY <1>2, <4>3, <5>2
      <4>4. ASSUME NEW h \in DOMAIN matches, j = n + (2 * h + 1)
            PROVE  FALSE
        BY <1>2, <1>3, <2>1, <3>3, <4>4
      <4> QED BY <1>2, <4>1, <4>2, <4>3, <4>4
    <3>4. IsLast(n + 2 * k, o)'
      <4>1. matches[k].makerTrade.orderId = o
        BY <1>3, <3>1
      <4> QED BY <3>2, <3>3, <4>1 DEF IsLast
    <3> QED BY <1>1, <1>3, <3>1, <3>2, <3>4 DEF Restorable
  <2>4. CASE \A k \in DOMAIN matches : matches[k].maker # o
    <3>1. i \in DOMAIN journal' /\ journal'[i] = journal[i]
      BY <1>2
    <3>2. ASSUME NEW j \in DOMAIN journal', journal'[j].orderId = o
          PROVE  j <= i
      <4>1. CASE j \in DOMAIN journal
        BY <1>2, <2>2, <3>2, <4>1 DEF IsLast
      <4>2. CASE j = n + 1
        BY <1>2, <1>3, <2>1, <3>2, <4>2
      <4>3. ASSUME NEW h \in DOMAIN matches, j = n + 2 * h \/ j = n + (2 * h + 1)
            PROVE  FALSE
        <5>1. matches[h].makerTrade.orderId # o /\ matches[h].takerTrade.orderId # o
          BY <1>3, <2>1, <2>4
        <5>2. /\ journal'[n + 2 * h] = matches[h].makerTrade
              /\ journal'[n + (2 * h + 1)] = matches[h].takerTrade
          BY <1>2
        <5> QED BY <3>2, <4>3, <5>1, <5>2
      <4> QED BY <1>2, <4>1, <4>2, <4>3
    <3>3. IsLast(i, o)'
      BY <2>2, <3>1, <3>2 DEF IsLast
    <3>4. Shows(journal'[i], orders'[o])
      BY <1>1, <2>2, <3>1
    <3> QED BY <1>1, <2>4, <3>1, <3>3, <3>4 DEF Restorable, Shows
  <2> QED BY <2>3, <2>4
<1>7. ASSUME NEW o \in Written'
      PROVE  Restorable(o)'
  <2>1. o \in Outstanding \/ o = taker'
    BY <1>1, <1>4 DEF Written
  <2> QED BY <1>1, <1>5, <1>6, <2>1
<1> QED BY <1>7 DEF RestoreInv

LEMMA RestoreNext ==
  ASSUME TypeInv, MakersKnown, MatchInv, DraftInv, KnownInv, RestoreInv,
         FaultsAreUndone, [Next]_vars
  PROVE  RestoreInv'
<1> USE DEF RestoreInv, Written
<1>1. CASE Stays
  BY <1>1 DEF Stays, seenVars, Outstanding, Restorable, IsLast, Shows, Uncommitted
<1>2. CASE Aborts
  BY <1>2 DEF Aborts
<1>3. CASE Ends
  <2>1. /\ phase' = "idle" /\ journal' = journal /\ Outstanding' = Outstanding
        /\ \/ phase \in {"idle", "place", "journal"}
           \/ phase = "commit" /\ next > Len(matches)
    BY <1>3, OutstandingFacts DEF Ends, FaultsAreUndone
  <2>2. ASSUME NEW o \in Outstanding
        PROVE  Restorable(o)'
    <3>1. \E i \in DOMAIN journal : IsLast(i, o) /\ Shows(journal[i], orders[o])
      <4>1. CASE phase \in {"idle", "place", "journal"}
        BY <4>1, ShownBefore
      <4>2. CASE phase = "commit" /\ next > Len(matches)
        <5>1. \A k \in DOMAIN matches : ~ Uncommitted(k)
          BY <4>2 DEF Uncommitted, TypeInv, TypeOK
        <5> QED BY <4>2, <5>1 DEF Restorable
      <4> QED BY <2>1, <4>1, <4>2
    <3>2. orders'[o] = orders[o]
      <4>1. o \in DOMAIN orders'
        <5>1. TypeInv'
          BY TypeNext
        <5> QED BY <2>1, <5>1 DEF TypeInv, TypeOK, Outstanding
      <4> QED BY <1>3, <4>1, EndsFacts
    <3> QED BY <2>1, <3>1, <3>2, ShownAfter
  <2> QED BY <2>1, <2>2
<1>4. ASSUME phase \in {"idle", "match", "place"}, phase' \in {"match", "place", "journal"},
             UNCHANGED <<sessOrders, journal>>,
             \A o \in Outstanding : orders'[o] = orders[o]
      PROVE  RestoreInv'
  <2>1. ASSUME NEW o \in Outstanding
        PROVE  Restorable(o)'
    <3>1. PICK i \in DOMAIN journal : IsLast(i, o) /\ Shows(journal[i], orders[o])
      BY <1>4, ShownBefore
    <3> QED BY <1>4, <3>1, ShownAfter
  <2> QED BY <1>4, <2>1, OutstandingFacts
<1>5. CASE Creates
  <2>1. /\ phase = "idle" /\ phase' = "match" /\ UNCHANGED <<sessOrders, journal>>
        /\ \A i \in DOMAIN orders : orders'[i] = orders[i]
    BY <1>5, CreateFacts
  <2> QED BY <1>4, <2>1, TakerUnknown
<1>6. ASSUME NEW m \in resting, MatchMaker(m)
      PROVE  RestoreInv'
  BY <1>4, <1>6, MatchFacts
<1>7. CASE MatchEnd
  <2>1. /\ phase = "match" /\ phase' = "place" /\ UNCHANGED <<sessOrders, journal>>
        /\ \A i \in DOMAIN orders \ {taker} : orders'[i] = orders[i]
    BY <1>7, MatchEndFacts
  <2> QED BY <1>4, <2>1, TakerUnknown
<1>8. CASE PlaceOrder
  BY <1>4, <1>8 DEF PlaceOrder, sessVars
<1>9. CASE WriteJournal
  BY <1>9, RestoreWrite
<1>10. CASE PrepareResponse
  <2>1. /\ phase = "respond" /\ phase' = "commit" /\ next' = 1
        /\ UNCHANGED <<orders, journal, matches>>
    BY <1>10 DEF PrepareResponse, bookVars
  <2>2. Written' = Written
    BY <1>10, <2>1, OutstandingFacts
  <2>3. \A k \in DOMAIN matches : Uncommitted(k) /\ Uncommitted(k)'
    BY <2>1 DEF Uncommitted, TypeInv, TypeOK
  <2> QED BY <2>1, <2>2, <2>3 DEF Restorable, IsLast, Shows
<1>11. CASE CommitMatch
  <2> DEFINE m == matches[next].maker
  <2>1. /\ phase = "commit" /\ phase' = phase /\ next \in DOMAIN matches /\ next \in Nat
        /\ next' = next + 1 /\ orders'[m] = Traded(matches[next])
        /\ \A i \in DOMAIN orders \ {m} : orders'[i] = orders[i]
        /\ UNCHANGED <<sessOrders, journal, matches>>
    BY <1>11, CommitFacts
  <2>2. /\ Uncommitted(next)
        /\ \A k \in DOMAIN matches :
             /\ k \in Nat
             /\ Uncommitted(k)' <=> Uncommitted(k) /\ k # next
             /\ k # next => matches[k].maker # m
    BY <2>1 DEF Uncommitted, MatchInv, MakersDiffer, TypeInv, TypeOK
  <2>3. ASSUME NEW o \in Outstanding
        PROVE  Restorable(o)'
    <3>1. PICK i \in DOMAIN journal :
            /\ IsLast(i, o)
            /\ \/ /\ Shows(journal[i], orders[o])
                  /\ \A k \in DOMAIN matches : Uncommitted(k) => matches[k].maker # o
               \/ \E k \in DOMAIN matches :
                    Uncommitted(k) /\ matches[k].maker = o /\ journal[i] = matches[k].makerTrade
      BY <2>1 DEF Restorable
    <3>2. i \in DOMAIN journal' /\ IsLast(i, o)'
      BY <2>1, <3>1 DEF IsLast
    <3>3. CASE /\ Shows(journal[i], orders[o])
               /\ \A k \in DOMAIN matches : Uncommitted(k) => matches[k].maker # o
      <4>1. orders'[o] = orders[o]
        BY <2>1, <2>2, <3>3, TakerUnknown
      <4>2. Shows(journal[i], orders[o])'
        BY <2>1, <3>3, <4>1 DEF Shows
      <4> QED BY <2>1, <2>2, <3>2, <3>3, <4>2 DEF Restorable
    <3>4. ASSUME NEW k \in DOMAIN matches, Uncommitted(k), matches[k].maker = o,
                 journal[i] = matches[k].makerTrade
          PROVE  Restorable(o)'
      <4>1. CASE k = next
        <5>1. Shows(matches[next].makerTrade, Traded(matches[next]))
          BY <2>1, <2>2 DEF DraftInv, MakerDrafts
        <5>2. Shows(journal'[i], orders'[o])
          BY <2>1, <3>4, <4>1, <5>1
        <5>3. \A j \in DOMAIN matches : Uncommitted(j)' => matches[j].maker # o
          BY <2>2, <3>4, <4>1
        <5> QED BY <2>1, <3>2, <5>2, <5>3 DEF Restorable, Shows
      <4>2. CASE k # next
        <5>1. Uncommitted(k)'
          BY <2>2, <3>4, <4>2
        <5> QED BY <2>1, <3>2, <3>4, <5>1 DEF Restorable
      <4> QED BY <4>1, <4>2
    <3> QED BY <3>1, <3>3, <3>4
  <2> QED BY <2>1, <2>3, OutstandingFacts
<1>12. MatchesCleared /\ MatchingIsSafe
  BY DEF MatchInv, FaultsAreUndone, MatchingIsSafe
<1> QED BY <1>1, <1>2, <1>3, <1>5, <1>6, <1>7, <1>8, <1>9, <1>10, <1>11, <1>12, StepForms

----------------------------------------------------------------------------
(* The theorems.                                                           *)

\* What holds of the drafts whenever matching does not throw.
DraftsInv == TypeInv /\ MakersKnown /\ MatchInv /\ DraftInv

LEMMA InitDrafts == Init => DraftsInv
<1> SUFFICES ASSUME Init PROVE DraftsInv
  OBVIOUS
<1>1. phase = "idle" /\ matches = << >> /\ DOMAIN matches = {}
  BY DEF Init
<1>2. TypeInv
  BY InitTypeInv
<1>3. MakersKnown /\ MatchInv /\ DraftInv
  BY <1>1 DEF MakersKnown, MatchInv, MatchesCleared, MakersRest, MakersDiffer, MakersWalked,
              DraftInv, MakerDrafts, TakerDrafts, LastDraftShows
<1> QED BY <1>2, <1>3 DEF DraftsInv

LEMMA DraftsNext ==
  ASSUME DraftsInv, MatchingIsSafe, [Next]_vars
  PROVE  DraftsInv'
BY TypeNext, MakersKnownNext, MatchNext, DraftNext DEF DraftsInv

\* Nothing rests, is known or is written at the start.
LEMMA InitBook == Init => /\ AsSent /\ BalanceInv /\ KnownInv /\ OpenResting /\ RestoreInv
<1> SUFFICES ASSUME Init
             PROVE  AsSent /\ BalanceInv /\ KnownInv /\ OpenResting /\ RestoreInv
  OBVIOUS
<1>1. /\ phase = "idle" /\ DOMAIN orders = {} /\ resting = {} /\ DOMAIN journal = {}
      /\ DOMAIN matches = {} /\ sumLots = 0 /\ Outstanding = {}
  BY DEF Init, Outstanding
<1>2. AsSent /\ BalanceInv
  BY <1>1 DEF AsSent, BalanceInv, OrdersBalanced, RestingOpen, DraftsFit, SumsBegin
<1>3. KnownInv /\ OpenResting /\ RestoreInv
  BY <1>1 DEF KnownInv, BookKnown, JournalKnown, Known, OpenResting, RestoreInv, Written
<1> QED BY <1>2, <1>3

LEMMA UndoneIsSafe == FaultsAreUndone => MatchingIsSafe
BY DEF FaultsAreUndone, MatchingIsSafe

\* When only those points of a call fail whose failure createOrder undoes (the
\* creation, a new level, the journal), a failed call leaves no order in the book
\* and no execution in the journal that its trader's session does not know.
THEOREM FailedCallsLeaveNothing ==
  ASSUME FaultsAreUndone
  PROVE  Spec => []AllOrNothing
<1>1. Init => DraftsInv /\ KnownInv
  BY InitDrafts, InitBook
<1>2. DraftsInv /\ KnownInv /\ [Next]_vars => (DraftsInv /\ KnownInv)'
  <2> SUFFICES ASSUME DraftsInv, KnownInv, [Next]_vars
               PROVE  (DraftsInv /\ KnownInv)'
    OBVIOUS
  <2>1. DraftsInv'
    BY DraftsNext, UndoneIsSafe
  <2>2. KnownInv'
    BY KnownNext DEF DraftsInv
  <2> QED BY <2>1, <2>2
<1>3. DraftsInv /\ KnownInv => AllOrNothing
  BY DEF KnownInv, BookKnown, JournalKnown, Known, AllOrNothing
<1> QED BY <1>1, <1>2, <1>3, PTL DEF Spec

\* With natural quantities and the same failures, no order ever gives or owes more
\* than it has, and between calls it is in the book exactly while lots are left
\* (matchOrders, commitMatches, Order::trade).
THEOREM OrdersStayBalanced ==
  ASSUME FaultsAreUndone, LotsAreNatural
  PROVE  Spec => []OrdersBalance
<1> DEFINE Inv == DraftsInv /\ KnownInv /\ BalanceInv /\ OpenResting
<1>1. Init => Inv
  BY InitDrafts, InitBook
<1>2. Inv /\ [Next]_vars => Inv'
  <2> SUFFICES ASSUME DraftsInv, KnownInv, BalanceInv, OpenResting, [Next]_vars
               PROVE  Inv'
    OBVIOUS
  <2>1. DraftsInv'
    BY DraftsNext, UndoneIsSafe
  <2>2. KnownInv' /\ OpenResting'
    BY KnownNext, OpenNext DEF DraftsInv
  <2>3. BalanceInv'
    BY BalanceNext, UndoneIsSafe DEF DraftsInv
  <2> QED BY <2>1, <2>2, <2>3
<1>3. Inv => OrdersBalance
  <2> SUFFICES ASSUME KnownInv, BalanceInv, OpenResting
               PROVE  OrdersBalance
    OBVIOUS
  <2>1. Idle => Known = Outstanding
    BY DEF Known
  <2>2. Idle => resting = {i \in Outstanding : orders[i].resd > 0}
    BY <2>1 DEF KnownInv, BookKnown, BalanceInv, RestingOpen, OpenResting
  <2> QED BY <2>2 DEF OrdersBalance, BalanceInv, OrdersBalanced, Balanced
<1> QED BY <1>1, <1>2, <1>3, PTL DEF Spec

\* An order that has kept its balance and was sent with sane values passes the
\* assertions of insertOrder, and a match those of the commit.
LEMMA NothingAborts ==
  ASSUME DraftsInv, AsSent, BalanceInv, OrdersAreSane, PlaceAborts \/ CommitAborts
  PROVE  FALSE
<1>1. ASSUME PlaceAborts
      PROVE  FALSE
  <2>1. phase = "place" /\ orders[taker].resd # 0 /\ ~ Placeable
    BY <1>1 DEF PlaceAborts, Done
  <2>2. taker \in DOMAIN orders /\ orders[taker] \in OrderRec
    BY <2>1 DEF DraftsInv, TypeInv, TypeOK
  <2>3. /\ orders[taker].resd \in Int /\ orders[taker].exec \in Int
        /\ orders[taker].lots \in Nat \ {0} /\ orders[taker].minLots \in Nat
        /\ orders[taker].ticks # 0
    BY <2>2 DEF OrderRec, AsSent, OrdersAreSane, LotsAreNatural
  <2>4. Balanced(orders[taker])
    BY <2>2 DEF BalanceInv, OrdersBalanced
  <2> QED BY <2>1, <2>3, <2>4 DEF Placeable, Balanced
<1>2. ASSUME CommitAborts
      PROVE  FALSE
  <2>1. /\ phase = "commit" /\ next <= Len(matches) /\ ~ Committable(matches[next])
    BY <1>2 DEF CommitAborts
  <2>2. next \in DOMAIN matches /\ next \in Nat
    BY <2>1 DEF DraftsInv, TypeInv, TypeOK, MakersKnown
  <2>3. matches[next].lots \in 0 .. orders[matches[next].maker].resd
    BY <2>1, <2>2 DEF BalanceInv, DraftsFit, Uncommitted
  <2>4. matches[next].takerTrade.trader = TakerTrader
    BY <2>1, <2>2 DEF DraftsInv, DraftInv, TakerDrafts, TakerTrader
  <2> QED BY <2>1, <2>3, <2>4 DEF Committable
<1> QED BY <1>1, <1>2

\* Unless matching throws, requests with natural quantities and minimum and a price
\* other than zero never make the engine fail an assertion (BookSide::insertOrder,
\* reduceLevel, TraderSess::insertTrade).
THEOREM AssertionsHold ==
  ASSUME MatchingIsSafe, OrdersAreSane
  PROVE  Spec => []NeverAborts
<1> DEFINE Inv == DraftsInv /\ AsSent /\ BalanceInv /\ NeverAborts
<1>1. Init => Inv
  BY InitDrafts, InitBook DEF Init, NeverAborts
<1>2. Inv /\ [Next]_vars => Inv'
  <2> SUFFICES ASSUME DraftsInv, AsSent, BalanceInv, NeverAborts, [Next]_vars
               PROVE  Inv'
    OBVIOUS
  <2>1. DraftsInv'
    BY DraftsNext
  <2>2. AsSent'
    BY SentNext DEF DraftsInv
  <2>3. BalanceInv'
    BY BalanceNext DEF DraftsInv, OrdersAreSane
  <2>4. ~ (PlaceAborts \/ CommitAborts)
    BY NothingAborts
  <2>5. NeverAborts'
    <3>1. CASE UNCHANGED vars
      BY <3>1 DEF vars, NeverAborts
    <3>2. CASE Request
      BY <3>2 DEF Request, Reject, CreateThrows, CreateOrder, Leave, NeverAborts
    <3>3. CASE Step
      BY <2>4, <3>3
        DEF Step, Match, MatchMaker, MatchThrows, MatchEnd, PlaceOrder, PlaceThrows,
            WriteJournal, JournalThrows, PrepareResponse, ResponseThrows, CommitMatch,
            Return, Leave, NeverAborts
    <3> QED BY <3>1, <3>2, <3>3 DEF Next
  <2> QED BY <2>1, <2>2, <2>3, <2>5
<1>3. Inv => NeverAborts
  OBVIOUS
<1> QED BY <1>1, <1>2, <1>3, PTL DEF Spec

\* When only those points fail that createOrder undoes, the last execution written
\* for an order shows its state, residual, executed lots and cost between calls,
\* although it was made and written before the order changed (newMatch, commitMatches).
THEOREM JournalIsEnough ==
  ASSUME FaultsAreUndone
  PROVE  Spec => []JournalRestoresOrders
<1> DEFINE Inv == DraftsInv /\ KnownInv /\ RestoreInv
<1>1. Init => Inv
  BY InitDrafts, InitBook
<1>2. Inv /\ [Next]_vars => Inv'
  <2> SUFFICES ASSUME DraftsInv, KnownInv, RestoreInv, [Next]_vars
               PROVE  Inv'
    OBVIOUS
  <2>1. DraftsInv'
    BY DraftsNext, UndoneIsSafe
  <2>2. KnownInv' /\ RestoreInv'
    BY KnownNext, RestoreNext DEF DraftsInv
  <2> QED BY <2>1, <2>2
<1>3. Inv => JournalRestoresOrders
  <2> SUFFICES ASSUME DraftsInv, KnownInv, RestoreInv, Idle
               PROVE  JournalRestoresOrders
    BY DEF JournalRestoresOrders
  <2>1. ASSUME NEW o \in Outstanding
        PROVE  \E i \in DOMAIN journal : IsLast(i, o) /\ Shows(journal[i], orders[o])
    BY <2>1, ShownBefore DEF RestoreInv, Written
  <2>2. {journal[i].orderId : i \in DOMAIN journal} = Outstanding
    BY <2>1 DEF KnownInv, JournalKnown, IsLast
  <2>3. ASSUME NEW o \in Outstanding
        PROVE  LET last == journal[Max({i \in DOMAIN journal : journal[i].orderId = o})]
               IN  Shows(last, orders[o])
    <3> DEFINE S == {i \in DOMAIN journal : journal[i].orderId = o}
    <3>1. PICK i \in DOMAIN journal : IsLast(i, o) /\ Shows(journal[i], orders[o])
      BY <2>1
    <3>2. S \subseteq Nat
      BY DEF DraftsInv, TypeInv, TypeOK
    <3>3. i \in S /\ \A j \in S : j <= i
      BY <3>1 DEF IsLast
    <3>4. Max(S) = i
      <4> HIDE DEF S
      <4>1. i \in S /\ \A k \in S : i >= k
        BY <3>2, <3>3
      <4>2. Max(S) \in S /\ \A k \in S : Max(S) >= k
        BY <4>1, Zenon DEF Max
      <4>3. Max(S) \in Nat /\ i \in Nat /\ Max(S) >= i /\ i >= Max(S)
        BY <3>2, <4>1, <4>2
      <4> QED BY <4>3
    <3> QED BY <3>1, <3>4
  <2> QED BY <2>2, <2>3 DEF JournalRestoresOrders, Shows
<1> QED BY <1>1, <1>2, <1>3, PTL DEF Spec
=============================================================================
