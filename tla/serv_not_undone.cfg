\* Four orders of two traders, at a price and at price zero, at which no order can
\* rest; the points throw after which matches, or the order, are left behind.
SPECIFICATION FairSpec
CONSTANTS
  Traders = {a, b}
  NoTrader = NoTrader
  Ticks = {0, 2}
  Lots = {1, 2}
  MinLots = {0}
  Days = {1}
  ExpiryDay = 0
  Faults <- NotUndone
  MaxOrders = 4
INVARIANTS
  PositionsAreTrades
  JournalFirst
  TradesPaired
PROPERTIES
  CallsEnd
CHECK_DEADLOCK FALSE
