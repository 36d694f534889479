\* Memory runs out while matching: the matches made so far stay for the next call.
SPECIFICATION Spec
CONSTANTS
  Traders = {a, b}
  NoTrader = NoTrader
  Ticks = {1, 2}
  Lots = {1, 2}
  MinLots = {0}
  Days = {1}
  ExpiryDay = 0
  Faults = {"match"}
  MaxOrders = 4
INVARIANT
  MatchesCleared
CHECK_DEADLOCK FALSE
