\* A client sends negative lots with as small a minimum, or an order at price zero.
SPECIFICATION Spec
CONSTANTS
  Traders = {a, b}
  NoTrader = NoTrader
  Ticks = {0, 1}
  Lots <- NegativeLots
  MinLots <- NegativeMin
  Days = {1}
  ExpiryDay = 0
  Faults <- NoPoints
  MaxOrders = 2
INVARIANT
  NeverAborts
CHECK_DEADLOCK FALSE
