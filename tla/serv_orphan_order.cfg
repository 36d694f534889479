\* The response cannot be allocated after the journal is written.
SPECIFICATION Spec
CONSTANTS
  Traders = {a, b}
  NoTrader = NoTrader
  Ticks = {1, 2}
  Lots = {1, 2}
  MinLots = {0}
  Days = {1}
  ExpiryDay = 0
  Faults = {"reserve"}
  MaxOrders = 3
INVARIANT
  AllOrNothing
CHECK_DEADLOCK FALSE
