\* Four orders, two traders, two prices; every failure that createOrder undoes.
SPECIFICATION Spec
CONSTANTS
  Traders = {a, b}
  NoTrader = NoTrader
  Ticks = {1, 2}
  Lots = {0, 1, 2}
  MinLots = {0}
  Days = {1, 2}
  ExpiryDay = 1
  Faults <- Undone
  MaxOrders = 4
SYMMETRY TraderSymmetry
INVARIANTS
  TypeOK
  OrdersBalance
  JournalRestoresOrders
  MatchesCleared
  AllOrNothing
  ResponseFits
  NeverAborts
PROPERTIES
  ImplementsMatching
