\* Three orders at three prices, of up to two lots.
SPECIFICATION Spec
CONSTANTS
  Orders = {o1, o2, o3}
  Ticks = {1, 2, 3}
  MaxLots = 2
  NoLevel = NoLevel
SYMMETRY OrderSymmetry
INVARIANTS
  LevelsAggregate
  PointersLive
  BestPriceFirst
PROPERTIES
  ImplementsPriceTime
