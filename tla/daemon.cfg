\* A client that waits for its answers, signals at every moment, one hangup.
SPECIFICATION FairDaemonSpec
CONSTANTS
  Conns = {p}
  Patient = {p}
  Listener = Listener
  Kinds <- AllKinds
  MaxRequests = 2
  MaxHangups = 1
INVARIANTS
  MainTypeOK
  OnlyWholeRequestsTakeEffect
  ReopensAreAsked
  StopsOnlyWhenTold
  ServerOutlivesLoop
PROPERTIES
  WaitingClientIsAnswered
  RepeatedStopIsObeyed
CHECK_DEADLOCK FALSE
