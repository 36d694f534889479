\* One client that waits for its answers beside one that does not.
SPECIFICATION Spec
CONSTANTS
  Conns = {p, e}
  Patient = {p}
  Listener = Listener
  Kinds = {"get", "order"}
  MaxRequests = 2
INVARIANTS
  AnswersInOrder
  ServedOnceInOrder
PROPERTIES
  ImplementsRequestReply
CHECK_DEADLOCK FALSE
