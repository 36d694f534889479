\* A market, and two traders that may share an email when they are loaded, two days.
SPECIFICATION RestSpec
CONSTANTS
  Mnems = {"A", "B", "bad"}
  WellFormed = {"A", "B"}
  Contrs = {"c"}
  AnyContrs = {"c", "unknown"}
  Displays = {"d"}
  Emails = {"e", ""}
  NoEmail = ""
  States = {0, 1}
  Days <- MarketDays
  BusDays <- BothDays
  Assets = {"x"}
  Fields <- AllFields
  Zeros <- ZeroValues
  Requests <- SomeRequests
  NoUser = NoUser
INVARIANTS
  EmailIndexAgrees
  MarketDaysOrdered
  AcceptedHaveFields
  DatesReadBack
PROPERTIES
  NewEmailIsUnused
  RefusedKeepsRegistry
  CreatedAsAsked
  ImplementsRegistry
CHECK_DEADLOCK FALSE
