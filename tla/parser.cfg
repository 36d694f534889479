\* Every body of up to ten tokens over a field of each kind, with spaces anywhere.
SPECIFICATION Spec
CONSTANTS
  Fields = {"mnem", "lots", "settlDate", "state", "side"}
  Kind <- OneOfEach
  Names = {"BUY", "SELL"}
  Digits = {9}
  MaxStr = 2
  Long = 8
  Int32 = 5
  Spaces <- Space
  MaxTokens = 10
INVARIANTS
  TypeOK
  CompleteIsUnderstood
  PairsAreAccepted
CHECK_DEADLOCK FALSE
