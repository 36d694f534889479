\* Every URI of up to five parts below /api: the deepest resource has four.
SPECIFICATION Spec
CONSTANTS
  Parts <- AllParts
  NameParts <- SomeParts
  MaxParts = 5
INVARIANTS
  TokensAreParts
  ServedAsDocumented
  RefusalsTellWhatIsThere
CHECK_DEADLOCK FALSE
