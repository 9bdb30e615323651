SPECIFICATION Spec
CONSTANTS
  MaxDrawn = 4
  NoIdentity = NoIdentity
INVARIANTS
  NamedOrArchived
  RetiredForGood
PROPERTIES
  RestartKeepsOrHashes
CHECK_DEADLOCK FALSE
