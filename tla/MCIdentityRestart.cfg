SPECIFICATION Spec
CONSTANTS
  MaxDrawn = 1
  NoIdentity = NoIdentity
PROPERTIES
  IdentitySurvivesRestart
CHECK_DEADLOCK FALSE
