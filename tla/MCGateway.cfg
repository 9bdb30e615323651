SPECIFICATION GatewayFairSpec
CONSTANTS
  Clients = {c1, c2}
  MaxConnections = 1
  MaxBytes = 1
INVARIANTS
  PermitsAddUp
  NothingCutOff
PROPERTIES
  PermitReturns
  ClientsAreServed
CHECK_DEADLOCK FALSE
