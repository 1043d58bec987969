SPECIFICATION Spec
CONSTANTS
  MaxStarts = 2
  MaxSockets = 4
  MaxBlobs = 1
  Blob = {"auth_success", "envelope"}
  Null = Null
CHECK_DEADLOCK FALSE
INVARIANTS
  TypeOK
  OneChainPerStart
  AuthenticatedHasSession
  SendsGoToSession
PROPERTIES
  ComesBack
