SPECIFICATION Spec
CONSTANTS
  r1 = r1
  r2 = r2
  Relays <- MCRelays
  ConfigUseTCP = TRUE
  Extras <- MCPongs
  PongSeqs <- MCAnyPongSeqs
  MaxChanges = 2
  MaxMissed = 2
PROPERTY
  AvailableRelayIsSwitchedTo
CHECK_DEADLOCK FALSE
