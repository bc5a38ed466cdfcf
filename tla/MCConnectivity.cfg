SPECIFICATION Spec
CONSTANTS
  r1 = r1
  r2 = r2
  Relays <- MCRelays
  ConfigUseTCP = TRUE
  Extras <- MCExtras
  PongSeqs <- MCPongSeqs
  MaxChanges = 2
  MaxMissed = 2
INVARIANTS
  TypeOK
  SelectedEndpointsExist
  OneChainOfPings
PROPERTIES
  VerdictAfterPings
  UdpIsJudged
CHECK_DEADLOCK FALSE
