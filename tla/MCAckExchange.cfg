SPECIFICATION Spec

CONSTANTS
  caller = caller
  callee = callee
  Peers <- MCPeers
  MaxSeq <- MCMaxSeq
  SeqMod = 64
  MaskBits = 2
  MaxRecent = 4

INVARIANTS
  TypeOK
  WindowExact
  AcceptedOnce
  AckTruthful

PROPERTIES
  AckNeverRollsBack
