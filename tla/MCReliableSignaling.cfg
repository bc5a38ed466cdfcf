SPECIFICATION Spec
CONSTANTS
  Streams <- MCStreams
  signaling = signaling
  audio = audio
  MaxSeq <- MCMaxSeq
  MaxVersion = 3
  Tries <- MCTries
  History = 2
INVARIANTS
  TypeOK
  InForceIsLastHandled
PROPERTIES
  KeepsTheLatestValue
  LeavesForAReason
CHECK_DEADLOCK FALSE
