SPECIFICATION Spec

CONSTANTS
  SlotCount = 3
  UIntMod = 24
  NoFrame = NoFrame
  LastTime = 4
  LastFetch = 4
  Reordering = 1
  EcSpan = 1
  MinDelays <- MCMinDelays
  DelayLimit = 1
  LossesToReset = 2
  GotPerDelay = 1

CHECK_DEADLOCK FALSE

INVARIANTS
  TypeOK
  ExactWhileAligned
  LossesSinceReset

PROPERTIES
  BackOnlyToRestart
