SPECIFICATION Spec

CONSTANTS
  signaling = signaling
  audio = audio
  Streams <- MCStreams
  Best = audio
  SlotCount = 2
  LostAfter = 1
  MaxAge = 2
  LossTimeouts <- MCLossTimeouts
  Sizes <- MCSizes
  MaxNumbered = 2
  MaxTransmissions = 4
  SeqMod = 16
  MaskBits = 2
  MaxRecent = 2

INVARIANTS
  TypeOK
  OneSlotPerPacket
  InflightSizeExact
  LossesCountedOnce
  SettledIsNotInFlight
  SendLossesCovered
