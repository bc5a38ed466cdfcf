SPECIFICATION Spec
CONSTANTS
  Peers = {alice, bob}
  Faults = {"none", "playback", "capture", "socket", "incompatible"}
  MaxAudio = 1
SYMMETRY Symmetry
INVARIANTS TypeOK OnlyAnsweredEstablished AudioNeedsSetup AudioFindsItsStream
PROPERTIES RevivedOnlyByFirstAudio
CHECK_DEADLOCK FALSE
