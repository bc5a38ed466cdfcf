SPECIFICATION FairSpec
CONSTANTS
  Peers = {alice, bob}
  Faults = {"none", "incompatible"}
  MaxAudio = 1
PROPERTIES StopsWaiting
CHECK_DEADLOCK FALSE
