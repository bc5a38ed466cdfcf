SPECIFICATION DeliverySpec
CONSTANTS
  Peers = {alice, bob}
  Faults = {"none"}
  MaxAudio = 1
PROPERTIES AnswerArrives
CHECK_DEADLOCK FALSE
