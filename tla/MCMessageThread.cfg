SPECIFICATION Spec

CONSTANTS
  receiver = receiver
  loopThread = loopThread
  Threads <- MCThreads
  Loop = loopThread
  Delays <- MCDelays
  Intervals <- MCIntervals
  Heartbeat = 2
  Longest = 2
  MaxPosts = 2
  MaxLate = 1

CHECK_DEADLOCK FALSE

INVARIANTS
  TypeOK
  DueInOrder

PROPERTIES
  EveryMessageIsDelivered
  StopReturns
  KeepsItsPromises
