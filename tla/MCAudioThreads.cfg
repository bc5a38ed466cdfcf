SPECIFICATION Spec
CONSTANTS
  Buffers <- MCBuffers
  Capacity <- MCCapacity
  PacketsPerFrame <- MCPacketsPerFrame
INVARIANTS
  TypeOK
  PermitsConserved
  PoolsFailOnlyWhenExhausted
  OverfullOnlyAtStop
PROPERTY
  EverybodyReturns
CHECK_DEADLOCK FALSE
