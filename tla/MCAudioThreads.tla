--------------------------- MODULE MCAudioThreads ---------------------------
EXTENDS AudioThreads

MCBuffers  == [decoded |-> 3, captured |-> 2, farend |-> 2]
MCCapacity == [decoded |-> 4, captured |-> 2, farend |-> 3]
MCPacketsPerFrame == {1, 2}
=============================================================================
