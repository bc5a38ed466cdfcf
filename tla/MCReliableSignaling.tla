------------------------- MODULE MCReliableSignaling -------------------------
EXTENDS ReliableSignaling

CONSTANTS signaling, audio

MCStreams == {signaling, audio}
MCMaxSeq == (signaling :> 2) @@ (audio :> 2)
MCTries == {0, 2}
=============================================================================
