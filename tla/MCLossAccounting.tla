-------------------------- MODULE MCLossAccounting --------------------------
EXTENDS LossAccounting

CONSTANTS signaling, audio

MCStreams      == {signaling, audio}
MCSizes        == [s \in MCStreams |-> IF s = audio THEN {2} ELSE {1}]
MCLossTimeouts == {0}
=============================================================================
