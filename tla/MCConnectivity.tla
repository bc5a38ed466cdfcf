--------------------------- MODULE MCConnectivity ---------------------------
EXTENDS Connectivity

CONSTANTS r1, r2

MCRelays == {r1}
MCExtras == {"init", "ipv6Endpoint", "networkChanged"}
MCPongSeqs == {0}
MCPongs == {"init", "pong"}
MCAnyPongSeqs == {0, 1}
=============================================================================
