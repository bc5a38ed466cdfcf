--------------------------- MODULE MCAckExchange ---------------------------
(***************************************************************************)
(* AckExchange with two peers: one sends enough packets to overrun the     *)
(* other's mask and then its window, the other one acknowledges.           *)
(***************************************************************************)
EXTENDS AckExchange, TLC

CONSTANTS caller, callee

MCPeers  == {caller, callee}
MCMaxSeq == (caller :> 5) @@ (callee :> 2)
=============================================================================
