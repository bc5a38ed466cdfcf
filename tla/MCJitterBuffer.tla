--------------------------- MODULE MCJitterBuffer ---------------------------
(***************************************************************************)
(* JitterBuffer on a small ring and a short stream.                        *)
(***************************************************************************)
EXTENDS JitterBuffer

MCMinDelays == {1, 2}
=============================================================================
