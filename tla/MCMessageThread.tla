-------------------------- MODULE MCMessageThread --------------------------
(***************************************************************************)
(* MessageThread with a thread that posts besides the handlers, messages   *)
(* without and with a delay, once and periodic.                            *)
(***************************************************************************)
EXTENDS MessageThread

CONSTANTS receiver, loopThread

MCThreads   == {receiver, loopThread}
MCDelays    == {0, 1}
MCIntervals == {0, 1}
=============================================================================
