---------------------------- MODULE MCReplayQueue ----------------------------
(* The replay queue with room for two packets and words that wrap.         *)
EXTENDS ReplayQueue
=============================================================================
