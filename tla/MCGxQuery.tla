------------------------------ MODULE MCGxQuery ------------------------------
(* Matrix reads with a deferred cost of one command.                       *)
EXTENDS GxQuery
=============================================================================
