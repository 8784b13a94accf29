----------------------------- MODULE MCTakeover -----------------------------
(* Two launches and three mishaps, and Main with either kind of name.      *)
EXTENDS Takeover
=============================================================================
