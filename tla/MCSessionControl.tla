-------------------------- MODULE MCSessionControl --------------------------
(* The session handshake with few triggers and few mishaps.                *)
EXTENDS SessionControl
=============================================================================
