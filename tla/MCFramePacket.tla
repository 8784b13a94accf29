--------------------------- MODULE MCFramePacket ---------------------------
(* The packet path on a small instance, for the runs Packet*.cfg. *)
EXTENDS FramePacket
=============================================================================
