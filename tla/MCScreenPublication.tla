------------------------ MODULE MCScreenPublication ------------------------
(* Instances of ScreenPublication for TLC.                                 *)
EXTENDS ScreenPublication
=============================================================================
