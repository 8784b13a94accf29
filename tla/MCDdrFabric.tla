---------------------------- MODULE MCDdrFabric ----------------------------
(* The DDR fabric with short bursts and a short productive run.            *)
EXTENDS DdrFabric
=============================================================================
