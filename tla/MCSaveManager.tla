--------------------------- MODULE MCSaveManager ---------------------------
(* Small instances of SaveManager for TLC; the bounds are in the .cfg files. *)
EXTENDS SaveManager
============================================================================
