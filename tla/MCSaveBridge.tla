---------------------------- MODULE MCSaveBridge ----------------------------
(* Two games with chips of two sectors: a flash chip, and an EEPROM whose  *)
(* old files have one sector.  At first the flash has no file and the      *)
(* EEPROM an old one, or the flash has a file of a wrong size and the      *)
(* EEPROM an exact one.                                                    *)
EXTENDS SaveBridge

CONSTANTS Flashy, Eeprom

Of(flashy, eeprom) ==
  [g \in {Flashy, Eeprom} |-> IF g = Flashy THEN flashy ELSE eeprom]

MCSize    == Of(2, 2)
MCLengths == {Of(0, 1), Of(1, 2)}
=============================================================================
