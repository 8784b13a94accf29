---------------------------- MODULE DurableSave ----------------------------
(***************************************************************************)
(* What save persistence promises to the emulator, with no thread, no file *)
(* and no debounce: the newest image the emulator produced, the image the  *)
(* save file holds, and the newest image the emulator was told is saved.   *)
(* A crash may throw away accepted images, never a promised one.           *)
(***************************************************************************)
EXTENDS Naturals

VARIABLES accepted, durable, promised

vars == <<accepted, durable, promised>>

Init == accepted = 0 /\ durable = 0 /\ promised = 0

\* The cartridge changes its save memory.
Accept ==
  /\ accepted' \in Nat
  /\ accepted' > accepted
  /\ UNCHANGED <<durable, promised>>

\* A newer complete image replaces the file.
Persist ==
  /\ durable' \in (durable + 1)..accepted
  /\ UNCHANGED <<accepted, promised>>

\* The emulator is told that what the file holds is saved.
Promise ==
  /\ promised' \in (promised + 1)..durable
  /\ UNCHANGED <<accepted, durable>>

\* The session ends: unsaved images are gone, and a power loss may bring an
\* older file back, but none older than the promised one.
Lose ==
  /\ durable' \in promised..durable
  /\ accepted' = durable'
  /\ UNCHANGED promised

Next == Accept \/ Persist \/ Promise \/ Lose

Spec == Init /\ [][Next]_vars
============================================================================
