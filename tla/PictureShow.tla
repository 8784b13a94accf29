---------------------------- MODULE PictureShow ----------------------------
(***************************************************************************)
(* What the publication of screen pictures promises.  The screens are      *)
(* black or show one complete picture.  In a session the picture shown     *)
(* never goes back to an earlier one, though it may skip some.  Once the   *)
(* session is over the screens are black, and no picture that was drawn    *)
(* before the next session opened is ever shown in it.                     *)
(***************************************************************************)
EXTENDS Naturals

VARIABLES
  drawn,    \* complete pictures drawn so far, numbered from 1
  opened,   \* how many of them when the session opened
  open,     \* the session may show pictures
  shown     \* the picture on the screens, or 0 for black

Init == drawn = 0 /\ opened = 0 /\ open = TRUE /\ shown = 0

Draw == drawn' = drawn + 1 /\ UNCHANGED <<opened, open, shown>>

Show ==
  /\ open
  /\ shown' \in shown + 1 .. drawn /\ shown' > opened
  /\ UNCHANGED <<drawn, opened, open>>

Close == shown' = 0 /\ open' = FALSE /\ UNCHANGED <<drawn, opened>>

Open ==
  /\ ~open /\ shown = 0
  /\ open' = TRUE /\ opened' = drawn
  /\ UNCHANGED <<drawn, shown>>

Next == Draw \/ Show \/ Close \/ Open

Spec == Init /\ [][Next]_<<drawn, opened, open, shown>>
=============================================================================
