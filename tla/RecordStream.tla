---------------------------- MODULE RecordStream ----------------------------
(***************************************************************************)
(* What the packet path of the hybrid core promises in one session: the    *)
(* graphics records and the ends of frames that the FPGA takes from the    *)
(* console reach the renderer in the order they were taken, each once and  *)
(* none left out.  A new session starts an empty stream.                   *)
(***************************************************************************)
EXTENDS Naturals, SequencesExt

CONSTANT Token      \* a record, or the end of a frame

VARIABLES sent, applied

Init == sent = <<>> /\ applied = <<>>

\* The last record of a frame is taken together with the end of the frame.
Send ==
  /\ sent' \in Seq(Token) /\ IsStrictPrefix(sent, sent')
  /\ UNCHANGED applied

Deliver ==
  /\ \E n \in Len(applied) + 1 .. Len(sent) : applied' = SubSeq(sent, 1, n)
  /\ UNCHANGED sent

Renew == sent' = <<>> /\ applied' = <<>>

Next == Send \/ Deliver \/ Renew

Spec == Init /\ [][Next]_<<sent, applied>>
=============================================================================
