----------------------------- MODULE FramePacket -----------------------------
(***************************************************************************)
(* The packet path of the hybrid core.  nds_h3d_frame_packet_writer, in    *)
(* the FPGA, gathers the console's graphics records and writes them to the *)
(* packet slots of the shared DDR: payload, header, the slot's commit and  *)
(* at last the producer word.  frame_packet::Consumer, on the HPS, copies  *)
(* a packet out of its slot, has it applied and acknowledges it, which     *)
(* gives the slot back.                                                    *)
(*                                                                         *)
(* The source is the record CDC: one queue of records and of boundaries    *)
(* between frames.  The console waits while its head is not taken.         *)
(* A session ends at any time; the next begins once the writer is held in  *)
(* reset and the service is gone (module SessionControl), with what the    *)
(* old one had queued in the fabric drained (module DdrFabric).  A write   *)
(* stands for the moment it lands.                                         *)
(***************************************************************************)
EXTENDS Naturals, Sequences

CONSTANTS
  SlotCount,      \* 4 in the code
  MaxRecords,     \* records of a packet at the most
  BurstRecords,   \* records of a burst at the most
  MaxSequence,    \* the last packet sequence, 2^32 - 1 in the code
  MaxSent,        \* bound: records and frame ends of a session
  MaxSessions     \* bound: sessions

ASSUME PacketAssumption ==
  /\ {SlotCount, MaxRecords, BurstRecords, MaxSequence} \subseteq Nat \ {0}
  /\ MaxSent \in Nat /\ MaxSessions \in Nat \ {0}

\* What the source can show: a record, the last record of a frame, a readback
\* fence, or a boundary.
Kinds == {"data", "last", "fence", "boundary"}

\* Records are told apart by their number in the session, ends by their frame.
Record(k, n) == [kind |-> k, n |-> n]
EndOf(f) == [kind |-> "end", n |-> f]

NoHeader == [session |-> 0, sequence |-> 0, frame |-> 0, flag |-> "none",
             count |-> 0, slot |-> 0]
NoSlot == [header |-> NoHeader, commit |-> 0, payload |-> <<>>]
Slots == 0 .. SlotCount - 1
SlotOf(seq) == (seq - 1) % SlotCount

VARIABLES
  \* the shared page
  session, producer, ack, slot,
  \* the source
  head, frame, records,
  \* nds_h3d_frame_packet_writer
  released,             \* the writer is not held in session_flush
  state,
  produced, acknowledged,     \* producer_sequence, acknowledged_sequence
  buffer, bufferEnd, bufferFence, count,
  packet, packetFrame, closeFlag,
  chain,                \* chain_frame, or 0 when the chain is not active
  reason,               \* fault_reason, or 0 without a fault
  \* frame_packet::Consumer
  pc, expected, hpsChain, header, copy, done, hpsFault,
  \* history
  sent, applied

shared == <<session, producer, ack, slot>>
source == <<head, frame, records>>
build  == <<buffer, bufferEnd, bufferFence, count, packet, packetFrame,
            closeFlag, chain>>
writer == <<state, produced, acknowledged, build, reason>>
consumer == <<pc, expected, hpsChain, header, copy, done, hpsFault>>
vars == <<shared, source, released, writer, consumer, sent, applied>>

WriterStart ==
  /\ state = "wait" /\ produced = 0 /\ acknowledged = 0
  /\ buffer = <<>> /\ bufferEnd = FALSE /\ bufferFence = FALSE /\ count = 0
  /\ packet = 0 /\ packetFrame = 0 /\ closeFlag = "none" /\ chain = 0
  /\ reason = 0

ConsumerStart ==
  /\ pc = "off" /\ expected = 0 /\ hpsChain = 0 /\ header = NoHeader
  /\ copy = <<>> /\ done = 0 /\ hpsFault = "none"

Init ==
  /\ session = 1 /\ producer = 0 /\ ack = 0 /\ slot = [i \in Slots |-> NoSlot]
  /\ head = "none" /\ frame = 1 /\ records = 0
  /\ released = FALSE
  /\ WriterStart /\ ConsumerStart
  /\ sent = <<>> /\ applied = <<>>

-----------------------------------------------------------------------------
(* The source                                                              *)

\* The CDC shows its next record or boundary.
Offer ==
  /\ released /\ head = "none" /\ Len(sent) < MaxSent
  /\ head' \in Kinds
  /\ UNCHANGED <<shared, frame, records, released, writer, consumer, sent, applied>>

\* The head is taken.  Boundaries and last records end the frame.
Take ==
  /\ head' = "none"
  /\ IF head = "boundary" THEN UNCHANGED records ELSE records' = records + 1
  /\ frame' = IF head \in {"boundary", "last"} THEN frame + 1 ELSE frame
  /\ sent' = sent
       \o (IF head = "boundary" THEN <<>> ELSE <<Record(head, records + 1)>>)
       \o (IF head \in {"boundary", "last"} THEN <<EndOf(frame)>> ELSE <<>>)

-----------------------------------------------------------------------------
(* The packet writer                                                       *)

Running == released /\ reason = 0

\* Seeded fault: the slot that is being read is free.
FullLate == produced - acknowledged > SlotCount

Full == produced - acknowledged >= SlotCount

Filled == count + Len(buffer)

\* A state may hold back a partial group: it waits LINGER_CYCLES for more.
MustFlush ==
  \/ Len(buffer) = BurstRecords \/ bufferEnd \/ bufferFence
  \/ Filled = MaxRecords \/ head = "boundary"

\* There is no sequence after the last.
Spent == produced = MaxSequence

Ready == Running /\ state = "collect" /\ ~Full /\ ~Spent

\* Session, producer and acknowledgement are read before the first record.
ReadControl ==
  /\ Running /\ state = "wait"
  /\ IF ack > producer \/ producer - ack > SlotCount
     THEN reason' = 7 /\ UNCHANGED <<state, produced, acknowledged>>
     ELSE /\ produced' = producer /\ acknowledged' = ack
          /\ state' = "collect"
          /\ UNCHANGED reason
  /\ UNCHANGED <<shared, source, released, build, consumer, sent, applied>>

\* Seeded fault: the acknowledgement is read and not kept.
ReadAckLost ==
  /\ Running /\ state = "collect" /\ Full
  /\ UNCHANGED vars

\* The acknowledgement is read again while every slot is in use.
AckBad == ack > produced \/ ack < acknowledged \/ produced - ack > SlotCount

ReadAck ==
  /\ Running /\ state = "collect" /\ Full
  /\ IF AckBad
     THEN reason' = 16 /\ state' = "wait" /\ UNCHANGED acknowledged
     ELSE acknowledged' = ack /\ UNCHANGED <<state, reason>>
  /\ UNCHANGED <<shared, source, released, produced, build, consumer, sent, applied>>

Exhaust ==
  /\ Running /\ state = "collect" /\ ~Full /\ Spent
  /\ reason' = 10
  /\ UNCHANGED <<shared, source, released, state, produced, acknowledged, build,
                 consumer, sent, applied>>

\* The frame the next record must belong to; 0 when any will do.
Frame == IF Filled # 0 THEN packetFrame ELSE chain

\* A boundary closes the frame, with or without records.
AcceptBoundary ==
  /\ Ready /\ head = "boundary" /\ buffer = <<>>
  /\ IF Frame \notin {0, frame}
     THEN /\ reason' = IF count = 0 THEN 11 ELSE 12
          /\ UNCHANGED <<state, source, build, sent>>
     ELSE /\ packetFrame' = IF count = 0 THEN frame ELSE packetFrame
          /\ packet' = IF count = 0 THEN produced + 1 ELSE packet
          /\ closeFlag' = "end" /\ state' = "header"
          /\ Take
          /\ UNCHANGED <<buffer, bufferEnd, bufferFence, count, chain, reason>>
  /\ UNCHANGED <<shared, released, produced, acknowledged, consumer, applied>>

AcceptRecord ==
  /\ Ready /\ head \in Kinds \ {"boundary"} /\ ~MustFlush
  /\ IF Frame \notin {0, frame}
     THEN /\ reason' = IF Filled = 0 THEN 13 ELSE 14
          /\ UNCHANGED <<source, build, sent>>
     ELSE /\ buffer' = Append(buffer, Record(head, records + 1))
          /\ bufferEnd' = (head = "last") /\ bufferFence' = (head = "fence")
          /\ packetFrame' = IF Filled = 0 THEN frame ELSE packetFrame
          /\ packet' = IF Filled = 0 THEN produced + 1 ELSE packet
          /\ Take
          /\ UNCHANGED <<count, closeFlag, chain, reason>>
  /\ UNCHANGED <<shared, released, state, produced, acknowledged, consumer,
                 applied>>

\* A group is due when it must go or has waited long enough.
Flush ==
  /\ Ready /\ buffer # <<>>
  /\ state' = "burst"
  /\ UNCHANGED <<shared, source, released, produced, acknowledged, build, reason,
                 consumer, sent, applied>>

\* Seeded fault: a fence waits for more records.
FenceWaits == Filled = MaxRecords

\* A fence, or a full packet, is committed without waiting for the frame.
Continues == bufferFence \/ Filled = MaxRecords

Overlay(old, at, new) ==
  [i \in 1 .. (IF at + Len(new) > Len(old) THEN at + Len(new) ELSE Len(old)) |->
     IF i \in at + 1 .. at + Len(new) THEN new[i - at] ELSE old[i]]

WriteBurst ==
  /\ Running /\ state = "burst"
  /\ slot' = [slot EXCEPT ![SlotOf(packet)].payload = Overlay(@, count, buffer)]
  /\ count' = Filled
  /\ buffer' = <<>> /\ bufferEnd' = FALSE /\ bufferFence' = FALSE
  /\ closeFlag' = IF bufferEnd THEN "end" ELSE IF Continues THEN "cont" ELSE closeFlag
  /\ state' = IF bufferEnd \/ Continues THEN "header" ELSE "collect"
  /\ UNCHANGED <<session, producer, ack, source, released, produced, acknowledged,
                 packet, packetFrame, chain, reason, consumer, sent, applied>>

WriteHeader ==
  /\ Running /\ state = "header"
  /\ slot' = [slot EXCEPT ![SlotOf(packet)].header =
       [session |-> session, sequence |-> packet, frame |-> packetFrame,
        flag |-> closeFlag, count |-> count, slot |-> SlotOf(packet)]]
  /\ state' = "commit"
  /\ UNCHANGED <<session, producer, ack, source, released, produced, acknowledged,
                 build, reason, consumer, sent, applied>>

WriteCommit ==
  /\ Running /\ state = "commit"
  /\ slot' = [slot EXCEPT ![SlotOf(packet)].commit = packet]
  /\ state' = "producer"
  /\ UNCHANGED <<session, producer, ack, source, released, produced, acknowledged,
                 build, reason, consumer, sent, applied>>

\* Seeded fault: the chain outlives its frame.
ChainKept == IF closeFlag = "cont" THEN packetFrame ELSE chain

\* The frame that the next packet continues.
ChainAfter == IF closeFlag = "cont" THEN packetFrame ELSE 0

WriteProducer ==
  /\ Running /\ state = "producer"
  /\ producer' = packet /\ produced' = packet
  /\ count' = 0
  /\ chain' = ChainAfter
  /\ state' = "collect"
  /\ UNCHANGED <<session, ack, slot, source, released, acknowledged, buffer,
                 bufferEnd, bufferFence, packet, packetFrame, closeFlag, reason,
                 consumer, sent, applied>>

Writer ==
  \/ ReadControl \/ ReadAck \/ Exhaust \/ AcceptBoundary \/ AcceptRecord
  \/ Flush \/ WriteBurst \/ WriteHeader \/ WriteCommit \/ WriteProducer

-----------------------------------------------------------------------------
(* The packet consumer                                                     *)

Fail(f) ==
  /\ hpsFault' = f /\ pc' = "faulted"
  /\ UNCHANGED <<expected, hpsChain, header, copy, done>>

Unshared == UNCHANGED <<shared, source, released, writer, sent>>

Initialize ==
  /\ pc = "off"
  /\ IF producer < ack \/ producer - ack > SlotCount \/ ack = MaxSequence
     THEN Fail("control")
     ELSE /\ pc' = "idle" /\ expected' = ack + 1
          /\ UNCHANGED <<hpsChain, header, copy, done, hpsFault>>
  /\ Unshared /\ UNCHANGED applied

\* Counters that do not fit what was acknowledged.
CountersBad ==
  \/ ack # expected - 1 \/ producer < expected - 1
  \/ producer - (expected - 1) > SlotCount

HeaderValid(h) ==
  /\ h.session = session /\ h.sequence = expected
  /\ h.flag \in {"cont", "end"} /\ h.count <= MaxRecords
  /\ h.slot = SlotOf(expected)
  /\ hpsChain # 0 => h.frame = hpsChain

\* begin: the committed packet is seen, and its header copied.
BeginPacket ==
  /\ pc = "idle" /\ (CountersBad \/ producer >= expected)
  /\ LET s == slot[SlotOf(expected)]
     IN IF CountersBad THEN Fail("sequence")
        ELSE IF s.commit # expected THEN Fail("torn")
        ELSE IF ~HeaderValid(s.header) THEN Fail("header")
        ELSE /\ header' = s.header /\ pc' = "payload"
             /\ UNCHANGED <<expected, hpsChain, copy, done, hpsFault>>
  /\ Unshared /\ UNCHANGED applied

CopyPayload ==
  /\ pc = "payload"
  /\ copy' = SubSeq(slot[SlotOf(expected)].payload, 1, header.count)
  /\ pc' = "verify"
  /\ UNCHANGED <<expected, hpsChain, header, done, hpsFault>>
  /\ Unshared /\ UNCHANGED applied

\* The slot still holds the packet that was copied.
SameHeader ==
  LET s == slot[SlotOf(expected)] IN s.header = header /\ s.commit = expected

\* A readback fence stands last, in a packet that continues the frame.
FencesLast ==
  \A i \in DOMAIN copy : copy[i].kind = "fence" =>
    header.flag = "cont" /\ i = Len(copy)

Verify ==
  /\ pc = "verify"
  /\ IF ~SameHeader THEN Fail("torn")
     ELSE IF ~FencesLast THEN Fail("record")
     ELSE /\ pc' = "apply"
          /\ UNCHANGED <<expected, hpsChain, header, copy, done, hpsFault>>
  /\ Unshared /\ UNCHANGED applied

\* next_record and record_applied: one by one, in the synchronous service.
ApplyRecord ==
  /\ pc = "apply" /\ done < Len(copy)
  /\ applied' = Append(applied, copy[done + 1])
  /\ done' = done + 1
  /\ UNCHANGED <<pc, expected, hpsChain, header, copy, hpsFault>>
  /\ Unshared

\* accept_all_records: the packet goes whole into the replay queue.
AcceptAll ==
  /\ pc = "apply" /\ done = 0 /\ copy # <<>>
  /\ applied' = applied \o copy
  /\ done' = Len(copy)
  /\ UNCHANGED <<pc, expected, hpsChain, header, copy, hpsFault>>
  /\ Unshared

\* Seeded fault: a packet is acknowledged before all of it is applied.
AnyApplied == TRUE

AllApplied == done = Len(copy)

\* The end of a frame takes effect, and the packet is about to be acknowledged.
FinishPacket ==
  /\ pc = "apply" /\ AllApplied
  /\ applied' = IF header.flag = "end" THEN Append(applied, EndOf(header.frame))
                ELSE applied
  /\ pc' = "ack"
  /\ UNCHANGED <<expected, hpsChain, header, copy, done, hpsFault>>
  /\ Unshared

\* acknowledge: the slot returns to the writer.
Acknowledge ==
  /\ pc = "ack"
  /\ IF CountersBad \/ producer < expected
     THEN Fail("sequence") /\ UNCHANGED ack
     ELSE IF ~SameHeader
     THEN Fail("torn") /\ UNCHANGED ack
     ELSE /\ ack' = expected
          /\ hpsChain' = IF header.flag = "cont" THEN header.frame ELSE 0
          /\ header' = NoHeader /\ copy' = <<>> /\ done' = 0
          /\ IF expected = MaxSequence
             THEN pc' = "exhausted" /\ UNCHANGED expected
             ELSE pc' = "idle" /\ expected' = expected + 1
          /\ UNCHANGED hpsFault
  /\ UNCHANGED <<session, producer, slot, source, released, writer, sent, applied>>

Consumer ==
  \/ BeginPacket \/ CopyPayload \/ Verify \/ ApplyRecord \/ AcceptAll
  \/ FinishPacket \/ Acknowledge

-----------------------------------------------------------------------------
(* Sessions                                                                *)

\* The console is released to a service that is ready.
Release ==
  /\ ~released /\ pc = "idle" /\ sent = <<>>
  /\ released' = TRUE
  /\ UNCHANGED <<shared, source, writer, consumer, sent, applied>>

\* The console is held again: writer and CDC are flushed wherever they are.
EndSession ==
  /\ released /\ session < MaxSessions
  /\ released' = FALSE
  /\ head' = "none" /\ frame' = 1 /\ records' = 0
  /\ state' = "wait" /\ produced' = 0 /\ acknowledged' = 0
  /\ buffer' = <<>> /\ bufferEnd' = FALSE /\ bufferFence' = FALSE /\ count' = 0
  /\ packet' = 0 /\ packetFrame' = 0 /\ closeFlag' = "none" /\ chain' = 0
  /\ reason' = 0
  /\ UNCHANGED <<shared, consumer, sent, applied>>

\* The service is gone, and the control initializer clears the control words.
\* The slots keep what they hold; whose records those were is forgotten.
NewSession ==
  /\ ~released /\ session < MaxSessions
  /\ session' = session + 1
  /\ producer' = 0 /\ ack' = 0
  /\ pc' = "off" /\ expected' = 0 /\ hpsChain' = 0 /\ header' = NoHeader
  /\ copy' = <<>> /\ done' = 0 /\ hpsFault' = "none"
  /\ sent' = <<>> /\ applied' = <<>>
  /\ slot' = [i \in Slots |->
       [slot[i] EXCEPT !.payload = [j \in DOMAIN @ |-> Record("data", 0)]]]
  /\ UNCHANGED <<source, released, writer>>

Next ==
  \/ Offer \/ Writer \/ Initialize \/ Consumer
  \/ Release \/ EndSession \/ NewSession

Spec == Init /\ [][Next]_vars

\* The writer is clocked; the service polls for packets while it lives.  When
\* the console has something to say is its own affair.
FairSpec == Spec /\ WF_vars(Writer) /\ WF_vars(Consumer)

-----------------------------------------------------------------------------
(* Properties                                                              *)

Tokens ==
  [kind : Kinds \ {"boundary"}, n : 0 .. MaxSent + 1]
    \cup [kind : {"end"}, n : 1 .. MaxSent + 1]

\* What a slot can hold.
Headers ==
  [session : 0 .. MaxSessions, sequence : 0 .. MaxSequence,
   frame : 0 .. MaxSent + 1, flag : {"none", "cont", "end"},
   count : 0 .. MaxRecords, slot : Slots]
SlotContents ==
  [header : Headers, commit : 0 .. MaxSequence, payload : Seq(Tokens)]

\* Every variable has its type, and the counters of both sides are in step:
\* what is acknowledged was produced, and no counter passes the last sequence
\* (the exhaustion branch of COLLECT, and exhausted_ in acknowledge()).
TypeOK ==
  /\ session \in 1 .. MaxSessions
  /\ producer \in 0 .. MaxSequence /\ ack \in 0 .. producer
  /\ slot \in [Slots -> SlotContents]
  /\ head \in Kinds \cup {"none"}
  /\ frame \in 1 .. MaxSent + 2 /\ records \in 0 .. MaxSent + 1
  /\ released \in BOOLEAN
  /\ state \in {"wait", "collect", "burst", "header", "commit", "producer"}
  /\ produced \in 0 .. MaxSequence /\ acknowledged \in 0 .. produced
  /\ buffer \in Seq(Tokens) /\ Len(buffer) <= BurstRecords
  /\ bufferEnd \in BOOLEAN /\ bufferFence \in BOOLEAN
  /\ count \in 0 .. MaxRecords /\ packet \in 0 .. MaxSequence
  /\ packetFrame \in 0 .. MaxSent + 1 /\ chain \in 0 .. MaxSent + 1
  /\ closeFlag \in {"none", "cont", "end"} /\ reason \in 0 .. 19
  /\ pc \in {"off", "idle", "payload", "verify", "apply", "ack", "exhausted",
             "faulted"}
  /\ expected \in 0 .. MaxSequence /\ hpsChain \in 0 .. MaxSent + 1
  /\ header \in Headers
  /\ copy \in Seq(Tokens) /\ done \in 0 .. MaxRecords
  /\ hpsFault \in {"none", "control", "sequence", "torn", "header", "record"}

\* Between a correct writer and a correct consumer none of the checks ever
\* fires, whenever the session ends: only the last sequence stops the writer
\* (reason 10 of the writer; local_faults_ of the consumer).
NoFaults == reason \in {0, 10} /\ hpsFault = "none"

\* The writer never touches a slot whose packet the consumer still has to
\* acknowledge, although it decides on an acknowledgement it read long ago.
SlotInUseUntouched ==
  [][released =>
       \A q \in ack + 1 .. producer : slot'[SlotOf(q)] = slot[SlotOf(q)]]_vars

\* Records and ends of frames are applied in order, each once, none left out.
Stream == INSTANCE RecordStream WITH Token <- Tokens
ImplementsRecordStream == Stream!Spec

\* A readback fence, on which the console waits, and the end of a frame are
\* applied without anything more from the console, unless the session ends.
\* Neither needs the packet to fill (buf_readback_fence, buf_frame_end).  What
\* the source shows is taken, however long every slot was in use; only the last
\* sequence keeps it waiting.
Awaited(i) == i <= Len(sent) /\ sent[i].kind \in {"fence", "last", "end"}
AwaitedApplied ==
  /\ \A i \in 1 .. MaxSent : Awaited(i) ~> (i <= Len(applied) \/ ~released)
  /\ head # "none" ~> head = "none" \/ Spent

-----------------------------------------------------------------------------
(* The inductive invariant behind SlotInUseUntouched (FramePacketProofs)   *)

\* The counters are numbers, and what is acknowledged was produced.
CountersOK ==
  /\ {producer, ack, produced, acknowledged, packet, expected, count} \subseteq Nat
  /\ ack <= producer /\ DOMAIN slot = Slots

\* The writer has read the control words of the session and found no fault.
Live == Running /\ state # "wait"

\* A packet is begun: it has a record, or is closed.
Open == count # 0 \/ buffer # <<>> \/ state # "collect"

\* A writer that waits holds nothing.  One that lives has an acknowledgement
\* that is at most too old, and an open packet is the one after the last, with
\* a slot to spare.
WriterInv ==
  /\ ~released => state = "wait"
  /\ state = "wait" /\ reason = 0 => count = 0 /\ buffer = <<>>
  /\ state \in {"header", "commit", "producer"} => buffer = <<>>
  /\ state \in {"wait", "collect", "burst", "header", "commit", "producer"}
  /\ Live =>
       /\ produced = producer /\ acknowledged <= ack
       /\ produced - acknowledged <= SlotCount
       /\ Open => packet = produced + 1 /\ produced - acknowledged < SlotCount

PacketInv == CountersOK /\ WriterInv
=============================================================================
