------------------------- MODULE FramePacketProofs -------------------------
(***************************************************************************)
(* Proofs about FramePacket, for every number of slots, every size of      *)
(* packets and bursts, and every last sequence.  PacketInv, about the      *)
(* counters, is inductive, and gives that the slots whose packets the      *)
(* consumer has not acknowledged are never written to.  PathInv, about     *)
(* what the slots, the writer and the consumer hold, is inductive with it, *)
(* and gives that no check ever fires and that the packet path implements  *)
(* the stream of records.                                                  *)
(***************************************************************************)
EXTENDS FramePacket, Integers, TLAPS

\* Packets that follow each other at less than SlotCount use different slots.
LEMMA DifferentSlots ==
  ASSUME NEW p \in Nat, NEW q \in Nat, 1 <= q, q < p, p - q < SlotCount
  PROVE  SlotOf(q) # SlotOf(p)
<1> DEFINE n == SlotCount
           a == q - 1
           b == p - 1
<1>1. n \in Nat \ {0} /\ a \in Nat /\ b \in Nat
  BY PacketAssumption
<1>2. \A x \in Nat : x = n * (x \div n) + (x % n)
  BY <1>1
<1>3. a \div n \in Int /\ b \div n \in Int
  BY <1>1
<1> DEFINE d == b \div n - a \div n
<1>4. SUFFICES ASSUME a % n = b % n PROVE FALSE
  BY DEF SlotOf
<1>5. n * (b \div n) - n * (a \div n) = b - a
  BY <1>1, <1>2, <1>3, <1>4
<1>6. n * d = b - a
  BY <1>1, <1>3, <1>5
<1>7. 0 < n * d /\ n * d < n
  BY <1>1, <1>6
<1>8. d \in Int
  BY <1>3
<1>9. CASE d <= 0
  <2>1. n * d <= 0
    BY <1>1, <1>8, <1>9
  <2> QED
    BY <1>6, <1>7, <1>1, <2>1
<1>10. CASE d >= 1
  <2>1. n * d >= n
    BY <1>1, <1>8, <1>10
  <2> QED
    BY <1>1, <1>7, <1>8, <2>1
<1> QED
  BY <1>8, <1>9, <1>10

\* A sequence is put into one of the slots.
LEMMA SlotOfInSlots ==
  ASSUME NEW q \in Nat, 1 <= q
  PROVE  SlotOf(q) \in Slots
<1>1. SlotCount \in Nat \ {0} /\ q - 1 \in Nat
  BY PacketAssumption
<1>2. (q - 1) % SlotCount \in 0 .. SlotCount - 1
  BY <1>1
<1> QED
  BY <1>2 DEF SlotOf, Slots

-----------------------------------------------------------------------------
(* The invariant                                                           *)

\* The initial state satisfies it.
LEMMA InitPacketInv == Init => PacketInv
  BY DEF Init, WriterStart, ConsumerStart, PacketInv, CountersOK, WriterInv, Live,
         Running

\* Every step keeps the counters numbers and the acknowledgement behind.
LEMMA CountersStep == PacketInv /\ [Next]_vars => CountersOK'
<1> SUFFICES ASSUME CountersOK, WriterInv, [Next]_vars PROVE CountersOK'
  BY DEF PacketInv
<1> USE DEF CountersOK, shared, source, build, writer, consumer
<1>1. CASE Offer  BY <1>1 DEF Offer
<1>2. CASE ReadControl  BY <1>2 DEF ReadControl
<1>3. CASE ReadAck  BY <1>3 DEF ReadAck
<1>4. CASE Exhaust  BY <1>4 DEF Exhaust
<1>5. CASE AcceptBoundary  BY <1>5 DEF AcceptBoundary
<1>6. CASE AcceptRecord  BY <1>6 DEF AcceptRecord
<1>7. CASE Flush  BY <1>7 DEF Flush
<1>8. CASE WriteBurst  BY <1>8 DEF WriteBurst, Filled
<1>9. CASE WriteHeader  BY <1>9 DEF WriteHeader
<1>10. CASE WriteCommit  BY <1>10 DEF WriteCommit
<1>11. CASE WriteProducer
  BY <1>11 DEF WriteProducer, WriterInv, Live, Running, Open
<1>12. CASE Initialize  BY <1>12 DEF Initialize, Fail, Unshared
<1>13. CASE BeginPacket \/ CopyPayload \/ Verify
  BY <1>13 DEF BeginPacket, CopyPayload, Verify, Fail, Unshared
<1>14. CASE ApplyRecord \/ AcceptAll \/ FinishPacket
  BY <1>14 DEF ApplyRecord, AcceptAll, FinishPacket, Unshared
<1>15. CASE Acknowledge  BY <1>15 DEF Acknowledge, CountersBad, Fail
<1>16. CASE Release  BY <1>16 DEF Release
<1>17. CASE EndSession  BY <1>17 DEF EndSession
<1>18. CASE NewSession  BY <1>18 DEF NewSession
<1>19. CASE UNCHANGED vars  BY <1>19 DEF vars
<1> QED
  BY <1>1, <1>2, <1>3, <1>4, <1>5, <1>6, <1>7, <1>8, <1>9, <1>10, <1>11, <1>12,
     <1>13, <1>14, <1>15, <1>16, <1>17, <1>18, <1>19 DEF Next, Writer, Consumer

\* Every step keeps the writer's part.
LEMMA WriterStep == PacketInv /\ [Next]_vars => WriterInv'
<1> SUFFICES ASSUME CountersOK, WriterInv, [Next]_vars PROVE WriterInv'
  BY DEF PacketInv
<1>0. SlotCount \in Nat \ {0}
  BY PacketAssumption
<1> USE DEF CountersOK, WriterInv, Live, Running, Open, shared, source, build,
            writer, consumer
<1>1. CASE Offer  BY <1>1 DEF Offer
<1>2. CASE ReadControl  BY <1>0, <1>2 DEF ReadControl
<1>3. CASE ReadAck  BY <1>0, <1>3 DEF ReadAck, AckBad, Full
<1>4. CASE Exhaust  BY <1>4 DEF Exhaust
<1>5. CASE AcceptBoundary  BY <1>0, <1>5 DEF AcceptBoundary, Ready, Full
<1>6. CASE AcceptRecord  BY <1>0, <1>6 DEF AcceptRecord, Ready, Full, Filled
<1>7. CASE Flush  BY <1>7 DEF Flush, Ready
<1>8. CASE WriteBurst  BY <1>8 DEF WriteBurst
<1>9. CASE WriteHeader  BY <1>9 DEF WriteHeader
<1>10. CASE WriteCommit  BY <1>10 DEF WriteCommit
<1>11. CASE WriteProducer  BY <1>0, <1>11 DEF WriteProducer
<1>12. CASE Initialize  BY <1>12 DEF Initialize, Fail, Unshared
<1>13. CASE BeginPacket \/ CopyPayload \/ Verify
  BY <1>13 DEF BeginPacket, CopyPayload, Verify, Fail, Unshared
<1>14. CASE ApplyRecord \/ AcceptAll \/ FinishPacket
  BY <1>14 DEF ApplyRecord, AcceptAll, FinishPacket, Unshared
<1>15. CASE Acknowledge  BY <1>15 DEF Acknowledge, CountersBad, Fail
<1>16. CASE Release  BY <1>16 DEF Release
<1>17. CASE EndSession  BY <1>17 DEF EndSession
<1>18. CASE NewSession  BY <1>18 DEF NewSession
<1>19. CASE UNCHANGED vars  BY <1>19 DEF vars
<1> QED
  BY <1>1, <1>2, <1>3, <1>4, <1>5, <1>6, <1>7, <1>8, <1>9, <1>10, <1>11, <1>12,
     <1>13, <1>14, <1>15, <1>16, <1>17, <1>18, <1>19 DEF Next, Writer, Consumer

\* PacketInv holds in every reachable state, whenever sessions end.
THEOREM PacketInvariant == Spec => []PacketInv
<1>1. PacketInv /\ [Next]_vars => PacketInv'
  BY CountersStep, WriterStep DEF PacketInv
<1> QED
  BY InitPacketInv, <1>1, PTL DEF Spec

-----------------------------------------------------------------------------
(* The slots in use                                                        *)

\* The slot of the packet being written holds no packet that is still to be
\* acknowledged.
LEMMA WrittenSlotFree ==
  ASSUME PacketInv, Running, state \in {"burst", "header", "commit"},
         NEW q \in ack + 1 .. producer
  PROVE  /\ SlotOf(q) \in Slots
         /\ SlotOf(q) # SlotOf(packet)
<1>1. /\ {producer, ack, produced, acknowledged, packet} \subseteq Nat
      /\ produced = producer /\ acknowledged <= ack
      /\ packet = produced + 1 /\ produced - acknowledged < SlotCount
  BY DEF PacketInv, CountersOK, WriterInv, Live, Open
<1>2. q \in Nat /\ 1 <= q /\ q < packet
  BY <1>1
<1>3. packet - q < SlotCount
  BY <1>1, PacketAssumption
<1> QED
  BY <1>1, <1>2, <1>3, DifferentSlots, SlotOfInSlots

\* The writer never touches a slot whose packet the consumer still has to
\* acknowledge (frame_packet_writer, full and slot addresses), for every number
\* of slots.
THEOREM PacketSlotInUseUntouched == Spec => SlotInUseUntouched
<1>1. PacketInv /\ [Next]_vars =>
        [released =>
           \A q \in ack + 1 .. producer : slot'[SlotOf(q)] = slot[SlotOf(q)]]_vars
  <2> SUFFICES ASSUME PacketInv, Next, released, NEW q \in ack + 1 .. producer
               PROVE  slot'[SlotOf(q)] = slot[SlotOf(q)]
    OBVIOUS
  <2>1. DOMAIN slot = Slots
    BY DEF PacketInv, CountersOK
  <2>2. CASE WriteBurst
    BY <2>1, <2>2, WrittenSlotFree DEF WriteBurst
  <2>3. CASE WriteHeader
    BY <2>1, <2>3, WrittenSlotFree DEF WriteHeader
  <2>4. CASE WriteCommit
    BY <2>1, <2>4, WrittenSlotFree DEF WriteCommit
  <2>5. CASE NewSession
    BY <2>5 DEF NewSession
  <2>6. CASE Offer \/ Release \/ EndSession
    BY <2>6 DEF Offer, Release, EndSession, shared
  <2>7. CASE \/ ReadControl \/ ReadAck \/ Exhaust \/ AcceptBoundary
             \/ AcceptRecord \/ Flush \/ WriteProducer
    BY <2>7 DEF ReadControl, ReadAck, Exhaust, AcceptBoundary, AcceptRecord,
                Flush, WriteProducer, shared
  <2>8. CASE Initialize \/ Consumer
    BY <2>8 DEF Initialize, Consumer, BeginPacket, CopyPayload, Verify,
                ApplyRecord, AcceptAll, FinishPacket, Acknowledge, Unshared,
                shared
  <2> QED
    BY <2>2, <2>3, <2>4, <2>5, <2>6, <2>7, <2>8 DEF Next, Writer
<1> QED
  BY PacketInvariant, <1>1, PTL DEF Spec, SlotInUseUntouched

-----------------------------------------------------------------------------
(* The invariant behind NoFaults and the stream                            *)

\* What the source has given is at most what it may give, and it numbers
\* records and frames no faster.  It shows nothing while the console is held.
SourceInv ==
  /\ sent \in Seq(Tokens) /\ Len(sent) <= MaxSent + 1
  /\ records <= Len(sent) /\ frame <= Len(sent) + 1
  /\ head # "none" => released /\ Len(sent) < MaxSent
  /\ ~released => frame = 1 /\ records = 0

\* The packet is complete, and is being published.
Closing == state \in {"header", "commit", "producer"}

\* The end of the frame was taken into the packet.
Closed == bufferEnd \/ (Closing /\ closeFlag = "end")

\* The packet has a record, or an end.
Begun == Filled # 0 \/ Closing

\* The header of the packet that is being written.
OpenHeader == [session |-> session, sequence |-> packet, frame |-> packetFrame,
               flag |-> closeFlag, count |-> count, slot |-> SlotOf(packet)]

\* What the writer holds is one packet that it may publish: it fits, a fence
\* is its last record and makes it continue the frame, and its header and
\* commit are in place when they are due.  A writer that waits holds nothing,
\* in a session that has sent nothing.
BuildInv ==
  /\ reason = 0 \/ (reason = 10 /\ state = "collect")
  /\ state = "wait" => WriterStart
  /\ state = "wait" /\ released => sent = <<>>
  /\ Filled <= MaxRecords
  /\ state = "burst" => buffer # <<>>
  /\ bufferEnd \/ bufferFence => buffer # <<>>
  /\ ~(bufferEnd /\ bufferFence)
  /\ Closing => closeFlag \in {"cont", "end"} /\ (closeFlag = "cont" => count # 0)
  /\ count # 0 => count <= Len(slot[SlotOf(packet)].payload)
  /\ state \in {"commit", "producer"} => slot[SlotOf(packet)].header = OpenHeader
  /\ state = "producer" => slot[SlotOf(packet)].commit = packet

\* A readback fence in the making stands last.
FenceInv ==
  /\ \A i \in 1 .. Len(buffer) :
       buffer[i].kind = "fence" => bufferFence /\ i = Len(buffer)
  /\ \A i \in 1 .. count :
       slot[SlotOf(packet)].payload[i].kind = "fence" =>
         Closing /\ closeFlag = "cont" /\ i = count

\* The packet in the making is about the frame of the source, which moves on
\* when the packet is closed, and about the frame it has to continue.
FrameInv ==
  /\ Closed => frame = packetFrame + 1
  /\ Begun /\ ~Closed => packetFrame = frame
  /\ chain # 0 => chain = IF Begun THEN packetFrame ELSE frame

\* Every packet that waits for its acknowledgement stands in its slot.
SlotInv ==
  /\ producer - ack <= SlotCount
  /\ sent = <<>> => producer = 0
  /\ \A q \in ack + 1 .. producer :
       LET s == slot[SlotOf(q)]
           h == s.header
       IN /\ s.commit = q /\ h.session = session /\ h.sequence = q
          /\ h.flag \in {"cont", "end"} /\ h.slot = SlotOf(q)
          /\ h.count <= Len(s.payload)
          /\ \A i \in 1 .. h.count :
               s.payload[i].kind = "fence" => h.flag = "cont" /\ i = h.count

\* The consumer is at the packet after the last acknowledged, and its copies
\* are what the slot of that packet holds.
ConsumerInv ==
  /\ hpsFault = "none" /\ pc # "faulted"
  /\ ack = 0 => hpsChain = 0
  /\ pc = "off" => ~released /\ sent = <<>>
  /\ pc = "exhausted" => expected = ack /\ ack = MaxSequence
  /\ pc \notin {"off", "exhausted"} => expected = ack + 1
  /\ pc \in {"payload", "verify", "apply", "ack"} =>
       expected <= producer /\ header = slot[SlotOf(expected)].header
  /\ pc \in {"verify", "apply", "ack"} =>
       /\ Len(copy) = header.count
       /\ \A i \in 1 .. header.count : copy[i] = slot[SlotOf(expected)].payload[i]
  /\ pc \notin {"verify", "apply", "ack"} => copy = <<>>
  /\ done <= Len(copy)
  /\ pc \notin {"apply", "ack"} => done = 0
  /\ pc = "ack" => done = Len(copy)

\* 1 for the end of a frame, which is a token of the stream of its own.
One(b) == IF b THEN 1 ELSE 0

\* How much of the stream was applied, when at[q] tokens of it go with the
\* packets up to q.
AppliedLength(at) == at[ack] + done + One(pc = "ack" /\ header.flag = "end")

\* The stream is cut into packets: those up to q take at[q] tokens of it, and
\* what waits in a slot is what goes with its packet.
CutInv(at) ==
  /\ at \in [0 .. producer -> Nat]
  /\ \A q \in ack .. producer : at[q] <= Len(sent)
  /\ \A q \in ack + 1 .. producer :
       LET s == slot[SlotOf(q)]
           h == s.header
       IN /\ at[q] = at[q - 1] + h.count + One(h.flag = "end")
          /\ \A i \in 1 .. h.count : s.payload[i] = sent[at[q - 1] + i]
          /\ h.flag = "end" => sent[at[q]] = EndOf(h.frame)

\* What the writer holds is the rest of the stream.
HeldInv(at) ==
  released =>
    /\ Len(sent) = at[producer] + Filled + One(Closed)
    /\ \A i \in 1 .. count :
         slot[SlotOf(packet)].payload[i] = sent[at[producer] + i]
    /\ \A i \in 1 .. Len(buffer) : buffer[i] = sent[at[producer] + count + i]
    /\ Closed => sent[Len(sent)] = EndOf(packetFrame)

\* What was applied is the stream up to the consumer's place.
AppliedInv(at) ==
  /\ applied \in Seq(Tokens) /\ Len(applied) = AppliedLength(at)
  /\ Len(applied) <= Len(sent)
  /\ \A i \in 1 .. Len(applied) : applied[i] = sent[i]

StreamInv(at) == CutInv(at) /\ HeldInv(at) /\ AppliedInv(at)

\* A packet that follows one which continued its frame is about that frame:
\* ch[q] is the frame the packet after q must have, or 0.
ChainInv(ch) ==
  /\ ch \in [0 .. producer -> Nat]
  /\ ch[ack] = hpsChain
  /\ released => ch[producer] = chain
  /\ \A q \in ack + 1 .. producer :
       LET h == slot[SlotOf(q)].header
       IN /\ ch[q] = IF h.flag = "cont" THEN h.frame ELSE 0
          /\ ch[q - 1] # 0 => h.frame = ch[q - 1]

\* The inductive invariant.
PathInv ==
  /\ TypeOK /\ PacketInv /\ SourceInv /\ BuildInv /\ FenceInv /\ FrameInv
  /\ SlotInv /\ ConsumerInv
  /\ \E ch : ChainInv(ch)
  /\ \E at : StreamInv(at)

\* The constants and the tokens.
LEMMA Constants ==
  /\ SlotCount \in Nat \ {0} /\ MaxRecords \in Nat \ {0}
  /\ BurstRecords \in Nat \ {0} /\ MaxSequence \in Nat \ {0}
  /\ MaxSent \in Nat /\ MaxSessions \in Nat \ {0}
  BY PacketAssumption

\* The source moves on: records and ends of frames join the stream at its end.
LEMMA TakeEffect ==
  ASSUME TypeOK, SourceInv, head # "none", Take
  PROVE  /\ head' = "none" /\ sent' \in Seq(Tokens)
         /\ Len(sent') = Len(sent) + One(head # "boundary")
                                   + One(head \in {"boundary", "last"})
         /\ \A i \in 1 .. Len(sent) : sent'[i] = sent[i]
         /\ head # "boundary" =>
              sent'[Len(sent) + 1] = Record(head, records + 1)
         /\ head \in {"boundary", "last"} => sent'[Len(sent')] = EndOf(frame)
         /\ frame' = frame + One(head \in {"boundary", "last"})
         /\ records' = records + One(head # "boundary")
         /\ Record(head, records + 1) \in Tokens \/ head = "boundary"
<1>1. /\ frame \in Nat \ {0} /\ records \in Nat /\ sent \in Seq(Tokens)
      /\ head \in Kinds /\ Len(sent) < MaxSent /\ MaxSent \in Nat
      /\ frame <= MaxSent /\ records < MaxSent
  BY Constants DEF TypeOK, SourceInv
<1> DEFINE r == Record(head, records + 1)
           e == EndOf(frame)
<1>2. head # "boundary" => r \in Tokens
  BY <1>1 DEF Record, Tokens, Kinds
<1>3. e \in Tokens
  BY <1>1 DEF EndOf, Tokens
<1>4. CASE head = "boundary"
  <2>1. sent' = sent \o <<>> \o <<e>>
    BY <1>4 DEF Take
  <2>2. sent' = Append(sent, e)
    BY <1>1, <1>3, <2>1
  <2> QED
    BY <1>1, <1>3, <1>4, <2>2 DEF Take, One
<1>5. CASE head = "last"
  <2>1. sent' = sent \o <<r>> \o <<e>>
    BY <1>5 DEF Take
  <2>2. sent' = Append(Append(sent, r), e)
    BY <1>1, <1>2, <1>3, <1>5, <2>1
  <2> QED
    BY <1>1, <1>2, <1>3, <1>5, <2>2 DEF Take, One
<1>6. CASE head \in {"data", "fence"}
  <2>1. sent' = sent \o <<r>> \o <<>>
    BY <1>6 DEF Take
  <2>2. sent' = Append(sent, r)
    BY <1>1, <1>2, <1>6, <2>1
  <2>3. /\ head # "boundary" /\ head \notin {"boundary", "last"}
        /\ head' = "none" /\ records' = records + 1 /\ frame' = frame
    BY <1>6 DEF Take
  <2>4. /\ sent' \in Seq(Tokens) /\ Len(sent') = Len(sent) + 1
        /\ \A i \in 1 .. Len(sent) : sent'[i] = sent[i]
        /\ sent'[Len(sent) + 1] = r
    BY <1>1, <1>2, <2>2, <2>3
  <2> QED
    BY <1>1, <1>2, <2>3, <2>4 DEF One
<1> QED
  BY <1>1, <1>4, <1>5, <1>6 DEF Kinds

\* SourceInv holds at first.
LEMMA SourceInit == Init => SourceInv
  BY Constants DEF Init, SourceInv

\* Every step keeps SourceInv.
LEMMA SourceStep == TypeOK /\ SourceInv /\ [Next]_vars => SourceInv'
<1> SUFFICES ASSUME TypeOK, SourceInv, [Next]_vars PROVE SourceInv'
  OBVIOUS
<1>0. frame \in Nat /\ records \in Nat /\ MaxSent \in Nat /\ Len(sent) \in Nat
  BY Constants DEF TypeOK, SourceInv
<1> USE DEF source
<1>1. CASE Offer  BY <1>0, <1>1 DEF Offer, SourceInv, Kinds
<1>2. CASE Take /\ head # "none" /\ UNCHANGED released
  <2>1. /\ head' = "none" /\ sent' \in Seq(Tokens)
        /\ Len(sent') = Len(sent) + One(head # "boundary")
                                  + One(head \in {"boundary", "last"})
        /\ frame' = frame + One(head \in {"boundary", "last"})
        /\ records' = records + One(head # "boundary")
    BY <1>2, TakeEffect
  <2>2. /\ One(head # "boundary") \in {0, 1}
        /\ One(head \in {"boundary", "last"}) \in {0, 1}
    BY DEF One
  <2> QED
    BY <1>0, <1>2, <2>1, <2>2 DEF SourceInv
<1>3. CASE AcceptBoundary \/ AcceptRecord
  <2>1. CASE Take /\ head # "none" /\ UNCHANGED released  BY <1>2, <2>1
  <2>2. CASE UNCHANGED <<source, sent, released>>  BY <2>2 DEF SourceInv
  <2> QED
    BY <1>3, <2>1, <2>2 DEF AcceptBoundary, AcceptRecord, Kinds
<1>4. CASE UNCHANGED <<source, sent, released>>  BY <1>4 DEF SourceInv
<1>5. CASE \/ ReadControl \/ ReadAck \/ Exhaust \/ Flush \/ WriteBurst
           \/ WriteHeader \/ WriteCommit \/ WriteProducer
  BY <1>4, <1>5 DEF ReadControl, ReadAck, Exhaust, Flush, WriteBurst, WriteHeader,
                    WriteCommit, WriteProducer
<1>6. CASE Initialize \/ Consumer
  BY <1>4, <1>6 DEF Initialize, Consumer, BeginPacket, CopyPayload, Verify,
                    ApplyRecord, AcceptAll, FinishPacket, Acknowledge, Unshared
<1>7. CASE Release  BY <1>7 DEF Release, SourceInv
<1>8. CASE EndSession  BY <1>0, <1>8 DEF EndSession, SourceInv
<1>9. CASE NewSession  BY <1>0, <1>9 DEF NewSession, SourceInv
<1>10. CASE UNCHANGED vars  BY <1>4, <1>10 DEF vars
<1> QED
  BY <1>1, <1>3, <1>5, <1>6, <1>7, <1>8, <1>9, <1>10 DEF Next, Writer

-----------------------------------------------------------------------------
(* The slot of the packet in the making                                    *)

\* A burst replaces the records it covers and leaves those before it.
LEMMA OverlayEffect ==
  ASSUME NEW old \in Seq(Tokens), NEW new \in Seq(Tokens), NEW at \in Nat,
         at <= Len(old)
  PROVE  /\ Overlay(old, at, new) \in Seq(Tokens)
         /\ Len(Overlay(old, at, new)) \in Nat
         /\ at + Len(new) <= Len(Overlay(old, at, new))
         /\ \A i \in 1 .. at : Overlay(old, at, new)[i] = old[i]
         /\ \A i \in 1 .. Len(new) : Overlay(old, at, new)[at + i] = new[i]
<1> DEFINE n == IF at + Len(new) > Len(old) THEN at + Len(new) ELSE Len(old)
           f == [i \in 1 .. n |->
                   IF i \in at + 1 .. at + Len(new) THEN new[i - at] ELSE old[i]]
<1>1. n \in Nat /\ at + Len(new) <= n /\ Len(old) \in Nat /\ Len(new) \in Nat
  OBVIOUS
<1>2. ASSUME NEW i \in 1 .. n PROVE f[i] \in Tokens
  <2>1. CASE i \in at + 1 .. at + Len(new)
    <3>1. i - at \in 1 .. Len(new)
      BY <1>1, <2>1
    <3> QED
      BY <2>1, <3>1
  <2>2. CASE i \notin at + 1 .. at + Len(new)
    <3>1. i \in 1 .. Len(old)
      BY <1>1, <2>2
    <3> QED
      BY <2>2, <3>1
  <2> QED
    BY <2>1, <2>2
<1>3. f \in [1 .. n -> Tokens]
  BY <1>2
<1>4. f \in Seq(Tokens) /\ Len(f) = n
  BY <1>1, <1>3
<1>5. \A i \in 1 .. at : f[i] = old[i]
  BY <1>1
<1>6. ASSUME NEW i \in 1 .. Len(new) PROVE f[at + i] = new[i]
  <2>1. at + i \in 1 .. n /\ at + i \in at + 1 .. at + Len(new) /\ at + i - at = i
    BY <1>1
  <2> QED
    BY <2>1
<1>7. Overlay(old, at, new) = f
  BY DEF Overlay
<1> HIDE DEF f, n
<1> QED
  BY <1>1, <1>4, <1>5, <1>6, <1>7

\* The writer at work has an open packet, the one after the last, and its slot.
LEMMA OpenPacket ==
  ASSUME TypeOK, PacketInv, Running, state # "wait",
         count # 0 \/ buffer # <<>> \/ state # "collect"
  PROVE  /\ packet \in Nat /\ packet = producer + 1 /\ produced = producer
         /\ SlotOf(packet) \in Slots
         /\ \A q \in ack + 1 .. producer :
              SlotOf(q) \in Slots /\ SlotOf(q) # SlotOf(packet)
<1>1. /\ produced = producer /\ packet = produced + 1
      /\ acknowledged <= ack /\ produced - acknowledged < SlotCount
      /\ producer \in Nat /\ ack \in Nat /\ acknowledged \in Nat
  BY DEF PacketInv, WriterInv, CountersOK, Live, Open
<1>2. ASSUME NEW q \in ack + 1 .. producer
      PROVE  SlotOf(q) \in Slots /\ SlotOf(q) # SlotOf(packet)
  <2>1. q \in Nat /\ 1 <= q /\ q < packet /\ packet - q < SlotCount
    BY <1>1, Constants
  <2> QED
    BY <1>1, <2>1, DifferentSlots, SlotOfInSlots
<1> QED
  BY <1>1, <1>2, SlotOfInSlots

\* What WriteBurst does to the slots.
LEMMA BurstWritten ==
  ASSUME TypeOK, PacketInv, BuildInv, WriteBurst
  PROVE  /\ SlotOf(packet) \in Slots
         /\ slot' \in [Slots -> SlotContents]
         /\ slot'[SlotOf(packet)].header = slot[SlotOf(packet)].header
         /\ count' = count + Len(buffer)
         /\ count' <= Len(slot'[SlotOf(packet)].payload)
         /\ \A i \in 1 .. count :
              slot'[SlotOf(packet)].payload[i] = slot[SlotOf(packet)].payload[i]
         /\ \A i \in 1 .. Len(buffer) :
              slot'[SlotOf(packet)].payload[count + i] = buffer[i]
         /\ \A t \in Slots \ {SlotOf(packet)} : slot'[t] = slot[t]
<1> DEFINE k == SlotOf(packet)
           new == Overlay(slot[k].payload, count, buffer)
<1>1. k \in Slots
  BY OpenPacket DEF WriteBurst
<1>2. /\ slot \in [Slots -> SlotContents] /\ slot[k] \in SlotContents
      /\ slot[k].payload \in Seq(Tokens)
      /\ buffer \in Seq(Tokens) /\ count \in Nat
  <2>1. slot \in [Slots -> SlotContents] /\ buffer \in Seq(Tokens) /\ count \in Nat
    BY DEF TypeOK
  <2> QED
    BY <1>1, <2>1 DEF SlotContents
<1>3. count <= Len(slot[k].payload)
  BY <1>2 DEF BuildInv
<1>4. /\ new \in Seq(Tokens) /\ count + Len(buffer) <= Len(new)
      /\ \A i \in 1 .. count : new[i] = slot[k].payload[i]
      /\ \A i \in 1 .. Len(buffer) : new[count + i] = buffer[i]
  BY <1>2, <1>3, OverlayEffect
<1>5. /\ slot' = [slot EXCEPT ![k] = [slot[k] EXCEPT !.payload = new]]
      /\ count' = count + Len(buffer)
  BY DEF WriteBurst, Filled
<1> HIDE DEF new, k
<1>6. /\ [slot[k] EXCEPT !.payload = new] \in SlotContents
      /\ [slot[k] EXCEPT !.payload = new].payload = new
      /\ [slot[k] EXCEPT !.payload = new].header = slot[k].header
  BY <1>2, <1>4 DEF SlotContents
<1>7. slot'[k] = [slot[k] EXCEPT !.payload = new]
  BY <1>1, <1>2, <1>5
<1>8. /\ slot' \in [Slots -> SlotContents]
      /\ \A t \in Slots \ {k} : slot'[t] = slot[t]
  BY <1>1, <1>2, <1>5, <1>6
<1> QED
  BY <1>1, <1>4, <1>5, <1>6, <1>7, <1>8 DEF k

\* What WriteHeader does to the slots.
LEMMA HeaderWritten ==
  ASSUME TypeOK, PacketInv, BuildInv, WriteHeader
  PROVE  /\ SlotOf(packet) \in Slots
         /\ slot' \in [Slots -> SlotContents]
         /\ slot'[SlotOf(packet)].header = OpenHeader
         /\ slot'[SlotOf(packet)].payload = slot[SlotOf(packet)].payload
         /\ \A t \in Slots \ {SlotOf(packet)} : slot'[t] = slot[t]
<1> DEFINE k == SlotOf(packet)
           h == OpenHeader
<1>1. k \in Slots
  BY OpenPacket DEF WriteHeader
<1>2. /\ slot \in [Slots -> SlotContents] /\ slot[k] \in SlotContents
      /\ session \in 0 .. MaxSessions /\ packet \in 0 .. MaxSequence
      /\ packetFrame \in 0 .. MaxSent + 1 /\ count \in 0 .. MaxRecords
      /\ closeFlag \in {"none", "cont", "end"}
  BY <1>1, Constants DEF TypeOK
<1>3. h \in Headers
  BY <1>1, <1>2 DEF OpenHeader, Headers
<1>4. slot' = [slot EXCEPT ![k] = [slot[k] EXCEPT !.header = h]]
  BY DEF WriteHeader, OpenHeader
<1> HIDE DEF k, h
<1>5. /\ [slot[k] EXCEPT !.header = h] \in SlotContents
      /\ [slot[k] EXCEPT !.header = h].header = h
      /\ [slot[k] EXCEPT !.header = h].payload = slot[k].payload
  BY <1>2, <1>3 DEF SlotContents
<1>6. /\ slot'[k] = [slot[k] EXCEPT !.header = h]
      /\ slot' \in [Slots -> SlotContents]
      /\ \A t \in Slots \ {k} : slot'[t] = slot[t]
  BY <1>1, <1>2, <1>4, <1>5
<1> QED
  BY <1>1, <1>5, <1>6 DEF k, h

\* What WriteCommit does to the slots.
LEMMA CommitWritten ==
  ASSUME TypeOK, PacketInv, BuildInv, WriteCommit
  PROVE  /\ SlotOf(packet) \in Slots
         /\ slot' \in [Slots -> SlotContents]
         /\ slot'[SlotOf(packet)].header = slot[SlotOf(packet)].header
         /\ slot'[SlotOf(packet)].commit = packet
         /\ slot'[SlotOf(packet)].payload = slot[SlotOf(packet)].payload
         /\ \A t \in Slots \ {SlotOf(packet)} : slot'[t] = slot[t]
<1> DEFINE k == SlotOf(packet)
           s == [slot[k] EXCEPT !.commit = packet]
<1>1. k \in Slots
  BY OpenPacket DEF WriteCommit
<1>2. /\ slot \in [Slots -> SlotContents] /\ slot[k] \in SlotContents
      /\ packet \in 0 .. MaxSequence
  BY <1>1, Constants DEF TypeOK
<1>3. slot' = [slot EXCEPT ![k] = s]
  BY DEF WriteCommit
<1> HIDE DEF k
<1>4. /\ s \in SlotContents /\ s.commit = packet
      /\ s.header = slot[k].header /\ s.payload = slot[k].payload
  BY <1>2 DEF SlotContents
<1> HIDE DEF s
<1>5. /\ slot'[k] = s
      /\ slot' \in [Slots -> SlotContents]
      /\ \A t \in Slots \ {k} : slot'[t] = slot[t]
  BY <1>1, <1>2, <1>3, <1>4
<1> QED
  BY <1>1, <1>4, <1>5 DEF k

-----------------------------------------------------------------------------
(* The writer's packet                                                     *)

\* BuildInv speaks of the writer, the slots and the session only.
LEMMA BuildUnchanged ==
  ASSUME BuildInv, UNCHANGED <<writer, released, slot, session, sent>>
  PROVE  BuildInv'
  BY DEF BuildInv, WriterStart, Filled, Closing, OpenHeader, writer, build

\* The checks of the writer do not fire.
LEMMA WriterChecksPass ==
  ASSUME TypeOK, PacketInv, BuildInv, FrameInv, SlotInv, Running
  PROVE  /\ state = "wait" => ~(ack > producer \/ producer - ack > SlotCount)
         /\ state = "collect" => ~AckBad
         /\ state = "collect" /\ buffer = <<>> => Frame \in {0, frame}
         /\ state = "collect" /\ ~bufferEnd => Frame \in {0, frame}
<1>1. /\ producer \in Nat /\ ack \in Nat /\ acknowledged \in Nat
      /\ SlotCount \in Nat /\ ack <= producer
  BY Constants DEF PacketInv, CountersOK
<1>2. state = "wait" => ~(ack > producer \/ producer - ack > SlotCount)
  BY <1>1 DEF SlotInv
<1>3. state = "collect" => ~AckBad
  BY <1>1 DEF PacketInv, WriterInv, Live, AckBad
<1>4. ASSUME state = "collect", ~bufferEnd PROVE Frame \in {0, frame}
  BY <1>4 DEF FrameInv, Frame, Begun, Closed, Closing
<1> QED
  BY <1>2, <1>3, <1>4 DEF BuildInv

\* Every step keeps BuildInv.
LEMMA BuildStep ==
  ASSUME TypeOK, PacketInv, SourceInv, BuildInv, FrameInv, SlotInv, [Next]_vars
  PROVE  BuildInv'
<1>0. /\ count \in Nat /\ Len(buffer) \in Nat /\ buffer \in Seq(Tokens)
      /\ MaxRecords \in Nat \ {0}
  BY Constants DEF TypeOK
<1>1. CASE ReadControl
  <2>1. /\ reason' = reason /\ reason = 0 /\ state' = "collect" /\ WriterStart
        /\ UNCHANGED <<slot, build, released, sent>>
    BY <1>1, WriterChecksPass DEF ReadControl, Running, BuildInv, shared
  <2> QED
    BY <2>1, Constants DEF BuildInv, WriterStart, Filled, Closing, build
<1>2. CASE ReadAck
  <2>1. /\ UNCHANGED <<reason, state, build, slot, released, sent, session>>
        /\ state # "wait"
    BY <1>2, WriterChecksPass DEF ReadAck, shared
  <2> QED
    BY <2>1 DEF BuildInv, Filled, Closing, OpenHeader, build
<1>3. CASE Exhaust
  BY <1>3 DEF Exhaust, BuildInv, Filled, Closing, OpenHeader, build, shared
<1>4. CASE AcceptBoundary
  <2>1. /\ state = "collect" /\ reason = 0 /\ reason' = 0 /\ state' = "header"
        /\ buffer = <<>> /\ closeFlag' = "end" /\ released
        /\ UNCHANGED <<buffer, bufferEnd, bufferFence, count, slot>>
        /\ packet' = IF count = 0 THEN produced + 1 ELSE packet
    BY <1>4, WriterChecksPass DEF AcceptBoundary, Ready, Running, shared
  <2> QED
    BY <2>1 DEF BuildInv, Filled, Closing
<1>5. CASE AcceptRecord
  <2>1. /\ state = "collect" /\ reason = 0 /\ reason' = 0 /\ state' = state
        /\ head # "none" /\ ~MustFlush
        /\ buffer' = Append(buffer, Record(head, records + 1))
        /\ bufferEnd' = (head = "last") /\ bufferFence' = (head = "fence")
        /\ packet' = IF Filled = 0 THEN produced + 1 ELSE packet
        /\ UNCHANGED <<count, slot>>
    BY <1>5, WriterChecksPass
       DEF AcceptRecord, Ready, Running, MustFlush, shared, Kinds
  <2>2. /\ Len(buffer') = Len(buffer) + 1 /\ buffer' # <<>>
        /\ Filled <= MaxRecords /\ Filled # MaxRecords
    BY <1>0, <2>1 DEF MustFlush, BuildInv
  <2>3. Filled' <= MaxRecords
    BY <1>0, <2>1, <2>2 DEF Filled
  <2>4. count # 0 => packet' = packet
    BY <1>0, <2>1 DEF Filled
  <2> QED
    BY <2>1, <2>2, <2>3, <2>4 DEF BuildInv, Closing
<1>6. CASE Flush
  BY <1>6 DEF Flush, Ready, Running, BuildInv, Filled, Closing, build, shared
<1>7. CASE WriteBurst
  <2>1. /\ reason = 0 /\ reason' = 0 /\ buffer' = <<>> /\ ~bufferEnd' /\ ~bufferFence'
        /\ count' = count + Len(buffer) /\ buffer # <<>> /\ packet' = packet
        /\ count' <= Len(slot'[SlotOf(packet)].payload)
        /\ state' \in {"header", "collect"}
        /\ state' = "header" => closeFlag' \in {"cont", "end"}
    BY <1>7, BurstWritten DEF WriteBurst, Running, BuildInv
  <2>2. count' # 0 /\ Filled' = count' /\ count' = Filled
    BY <1>0, <2>1 DEF Filled
  <2> QED
    BY <2>1, <2>2 DEF BuildInv, Closing
<1>8. CASE WriteHeader
  <2>1. /\ reason = 0 /\ state = "header" /\ state' = "commit"
        /\ UNCHANGED <<build, reason, session>>
        /\ slot'[SlotOf(packet)].header = OpenHeader
        /\ slot'[SlotOf(packet)].payload = slot[SlotOf(packet)].payload
    BY <1>8, HeaderWritten DEF WriteHeader, Running
  <2> QED
    BY <2>1 DEF BuildInv, Filled, Closing, OpenHeader, build
<1>9. CASE WriteCommit
  <2>1. /\ reason = 0 /\ state = "commit" /\ state' = "producer"
        /\ UNCHANGED <<build, reason, session>>
        /\ slot'[SlotOf(packet)].header = slot[SlotOf(packet)].header
        /\ slot'[SlotOf(packet)].commit = packet
        /\ slot'[SlotOf(packet)].payload = slot[SlotOf(packet)].payload
    BY <1>9, CommitWritten DEF WriteCommit, Running
  <2> QED
    BY <2>1 DEF BuildInv, Filled, Closing, OpenHeader, build
<1>10. CASE WriteProducer
  <2>1. /\ reason = 0 /\ reason' = 0 /\ state = "producer" /\ state' = "collect"
        /\ count' = 0 /\ UNCHANGED <<buffer, bufferEnd, bufferFence>>
    BY <1>10 DEF WriteProducer, Running
  <2>2. buffer = <<>>
    BY <2>1 DEF PacketInv, WriterInv
  <2> QED
    BY <1>0, <2>1, <2>2 DEF BuildInv, Filled, Closing
<1>11. CASE UNCHANGED <<writer, released, slot, session, sent>>
  BY <1>11, BuildUnchanged
<1>12. CASE Offer \/ Initialize \/ Consumer
  BY <1>11, <1>12 DEF Offer, Initialize, Consumer, BeginPacket, CopyPayload, Verify,
                      ApplyRecord, AcceptAll, FinishPacket, Acknowledge, Unshared,
                      shared
<1>13. CASE Release
  <2>1. UNCHANGED <<writer, slot, session, sent>> /\ sent = <<>>
    BY <1>13 DEF Release, shared
  <2> QED
    BY <2>1 DEF BuildInv, WriterStart, Filled, Closing, OpenHeader, writer, build
<1>14. CASE EndSession \/ NewSession
  <2>1. /\ state' = "wait" /\ WriterStart' /\ ~released'
    BY <1>14 DEF EndSession, NewSession, WriterStart, BuildInv, PacketInv, WriterInv,
                 writer, build
  <2> QED
    BY <2>1, Constants DEF BuildInv, WriterStart, Filled, Closing
<1>15. CASE UNCHANGED vars
  BY <1>11, <1>15 DEF vars, shared
<1> QED
  BY <1>1, <1>2, <1>3, <1>4, <1>5, <1>6, <1>7, <1>8, <1>9, <1>10, <1>12, <1>13,
     <1>14, <1>15 DEF Next, Writer

\* A waiting writer satisfies FenceInv and FrameInv.
LEMMA IdleWriter ==
  ASSUME WriterStart, state = "wait"
  PROVE  FenceInv /\ FrameInv
<1>1. count = 0 /\ Len(buffer) = 0 /\ Filled = 0
  BY DEF WriterStart, Filled
<1> QED
  BY <1>1 DEF WriterStart, FenceInv, FrameInv, Closing, Closed, Begun

\* Every step keeps FenceInv.
LEMMA FenceStep ==
  ASSUME TypeOK, PacketInv, BuildInv, FenceInv, [Next]_vars
  PROVE  FenceInv'
<1>0. count \in Nat /\ Len(buffer) \in Nat /\ buffer \in Seq(Tokens)
  BY DEF TypeOK
<1>1. CASE UNCHANGED <<buffer, bufferFence, count, packet, closeFlag, slot>> /\
           Closing' = Closing
  BY <1>1 DEF FenceInv
<1>2. CASE Offer \/ Initialize \/ Consumer \/ Release
  BY <1>1, <1>2 DEF Offer, Initialize, Consumer, BeginPacket, CopyPayload, Verify,
       ApplyRecord, AcceptAll, FinishPacket, Acknowledge, Unshared, Release, shared,
       writer, build, Closing
<1>3. CASE ReadControl \/ ReadAck \/ Exhaust \/ Flush
  BY <1>1, <1>3 DEF ReadControl, ReadAck, Exhaust, Flush, Ready, shared, build, Closing
<1>4. CASE AcceptBoundary
  <2>1. CASE UNCHANGED <<state, build>>
    BY <1>1, <1>4, <2>1 DEF AcceptBoundary, shared, build, Closing
  <2>2. CASE UNCHANGED <<buffer, bufferEnd, bufferFence, count, slot>> /\
             packet' = (IF count = 0 THEN produced + 1 ELSE packet)
    <3>1. state = "collect"
      BY <1>4 DEF AcceptBoundary, Ready
    <3>2. count # 0 => packet' = packet
      BY <2>2
    <3>3. \A i \in 1 .. count : slot[SlotOf(packet)].payload[i].kind # "fence"
      BY <3>1 DEF FenceInv, Closing
    <3>4. ASSUME NEW i \in 1 .. count'
          PROVE  slot'[SlotOf(packet')].payload[i].kind # "fence"
      <4>1. count # 0 /\ i \in 1 .. count
        BY <1>0, <2>2
      <4> QED
        BY <2>2, <3>2, <3>3, <4>1
    <3>5. \A i \in 1 .. Len(buffer') :
            buffer'[i].kind = "fence" => bufferFence' /\ i = Len(buffer')
      BY <2>2 DEF FenceInv
    <3> QED
      BY <3>4, <3>5 DEF FenceInv
  <2> QED
    BY <1>4, <2>1, <2>2 DEF AcceptBoundary, shared
<1>5. CASE AcceptRecord
  <2>1. CASE UNCHANGED build
    BY <1>1, <1>5, <2>1 DEF AcceptRecord, shared, build, Closing
  <2>2. CASE buffer' = Append(buffer, Record(head, records + 1)) /\
             bufferFence' = (head = "fence") /\ UNCHANGED <<count, slot>> /\
             packet' = (IF Filled = 0 THEN produced + 1 ELSE packet)
    <3>1. state = "collect" /\ ~bufferFence
      BY <1>5 DEF AcceptRecord, Ready, MustFlush
    <3>2. count # 0 => packet' = packet
      BY <1>0, <2>2 DEF Filled
    <3>3. \A i \in 1 .. count : slot[SlotOf(packet)].payload[i].kind # "fence"
      BY <3>1 DEF FenceInv, Closing
    <3>4. \A i \in 1 .. Len(buffer) : buffer[i].kind # "fence"
      BY <3>1 DEF FenceInv
    <3>5. /\ Len(buffer') = Len(buffer) + 1
          /\ \A i \in 1 .. Len(buffer) : buffer'[i] = buffer[i]
          /\ buffer'[Len(buffer) + 1].kind = head
      BY <1>0, <2>2 DEF Record
    <3>6. ASSUME NEW i \in 1 .. Len(buffer'), buffer'[i].kind = "fence"
          PROVE  bufferFence' /\ i = Len(buffer')
      <4>1. i = Len(buffer) + 1
        BY <1>0, <3>4, <3>5, <3>6
      <4> QED
        BY <2>2, <3>5, <3>6, <4>1
    <3>7. ASSUME NEW i \in 1 .. count'
          PROVE  slot'[SlotOf(packet')].payload[i].kind # "fence"
      <4>1. count # 0 /\ i \in 1 .. count
        BY <1>0, <2>2
      <4> QED
        BY <2>2, <3>2, <3>3, <4>1
    <3> QED
      BY <3>6, <3>7 DEF FenceInv
  <2> QED
    BY <1>5, <2>1, <2>2 DEF AcceptRecord, shared
<1>6. CASE WriteBurst
  <2>1. /\ state = "burst" /\ buffer' = <<>> /\ packet' = packet
        /\ count' = count + Len(buffer)
        /\ \A i \in 1 .. count :
              slot'[SlotOf(packet)].payload[i] = slot[SlotOf(packet)].payload[i]
        /\ \A i \in 1 .. Len(buffer) :
              slot'[SlotOf(packet)].payload[count + i] = buffer[i]
    BY <1>6, BurstWritten DEF WriteBurst
  <2>2. \A i \in 1 .. count : slot'[SlotOf(packet)].payload[i].kind # "fence"
    BY <2>1 DEF FenceInv, Closing
  <2>3. bufferFence => Closing' /\ closeFlag' = "cont"
    BY <1>6 DEF WriteBurst, Continues, Closing, BuildInv
  <2>4. ASSUME NEW i \in 1 .. count', slot'[SlotOf(packet)].payload[i].kind = "fence"
        PROVE  Closing' /\ closeFlag' = "cont" /\ i = count'
    <3>1. i - count \in 1 .. Len(buffer) /\ count + (i - count) = i
      BY <1>0, <2>1, <2>2, <2>4
    <3>2. slot'[SlotOf(packet)].payload[i] = buffer[i - count]
      BY <2>1, <3>1
    <3>3. bufferFence /\ i - count = Len(buffer)
      BY <2>4, <3>1, <3>2 DEF FenceInv
    <3> QED
      BY <1>0, <2>1, <2>3, <3>3
  <2> QED
    BY <2>1, <2>4 DEF FenceInv
<1>7. CASE WriteHeader
  BY <1>7, HeaderWritten DEF WriteHeader, FenceInv, build, Closing
<1>8. CASE WriteCommit
  BY <1>8, CommitWritten DEF WriteCommit, FenceInv, build, Closing
<1>9. CASE WriteProducer
  <2>1. count' = 0 /\ buffer' = <<>>
    BY <1>9 DEF WriteProducer, PacketInv, WriterInv
  <2> QED
    BY <2>1 DEF FenceInv
<1>10. CASE EndSession \/ NewSession
  <2>1. count' = 0 /\ buffer' = <<>>
    BY <1>10 DEF EndSession, NewSession, WriterStart, BuildInv, PacketInv, WriterInv,
                 writer, build
  <2> QED
    BY <2>1 DEF FenceInv
<1>11. CASE UNCHANGED vars
  BY <1>1, <1>11 DEF vars, shared, writer, build, Closing
<1> QED
  BY <1>2, <1>3, <1>4, <1>5, <1>6, <1>7, <1>8, <1>9, <1>10, <1>11 DEF Next, Writer

\* Every step keeps FrameInv.
LEMMA FrameStep ==
  ASSUME TypeOK, PacketInv, SourceInv, BuildInv, FrameInv, SlotInv, [Next]_vars
  PROVE  FrameInv'
<1>0. /\ count \in Nat /\ Len(buffer) \in Nat /\ buffer \in Seq(Tokens)
      /\ frame \in Nat \ {0} /\ packetFrame \in Nat
      /\ buffer = <<>> <=> Len(buffer) = 0
  BY DEF TypeOK
<1>1. CASE /\ UNCHANGED <<buffer, bufferEnd, count, packetFrame, closeFlag, chain,
                          frame>>
           /\ Closing' = Closing
  BY <1>1 DEF FrameInv, Closed, Begun, Filled
<1>2. CASE Offer \/ Initialize \/ Consumer \/ Release
  BY <1>1, <1>2 DEF Offer, Initialize, Consumer, BeginPacket, CopyPayload, Verify,
       ApplyRecord, AcceptAll, FinishPacket, Acknowledge, Unshared, Release, shared,
       source, writer, build, Closing
<1>3. CASE ReadControl \/ ReadAck \/ Exhaust \/ Flush
  BY <1>1, <1>3 DEF ReadControl, ReadAck, Exhaust, Flush, Ready, source, build, Closing
<1>4. CASE AcceptBoundary
  <2>1. /\ state = "collect" /\ buffer = <<>> /\ state' = "header" /\ closeFlag' = "end"
        /\ packetFrame' = IF count = 0 THEN frame ELSE packetFrame
        /\ UNCHANGED <<buffer, bufferEnd, count, chain>> /\ Take /\ head = "boundary"
    BY <1>4, WriterChecksPass DEF AcceptBoundary, Ready
  <2>2. ~bufferEnd /\ frame' = frame + 1 /\ Filled = count
    BY <1>0, <2>1 DEF BuildInv, Take, Filled
  <2>3. packetFrame' = frame
    BY <1>0, <2>1, <2>2 DEF FrameInv, Begun, Closed, Closing
  <2>4. chain # 0 => chain = frame
    BY <1>0, <2>1, <2>2 DEF FrameInv, Begun, Closed, Closing
  <2> QED
    BY <1>0, <2>1, <2>2, <2>3, <2>4 DEF FrameInv, Begun, Closed, Closing
<1>5. CASE AcceptRecord
  <2>1. /\ state = "collect" /\ ~bufferEnd /\ state' = state
        /\ buffer' = Append(buffer, Record(head, records + 1))
        /\ bufferEnd' = (head = "last") /\ head # "boundary"
        /\ packetFrame' = IF Filled = 0 THEN frame ELSE packetFrame
        /\ UNCHANGED <<count, closeFlag, chain>> /\ Take
    BY <1>5, WriterChecksPass DEF AcceptRecord, Ready, MustFlush
  <2>2. /\ frame' = IF head = "last" THEN frame + 1 ELSE frame
        /\ Len(buffer') = Len(buffer) + 1
    BY <1>0, <2>1 DEF Take
  <2>3. packetFrame' = frame /\ (chain # 0 => chain = frame)
    BY <1>0, <2>1 DEF FrameInv, Begun, Closed, Closing, Filled
  <2>4. Filled' # 0
    BY <1>0, <2>1, <2>2 DEF Filled
  <2> QED
    BY <1>0, <2>1, <2>2, <2>3, <2>4 DEF FrameInv, Begun, Closed, Closing
<1>6. CASE WriteBurst
  <2>1. /\ state = "burst" /\ buffer' = <<>> /\ ~bufferEnd' /\ count' = Filled
        /\ closeFlag' = IF bufferEnd THEN "end"
                        ELSE IF Continues THEN "cont" ELSE closeFlag
        /\ state' = IF bufferEnd \/ Continues THEN "header" ELSE "collect"
        /\ UNCHANGED <<frame, packetFrame, chain>> /\ buffer # <<>>
    BY <1>6 DEF WriteBurst, BuildInv, source
  <2>2. Filled # 0 /\ Filled' = Filled
    BY <1>0, <2>1 DEF Filled
  <2>3. Begun /\ Begun' /\ (Closed <=> bufferEnd) /\ (Closed' <=> bufferEnd)
    BY <2>1, <2>2 DEF Begun, Closed, Closing
  <2> QED
    BY <2>1, <2>3 DEF FrameInv
<1>7. CASE WriteHeader \/ WriteCommit
  BY <1>1, <1>7 DEF WriteHeader, WriteCommit, source, build, Closing
<1>8. CASE WriteProducer
  <2>1. /\ state = "producer" /\ state' = "collect" /\ count' = 0 /\ buffer = <<>>
        /\ chain' = IF closeFlag = "cont" THEN packetFrame ELSE 0
        /\ UNCHANGED <<frame, packetFrame, buffer, bufferEnd>>
    BY <1>8 DEF WriteProducer, ChainAfter, PacketInv, WriterInv, source
  <2>2. ~bufferEnd /\ ~Begun' /\ ~Closed'
    BY <1>0, <2>1 DEF BuildInv, Begun, Closed, Closing, Filled
  <2>3. closeFlag = "cont" => packetFrame = frame
    BY <2>1, <2>2 DEF FrameInv, Begun, Closed, Closing
  <2> QED
    BY <2>1, <2>2, <2>3 DEF FrameInv
<1>9. CASE EndSession \/ NewSession
  <2>1. /\ state' = "wait" /\ WriterStart'
    BY <1>9 DEF EndSession, NewSession, WriterStart, BuildInv, PacketInv, WriterInv,
                writer, build
  <2>2. count' = 0 /\ Filled' = 0
    BY <2>1 DEF WriterStart, Filled
  <2> QED
    BY <2>1, <2>2 DEF WriterStart, FrameInv, Closing, Closed, Begun
<1>10. CASE UNCHANGED vars
  BY <1>1, <1>10 DEF vars, source, writer, build, Closing
<1> QED
  BY <1>2, <1>3, <1>4, <1>5, <1>6, <1>7, <1>8, <1>9, <1>10 DEF Next, Writer

\* The parts about the writer hold at first.
LEMMA BuildInit == Init => BuildInv /\ FenceInv /\ FrameInv
<1> SUFFICES ASSUME Init PROVE BuildInv /\ FenceInv /\ FrameInv
  OBVIOUS
<1>1. WriterStart /\ state = "wait" /\ sent = <<>> /\ count = 0 /\ Filled = 0
  BY DEF Init, WriterStart, Filled
<1>2. FenceInv /\ FrameInv
  BY <1>1, IdleWriter
<1>3. BuildInv
  BY <1>1, Constants DEF BuildInv, WriterStart, Closing
<1> QED
  BY <1>2, <1>3

-----------------------------------------------------------------------------
(* The packets that wait in the slots, and the consumer                    *)

\* A slot that is in use keeps what it holds until the next session.
LEMMA InUseKept ==
  ASSUME TypeOK, PacketInv, BuildInv, [Next]_vars, ~NewSession,
         NEW q \in ack + 1 .. producer
  PROVE  SlotOf(q) \in Slots /\ slot'[SlotOf(q)] = slot[SlotOf(q)]
<1>0. SlotOf(q) \in Slots
  BY SlotOfInSlots DEF PacketInv, CountersOK
<1>1. CASE UNCHANGED slot
  BY <1>0, <1>1
<1>2. CASE WriteBurst
  BY <1>0, <1>2, BurstWritten, OpenPacket DEF WriteBurst
<1>3. CASE WriteHeader
  BY <1>0, <1>3, HeaderWritten, OpenPacket DEF WriteHeader
<1>4. CASE WriteCommit
  BY <1>0, <1>4, CommitWritten, OpenPacket DEF WriteCommit
<1>5. CASE \/ ReadControl \/ ReadAck \/ Exhaust \/ AcceptBoundary
           \/ AcceptRecord \/ Flush \/ WriteProducer
  BY <1>1, <1>5 DEF ReadControl, ReadAck, Exhaust, AcceptBoundary, AcceptRecord,
                    Flush, WriteProducer, shared
<1>6. CASE Offer \/ Release \/ EndSession \/ Initialize \/ Consumer \/ UNCHANGED vars
  BY <1>1, <1>6 DEF Offer, Release, EndSession, Initialize, Consumer, BeginPacket,
       CopyPayload, Verify, ApplyRecord, AcceptAll, FinishPacket, Acknowledge,
       Unshared, shared, vars
<1> QED
  BY <1>2, <1>3, <1>4, <1>5, <1>6 DEF Next, Writer

\* The stream only grows, until the next session.
LEMMA SentGrows ==
  ASSUME TypeOK, SourceInv, [Next]_vars, ~NewSession
  PROVE  /\ Len(sent) <= Len(sent')
         /\ \A i \in 1 .. Len(sent) : sent'[i] = sent[i]
         /\ sent' # sent => released /\ Take
<1>0. Len(sent) \in Nat
  BY DEF SourceInv
<1>1. CASE UNCHANGED sent
  BY <1>0, <1>1
<1>2. CASE head # "none" /\ Take /\ released
  <2>1. /\ One(head # "boundary") \in {0, 1}
        /\ One(head \in {"boundary", "last"}) \in {0, 1}
    BY DEF One
  <2> QED
    BY <1>0, <1>2, <2>1, TakeEffect
<1>3. CASE AcceptBoundary \/ AcceptRecord
  BY <1>1, <1>2, <1>3 DEF AcceptBoundary, AcceptRecord, Ready, Running, Kinds
<1>4. CASE \/ ReadControl \/ ReadAck \/ Exhaust \/ Flush \/ WriteBurst
           \/ WriteHeader \/ WriteCommit \/ WriteProducer
  BY <1>1, <1>4 DEF ReadControl, ReadAck, Exhaust, Flush, WriteBurst, WriteHeader,
                    WriteCommit, WriteProducer
<1>5. CASE Offer \/ Release \/ EndSession \/ Initialize \/ Consumer \/ UNCHANGED vars
  BY <1>1, <1>5 DEF Offer, Release, EndSession, Initialize, Consumer, BeginPacket,
       CopyPayload, Verify, ApplyRecord, AcceptAll, FinishPacket, Acknowledge,
       Unshared, vars
<1> QED
  BY <1>3, <1>4, <1>5 DEF Next, Writer

\* The checks of the consumer do not fire.
LEMMA ConsumerChecksPass ==
  ASSUME TypeOK, SlotInv, ConsumerInv, NEW ch, ChainInv(ch),
         pc \notin {"off", "exhausted"}
  PROVE  /\ ~CountersBad
         /\ expected <= producer =>
              /\ slot[SlotOf(expected)].commit = expected
              /\ HeaderValid(slot[SlotOf(expected)].header)
         /\ pc \in {"payload", "verify", "apply", "ack"} => SameHeader
         /\ pc = "verify" => FencesLast
<1>1. /\ expected = ack + 1 /\ ack \in Nat /\ producer \in Nat /\ ack <= producer
      /\ copy \in Seq(Tokens) /\ header \in Headers /\ slot \in [Slots -> SlotContents]
  BY DEF TypeOK, ConsumerInv
<1>2. ~CountersBad
  BY <1>1, Constants DEF CountersBad, SlotInv
<1>3. ASSUME expected <= producer
      PROVE  /\ slot[SlotOf(expected)].commit = expected
             /\ HeaderValid(slot[SlotOf(expected)].header)
  <2> DEFINE s == slot[SlotOf(expected)]
  <2>1. expected \in ack + 1 .. producer
    BY <1>1, <1>3
  <2>2. SlotOf(expected) \in Slots
    BY <1>1, SlotOfInSlots
  <2>3. s.header.count \in 0 .. MaxRecords
    BY <1>1, <2>2 DEF SlotContents, Headers
  <2>4. /\ s.commit = expected /\ s.header.session = session
        /\ s.header.sequence = expected /\ s.header.flag \in {"cont", "end"}
        /\ s.header.slot = SlotOf(expected)
    BY <2>1 DEF SlotInv
  <2>5. hpsChain # 0 => s.header.frame = hpsChain
    <3>1. ch[expected - 1] = hpsChain
      BY <1>1 DEF ChainInv
    <3> QED
      BY <2>1, <3>1 DEF ChainInv
  <2> QED
    BY <2>3, <2>4, <2>5, Constants DEF HeaderValid
<1>4. pc \in {"payload", "verify", "apply", "ack"} => SameHeader
  BY <1>3 DEF SameHeader, ConsumerInv
<1>5. ASSUME pc = "verify" PROVE FencesLast
  <2>1. /\ expected \in ack + 1 .. producer /\ header = slot[SlotOf(expected)].header
        /\ Len(copy) = header.count
        /\ \A i \in 1 .. header.count : copy[i] = slot[SlotOf(expected)].payload[i]
    BY <1>1, <1>5 DEF ConsumerInv
  <2>2. \A i \in 1 .. header.count :
          copy[i].kind = "fence" => header.flag = "cont" /\ i = header.count
    BY <2>1 DEF SlotInv
  <2> QED
    BY <1>1, <2>1, <2>2 DEF FencesLast
<1> QED
  BY <1>2, <1>3, <1>4, <1>5

\* A packet that is being published has taken something of the stream.
LEMMA PublishedNotEmpty ==
  ASSUME TypeOK, BuildInv, NEW at, StreamInv(at), released, Closing
  PROVE  sent # <<>>
<1>1. count \in Nat /\ Len(buffer) \in Nat /\ producer \in Nat /\ Len(<<>>) = 0
  BY DEF TypeOK
<1>2. at[producer] \in Nat
  BY <1>1 DEF StreamInv, CutInv
<1>3. Filled \in Nat /\ (count # 0 => Filled # 0) /\ One(Closed) \in {0, 1}
  BY <1>1 DEF Filled, One
<1>4. count = 0 => One(Closed) = 1
  BY DEF BuildInv, Closed, One
<1>5. Len(sent) = at[producer] + Filled + One(Closed)
  BY DEF StreamInv, HeldInv
<1> QED
  BY <1>1, <1>2, <1>3, <1>4, <1>5

\* WriteProducer publishes the packet in the making.
LEMMA ProducerEffect ==
  ASSUME TypeOK, PacketInv, BuildInv, FenceInv, WriteProducer
  PROVE  /\ packet = producer + 1 /\ packet \in Nat /\ producer' = packet
         /\ packet - ack <= SlotCount
         /\ slot' = slot /\ ack' = ack /\ session' = session /\ sent' = sent
         /\ SlotOf(packet) \in Slots
         /\ slot[SlotOf(packet)].header = OpenHeader
         /\ slot[SlotOf(packet)].commit = packet
         /\ count <= Len(slot[SlotOf(packet)].payload)
         /\ closeFlag \in {"cont", "end"}
         /\ \A i \in 1 .. count :
              slot[SlotOf(packet)].payload[i].kind = "fence" =>
                closeFlag = "cont" /\ i = count
<1>1. state = "producer" /\ Running /\ Closing /\ state # "wait" /\ state # "collect"
  BY DEF WriteProducer, Closing
<1>2. packet = producer + 1 /\ packet \in Nat /\ SlotOf(packet) \in Slots
  BY <1>1, OpenPacket
<1>3. packet - ack <= SlotCount
  BY <1>1, Constants DEF PacketInv, WriterInv, CountersOK, Live, Open
<1>4. slot[SlotOf(packet)].payload \in Seq(Tokens) /\ count \in Nat
  BY <1>2 DEF TypeOK, SlotContents
<1>5. count <= Len(slot[SlotOf(packet)].payload)
  BY <1>4 DEF BuildInv
<1> QED
  BY <1>1, <1>2, <1>3, <1>5 DEF WriteProducer, BuildInv, FenceInv

\* Every step keeps SlotInv.
LEMMA SlotStep ==
  ASSUME TypeOK, PacketInv, SourceInv, BuildInv, FenceInv, SlotInv,
         NEW at, StreamInv(at), [Next]_vars
  PROVE  SlotInv'
<1>0. /\ ack \in Nat /\ producer \in Nat /\ SlotCount \in Nat /\ ack <= producer
      /\ expected \in Nat
  BY Constants DEF TypeOK
<1>1. CASE NewSession
  <2>1. producer' = 0 /\ ack' = 0 /\ 0 <= SlotCount /\ 0 - 0 = 0
    BY <1>0, <1>1 DEF NewSession
  <2> QED
    BY <2>1 DEF SlotInv
<1>2. CASE WriteProducer
  <2>1. released /\ Closing
    BY <1>2 DEF WriteProducer, Running, Closing
  <2>2. sent' # <<>> /\ producer' - ack' <= SlotCount
    BY <1>2, <2>1, PublishedNotEmpty, ProducerEffect
  <2>3. ASSUME NEW q \in ack' + 1 .. producer'
        PROVE  LET s == slot'[SlotOf(q)]
                   h == s.header
               IN /\ s.commit = q /\ h.session = session' /\ h.sequence = q
                  /\ h.flag \in {"cont", "end"} /\ h.slot = SlotOf(q)
                  /\ h.count <= Len(s.payload)
                  /\ \A i \in 1 .. h.count :
                       s.payload[i].kind = "fence" => h.flag = "cont" /\ i = h.count
    <3>1. q \in ack + 1 .. producer \/ q = packet
      BY <1>0, <1>2, ProducerEffect
    <3>2. CASE q \in ack + 1 .. producer
      BY <1>2, <3>2, ProducerEffect DEF SlotInv
    <3>3. CASE q = packet
      BY <1>2, <3>3, ProducerEffect DEF OpenHeader
    <3> QED
      BY <3>1, <3>2, <3>3
  <2> QED
    BY <2>2, <2>3 DEF SlotInv
<1>3. CASE ~NewSession /\ ~WriteProducer
  <2>1. /\ producer' = producer /\ session' = session
        /\ ack' = ack \/ (ack' = ack + 1 /\ ack' \in 0 .. producer)
    <3>1. CASE Acknowledge
      BY <1>0, <3>1 DEF Acknowledge, CountersBad
    <3>2. CASE \/ ReadControl \/ ReadAck \/ Exhaust \/ AcceptBoundary
               \/ AcceptRecord \/ Flush \/ WriteBurst \/ WriteHeader \/ WriteCommit
      BY <3>2 DEF ReadControl, ReadAck, Exhaust, AcceptBoundary, AcceptRecord,
                  Flush, WriteBurst, WriteHeader, WriteCommit, shared
    <3>3. CASE \/ Offer \/ Release \/ EndSession \/ Initialize \/ BeginPacket
               \/ CopyPayload \/ Verify \/ ApplyRecord \/ AcceptAll \/ FinishPacket
               \/ UNCHANGED vars
      BY <3>3 DEF Offer, Release, EndSession, Initialize, BeginPacket, CopyPayload,
                  Verify, ApplyRecord, AcceptAll, FinishPacket, Unshared, shared, vars
    <3> QED
      BY <1>3, <3>1, <3>2, <3>3 DEF Next, Writer, Consumer
  <2>2. sent' = <<>> => sent = <<>>
    BY <1>3, SentGrows DEF SourceInv
  <2>3. producer' - ack' <= SlotCount
    BY <1>0, <2>1 DEF SlotInv
  <2>4. \A q \in ack' + 1 .. producer' : q \in ack + 1 .. producer
    BY <1>0, <2>1
  <2>5. \A q \in ack' + 1 .. producer' : slot'[SlotOf(q)] = slot[SlotOf(q)]
    BY <1>3, <2>4, InUseKept
  <2> QED
    BY <2>1, <2>2, <2>3, <2>4, <2>5 DEF SlotInv
<1> QED
  BY <1>1, <1>2, <1>3

\* The consumer's part holds at first.
LEMMA ConsumerInit == Init => ConsumerInv
<1> SUFFICES ASSUME Init PROVE ConsumerInv
  OBVIOUS
<1>1. copy = <<>> /\ Len(copy) = 0 /\ done = 0
  BY DEF Init, ConsumerStart
<1> QED
  BY <1>1 DEF Init, ConsumerStart, ConsumerInv

\* A step of another actor leaves the consumer's part as it is.
LEMMA ConsumerUndisturbed ==
  ASSUME TypeOK, PacketInv, BuildInv, ConsumerInv, [Next]_vars, ~NewSession,
         UNCHANGED <<consumer, ack>>, producer' >= producer,
         pc = "off" => ~released' /\ sent' = <<>>
  PROVE  ConsumerInv'
<1>1. UNCHANGED <<pc, expected, hpsChain, header, copy, done, hpsFault, ack>>
  BY DEF consumer
<1>2. /\ ack \in Nat /\ producer \in Nat /\ expected \in Nat /\ producer' \in Nat
  <2>1. producer' = producer \/ producer' = packet
    BY DEF Next, Writer, Offer, ReadControl, ReadAck, Exhaust, AcceptBoundary,
       AcceptRecord, Flush, WriteBurst, WriteHeader, WriteCommit, WriteProducer,
       Initialize, Consumer, BeginPacket, CopyPayload, Verify, ApplyRecord, AcceptAll,
       FinishPacket, Acknowledge, Unshared, Release, EndSession, shared, vars
  <2> QED
    BY <2>1 DEF TypeOK
<1>3. ASSUME pc \in {"payload", "verify", "apply", "ack"}
      PROVE  slot'[SlotOf(expected)] = slot[SlotOf(expected)]
  <2>1. expected \in ack + 1 .. producer
    BY <1>2, <1>3 DEF ConsumerInv
  <2> QED
    BY <2>1, InUseKept
<1> QED
  BY <1>1, <1>2, <1>3 DEF ConsumerInv

\* Every step keeps ConsumerInv.
LEMMA ConsumerStep ==
  ASSUME TypeOK, PacketInv, SourceInv, BuildInv, FenceInv, SlotInv, ConsumerInv,
         NEW ch, ChainInv(ch), [Next]_vars
  PROVE  ConsumerInv'
<1>0. /\ ack \in Nat /\ producer \in Nat /\ expected \in Nat /\ ack <= producer
      /\ copy \in Seq(Tokens) /\ done \in Nat /\ header \in Headers
      /\ ack <= MaxSequence /\ MaxSequence \in Nat \ {0} /\ SlotCount \in Nat
      /\ slot \in [Slots -> SlotContents]
  BY Constants DEF TypeOK
<1>1. CASE WriteProducer
  <2>1. producer' >= producer /\ released /\ UNCHANGED <<consumer, ack>>
    BY <1>0, <1>1, ProducerEffect DEF WriteProducer, Running
  <2>2. ~NewSession
    BY <2>1 DEF NewSession
  <2> QED
    BY <2>1, <2>2, ConsumerUndisturbed DEF ConsumerInv
<1>2. CASE UNCHANGED <<consumer, ack, producer, released, sent>> /\ ~NewSession
  BY <1>0, <1>2, ConsumerUndisturbed DEF ConsumerInv
<1>3. CASE AcceptBoundary \/ AcceptRecord
  <2>1. released /\ UNCHANGED <<consumer, ack, producer>>
    BY <1>3 DEF AcceptBoundary, AcceptRecord, Ready, Running, shared
  <2>2. ~NewSession
    BY <2>1 DEF NewSession
  <2> QED
    BY <1>0, <2>1, <2>2, ConsumerUndisturbed DEF ConsumerInv
<1>4. CASE \/ ReadControl \/ ReadAck \/ Exhaust \/ Flush \/ WriteBurst
           \/ WriteHeader \/ WriteCommit \/ Offer
  <2>1. released /\ UNCHANGED <<consumer, ack, producer, released, sent>>
    BY <1>4 DEF ReadControl, ReadAck, Exhaust, Flush, Ready, WriteBurst, WriteHeader,
                WriteCommit, Offer, Running, shared
  <2> QED
    BY <1>2, <2>1 DEF NewSession
<1>5. CASE EndSession
  <2>1. released /\ ~released' /\ UNCHANGED <<consumer, ack, producer, sent>>
    BY <1>5 DEF EndSession, shared
  <2>2. ~NewSession
    BY <2>1 DEF NewSession
  <2> QED
    BY <1>0, <2>1, <2>2, ConsumerUndisturbed DEF ConsumerInv
<1>6. CASE Release
  <2>1. pc = "idle" /\ released' /\ UNCHANGED <<consumer, ack, producer, sent>>
    BY <1>6 DEF Release, shared
  <2>2. ~NewSession
    BY <2>1 DEF NewSession, Release
  <2> QED
    BY <1>0, <2>1, <2>2, ConsumerUndisturbed
<1>7. CASE NewSession
  <2>1. /\ pc' = "off" /\ hpsFault' = "none" /\ hpsChain' = 0 /\ copy' = <<>>
        /\ done' = 0 /\ sent' = <<>> /\ ~released'
    BY <1>7 DEF NewSession
  <2>2. Len(copy') = 0
    BY <2>1
  <2> QED
    BY <2>1, <2>2 DEF ConsumerInv
<1>8. CASE Initialize
  <2>1. producer = 0 /\ ack = 0 /\ copy = <<>> /\ done = 0 /\ hpsChain = 0
        /\ hpsFault = "none" /\ pc = "off"
    BY <1>0, <1>8 DEF Initialize, SlotInv, ConsumerInv
  <2>2. /\ pc' = "idle" /\ expected' = ack + 1
        /\ UNCHANGED <<hpsChain, copy, done, hpsFault, ack, producer>>
    BY <1>0, <1>8, <2>1 DEF Initialize, Unshared, shared
  <2> QED
    BY <2>1, <2>2 DEF ConsumerInv
<1>9. CASE BeginPacket
  <2>1. pc = "idle" /\ ~CountersBad /\ producer >= expected /\ expected = ack + 1
    BY <1>9, ConsumerChecksPass DEF BeginPacket, ConsumerInv
  <2>2. /\ slot[SlotOf(expected)].commit = expected
        /\ HeaderValid(slot[SlotOf(expected)].header)
    BY <1>0, <2>1, ConsumerChecksPass
  <2>3. /\ pc' = "payload" /\ header' = slot[SlotOf(expected)].header
        /\ UNCHANGED <<expected, hpsChain, copy, done, hpsFault, slot, ack, producer>>
    BY <1>9, <2>1, <2>2 DEF BeginPacket, Unshared, shared
  <2> QED
    BY <1>0, <2>1, <2>3 DEF ConsumerInv
<1>10. CASE CopyPayload
  <2>1. /\ pc = "payload" /\ pc' = "verify" /\ expected = ack + 1
        /\ expected <= producer /\ header = slot[SlotOf(expected)].header
        /\ copy' = SubSeq(slot[SlotOf(expected)].payload, 1, header.count)
        /\ UNCHANGED <<expected, hpsChain, header, done, hpsFault, slot, ack, producer>>
    BY <1>10 DEF CopyPayload, Unshared, shared, ConsumerInv
  <2>2. SlotOf(expected) \in Slots /\ expected \in ack + 1 .. producer
    BY <1>0, <2>1, SlotOfInSlots
  <2>3. /\ slot[SlotOf(expected)].payload \in Seq(Tokens) /\ header.count \in Nat
        /\ header.count <= Len(slot[SlotOf(expected)].payload)
    BY <1>0, <2>1, <2>2 DEF SlotInv, SlotContents, Headers
  <2>4. /\ Len(copy') = header.count
        /\ \A i \in 1 .. header.count : copy'[i] = slot[SlotOf(expected)].payload[i]
    BY <2>1, <2>3
  <2> QED
    BY <1>0, <2>1, <2>3, <2>4 DEF ConsumerInv
<1>11. CASE Verify
  <2>1. pc = "verify" /\ SameHeader /\ FencesLast
    BY <1>11, ConsumerChecksPass DEF Verify
  <2>2. /\ pc' = "apply"
        /\ UNCHANGED <<expected, hpsChain, header, copy, done, hpsFault, slot, ack,
                       producer>>
    BY <1>11, <2>1 DEF Verify, Unshared, shared
  <2> QED
    BY <1>0, <2>1, <2>2 DEF ConsumerInv
<1>12. CASE ApplyRecord \/ AcceptAll \/ FinishPacket
  <2>1. /\ pc = "apply" /\ pc' \in {"apply", "ack"}
        /\ done' \in Nat /\ done' <= Len(copy)
        /\ pc' = "ack" => done' = Len(copy)
        /\ UNCHANGED <<expected, hpsChain, header, copy, hpsFault, slot, ack, producer>>
    BY <1>0, <1>12 DEF ApplyRecord, AcceptAll, FinishPacket, AllApplied, Unshared,
                      shared
  <2> QED
    BY <1>0, <2>1 DEF ConsumerInv
<1>13. CASE Acknowledge
  <2>1. /\ pc = "ack" /\ expected = ack + 1 /\ expected <= producer /\ ~CountersBad
        /\ SameHeader
    BY <1>13, ConsumerChecksPass DEF Acknowledge, ConsumerInv
  <2>2. /\ ack' = expected /\ copy' = <<>> /\ done' = 0 /\ hpsFault' = hpsFault
        /\ producer' = producer
        /\ \/ pc' = "exhausted" /\ expected' = expected /\ expected = MaxSequence
           \/ pc' = "idle" /\ expected' = expected + 1
    BY <1>0, <1>13, <2>1 DEF Acknowledge
  <2>3. Len(copy') = 0
    BY <2>2
  <2> QED
    BY <1>0, <2>1, <2>2, <2>3 DEF ConsumerInv
<1>14. CASE UNCHANGED vars
  <2>1. UNCHANGED <<consumer, ack, producer, released, sent, session>>
    BY <1>14 DEF vars, shared
  <2>2. session \in Nat
    BY DEF TypeOK
  <2> QED
    BY <1>2, <2>1, <2>2 DEF NewSession
<1> QED
  BY <1>1, <1>3, <1>4, <1>5, <1>6, <1>7, <1>8, <1>9, <1>10, <1>11, <1>12, <1>13,
     <1>14 DEF Next, Writer, Consumer

-----------------------------------------------------------------------------
(* The frame chain                                                         *)

\* There is a chain at first.
LEMMA ChainInit == Init => \E ch : ChainInv(ch)
<1> SUFFICES ASSUME Init PROVE \E ch : ChainInv(ch)
  OBVIOUS
<1> DEFINE c == [q \in {0} |-> 0]
<1>1. /\ producer = 0 /\ ack = 0 /\ hpsChain = 0 /\ chain = 0 /\ 0 .. 0 = {0}
      /\ 0 + 1 .. 0 = {}
  BY DEF Init, WriterStart, ConsumerStart
<1>2. c \in [0 .. producer -> Nat] /\ c[0] = 0
  BY <1>1
<1> HIDE DEF c
<1>3. ChainInv(c)
  BY <1>1, <1>2 DEF ChainInv
<1> QED
  BY <1>3

\* A packet that is published has the frame the chain asks for.
LEMMA ChainPublished ==
  ASSUME TypeOK, PacketInv, BuildInv, FenceInv, FrameInv, NEW ch, ChainInv(ch),
         WriteProducer
  PROVE  \E c : ChainInv(c)'
<1>0. /\ ack \in Nat /\ producer \in Nat /\ ack <= producer /\ packetFrame \in Nat
      /\ chain \in Nat
  BY DEF TypeOK
<1>1. /\ packet = producer + 1 /\ producer' = packet /\ slot' = slot /\ ack' = ack
      /\ slot[SlotOf(packet)].header = OpenHeader /\ chain' = ChainAfter
      /\ hpsChain' = hpsChain /\ released
  BY ProducerEffect DEF WriteProducer, Running, consumer
<1>2. ChainAfter \in Nat
  BY <1>0 DEF ChainAfter
<1> DEFINE e == [q \in 0 .. packet |-> IF q = packet THEN ChainAfter ELSE ch[q]]
<1>3. PICK c : c = e
  OBVIOUS
<1>4. /\ c \in [0 .. packet -> Nat] /\ c[packet] = ChainAfter
      /\ \A q \in 0 .. producer : c[q] = ch[q]
  BY <1>0, <1>1, <1>2, <1>3 DEF ChainInv
<1>5. c[ack'] = hpsChain'
  BY <1>0, <1>1, <1>4 DEF ChainInv
<1>6. ch[producer] # 0 => packetFrame = ch[producer]
  BY <1>1 DEF ChainInv, FrameInv, Begun, Closing, WriteProducer
<1>7. ASSUME NEW q \in ack' + 1 .. producer'
      PROVE  LET h == slot'[SlotOf(q)].header
             IN /\ c[q] = IF h.flag = "cont" THEN h.frame ELSE 0
                /\ c[q - 1] # 0 => h.frame = c[q - 1]
  <2>1. CASE q = packet
    <3>1. c[q] = ChainAfter /\ c[q - 1] = ch[producer]
      BY <1>0, <1>1, <1>4, <2>1
    <3> QED
      BY <1>1, <1>6, <2>1, <3>1 DEF OpenHeader, ChainAfter
  <2>2. CASE q # packet
    <3>1. q \in ack + 1 .. producer /\ q \in 0 .. producer /\ q - 1 \in 0 .. producer
      BY <1>0, <1>1, <2>2
    <3>2. c[q] = ch[q] /\ c[q - 1] = ch[q - 1]
      BY <1>4, <3>1
    <3> QED
      BY <1>1, <3>1, <3>2 DEF ChainInv
  <2> QED
    BY <2>1, <2>2
<1>8. ChainInv(c)'
  BY <1>1, <1>4, <1>5, <1>7 DEF ChainInv
<1> QED
  BY <1>8

\* Every step keeps a chain.
LEMMA ChainStep ==
  ASSUME TypeOK, PacketInv, SourceInv, BuildInv, FenceInv, FrameInv, SlotInv,
         ConsumerInv, NEW ch, ChainInv(ch), [Next]_vars
  PROVE  \E c : ChainInv(c)'
<1>0. /\ ack \in Nat /\ producer \in Nat /\ ack <= producer /\ expected \in Nat
  BY DEF TypeOK
<1>1. CASE WriteProducer
  BY <1>1, ChainPublished
<1>2. CASE NewSession
  <2>1. PICK c : c = [q \in {0} |-> 0]
    OBVIOUS
  <2>2. /\ producer' = 0 /\ ack' = 0 /\ hpsChain' = 0 /\ ~released' /\ 0 .. 0 = {0}
        /\ 0 + 1 .. 0 = {}
    BY <1>2 DEF NewSession
  <2>3. c \in [0 .. producer' -> Nat] /\ c[0] = 0
    BY <2>1, <2>2
  <2>4. ChainInv(c)'
    BY <2>2, <2>3 DEF ChainInv
  <2> QED
    BY <2>4
<1>3. CASE /\ ~NewSession /\ producer' = producer
           /\ ack' = ack \/ (ack' = ack + 1 /\ ack < producer)
           /\ ch[ack'] = hpsChain'
           /\ released' => ch[producer] = chain'
  <2>1. \A q \in ack' + 1 .. producer' : q \in ack + 1 .. producer
    BY <1>0, <1>3
  <2>2. \A q \in ack' + 1 .. producer' : slot'[SlotOf(q)] = slot[SlotOf(q)]
    BY <1>3, <2>1, InUseKept
  <2>3. ChainInv(ch)'
    BY <1>3, <2>1, <2>2 DEF ChainInv
  <2> QED
    BY <2>3
<1>4. CASE UNCHANGED <<producer, ack, hpsChain, released, chain>> /\ ~NewSession
  BY <1>3, <1>4 DEF ChainInv
<1>5. CASE \/ ReadControl \/ ReadAck \/ Exhaust \/ AcceptBoundary
           \/ AcceptRecord \/ Flush \/ WriteBurst \/ WriteHeader \/ WriteCommit
           \/ Offer
  <2>1. released /\ UNCHANGED <<producer, ack, hpsChain, released, chain>>
    BY <1>5 DEF ReadControl, ReadAck, Exhaust, AcceptBoundary, AcceptRecord, Flush,
         Ready, WriteBurst, WriteHeader, WriteCommit, Offer, Running, shared, writer,
         build, consumer
  <2> QED
    BY <1>4, <2>1 DEF NewSession
<1>6. CASE Initialize \/ BeginPacket \/ CopyPayload \/ Verify \/ ApplyRecord
           \/ AcceptAll \/ FinishPacket
  <2>1. /\ UNCHANGED <<producer, ack, hpsChain, released, chain, session>>
        /\ session \in Nat
    BY <1>6 DEF Initialize, BeginPacket, CopyPayload, Verify, ApplyRecord, AcceptAll,
         FinishPacket, Fail, Unshared, shared, writer, build, TypeOK
  <2> QED
    BY <1>4, <2>1 DEF NewSession
<1>7. CASE Acknowledge
  <2>1. /\ pc = "ack" /\ expected = ack + 1 /\ expected <= producer /\ ~CountersBad
        /\ SameHeader /\ header = slot[SlotOf(expected)].header
    BY <1>7, ConsumerChecksPass DEF Acknowledge, ConsumerInv
  <2>2. /\ ack' = ack + 1 /\ ack < producer
        /\ hpsChain' = IF header.flag = "cont" THEN header.frame ELSE 0
        /\ UNCHANGED <<producer, released, chain, session>> /\ session \in Nat
    BY <1>0, <1>7, <2>1 DEF Acknowledge, writer, build, TypeOK
  <2>3. expected \in ack + 1 .. producer
    BY <1>0, <2>1
  <2>4. ch[ack'] = hpsChain'
    BY <2>1, <2>2, <2>3 DEF ChainInv
  <2> QED
    BY <1>3, <2>2, <2>4 DEF ChainInv, NewSession
<1>8. CASE Release
  <2>1. /\ sent = <<>> /\ ~released
        /\ UNCHANGED <<producer, ack, hpsChain, chain, session>>
        /\ session \in Nat
    BY <1>8 DEF Release, shared, writer, build, consumer, TypeOK
  <2>2. producer = 0 /\ ack = 0 /\ hpsChain = 0 /\ chain = 0
    BY <1>0, <2>1 DEF SlotInv, ConsumerInv, PacketInv, WriterInv, BuildInv, WriterStart
  <2> QED
    BY <1>3, <2>1, <2>2 DEF ChainInv, NewSession
<1>9. CASE EndSession
  <2>1. released /\ ~released' /\ UNCHANGED <<producer, ack, hpsChain>>
    BY <1>9 DEF EndSession, shared, consumer
  <2> QED
    BY <1>3, <2>1 DEF ChainInv, NewSession
<1>10. CASE UNCHANGED vars
  <2>1. /\ UNCHANGED <<producer, ack, hpsChain, released, chain, session>>
        /\ session \in Nat
    BY <1>10 DEF vars, shared, writer, build, consumer, TypeOK
  <2> QED
    BY <1>4, <2>1 DEF NewSession
<1> QED
  BY <1>1, <1>2, <1>5, <1>6, <1>7, <1>8, <1>9, <1>10 DEF Next, Writer, Consumer

-----------------------------------------------------------------------------
(* The stream                                                              *)

\* The stream is cut into packets at first.
LEMMA StreamInit == Init => \E at : StreamInv(at)
<1> SUFFICES ASSUME Init PROVE \E at : StreamInv(at)
  OBVIOUS
<1> DEFINE a == [q \in {0} |-> 0]
<1>1. /\ producer = 0 /\ ack = 0 /\ 0 .. 0 = {0} /\ 0 + 1 .. 0 = {}
      /\ ~released /\ sent = <<>> /\ applied = <<>> /\ Len(<<>>) = 0
      /\ pc = "off" /\ done = 0
  BY DEF Init, ConsumerStart
<1>2. a \in [0 .. producer -> Nat] /\ a[0] = 0
  BY <1>1
<1> HIDE DEF a
<1>3. CutInv(a) /\ HeldInv(a)
  BY <1>1, <1>2 DEF CutInv, HeldInv
<1>4. AppliedInv(a)
  BY <1>1, <1>2 DEF AppliedInv, AppliedLength, One
<1> QED
  BY <1>3, <1>4 DEF StreamInv

\* A packet that is published takes what the writer held of the stream.
LEMMA StreamPublished ==
  ASSUME TypeOK, PacketInv, SourceInv, BuildInv, FenceInv, NEW at, StreamInv(at),
         WriteProducer
  PROVE  \E a : StreamInv(a)'
<1>0. /\ ack \in Nat /\ producer \in Nat /\ ack <= producer /\ count \in Nat
      /\ Len(sent) \in Nat /\ done \in Nat
  BY DEF TypeOK, SourceInv
<1>1. /\ packet = producer + 1 /\ producer' = packet
      /\ UNCHANGED <<slot, ack, sent, applied, pc, done, header, bufferEnd, buffer>>
      /\ slot[SlotOf(packet)].header = OpenHeader
      /\ count' = 0 /\ released /\ state' = "collect" /\ state = "producer"
      /\ buffer = <<>> /\ ~bufferEnd
  BY ProducerEffect DEF WriteProducer, Running, consumer, PacketInv, WriterInv, BuildInv
<1>2. /\ Len(buffer) = 0 /\ Filled = count /\ Filled' = 0 /\ ~Closed'
      /\ (Closed <=> closeFlag = "end")
  BY <1>0, <1>1 DEF Filled, Closed, Closing
<1>3. One(Closed) = One(closeFlag = "end")
  BY <1>2 DEF One
<1>4. Len(sent) = at[producer] + count + One(closeFlag = "end")
  BY <1>1, <1>2, <1>3 DEF StreamInv, HeldInv
<1>5. PICK a : a = [q \in 0 .. packet |-> IF q = packet THEN Len(sent) ELSE at[q]]
  OBVIOUS
<1>6. /\ a \in [0 .. packet -> Nat] /\ a[packet] = Len(sent)
      /\ \A q \in 0 .. producer : a[q] = at[q] /\ a[q] \in Nat
  BY <1>0, <1>1, <1>5 DEF StreamInv, CutInv
<1>7. \A q \in ack' .. producer' : a[q] <= Len(sent')
  <2> SUFFICES ASSUME NEW q \in ack .. packet PROVE a[q] <= Len(sent)
    BY <1>1
  <2>1. q = packet \/ (q \in ack .. producer /\ q \in 0 .. producer)
    BY <1>0, <1>1
  <2> QED
    BY <1>0, <1>6, <2>1 DEF StreamInv, CutInv
<1>8. ASSUME NEW q \in ack' + 1 .. producer'
      PROVE  LET s == slot'[SlotOf(q)]
                 h == s.header
             IN /\ a[q] = a[q - 1] + h.count + One(h.flag = "end")
                /\ \A i \in 1 .. h.count : s.payload[i] = sent'[a[q - 1] + i]
                /\ h.flag = "end" => sent'[a[q]] = EndOf(h.frame)
  <2>1. CASE q = packet
    <3>1. a[q] = Len(sent) /\ a[q - 1] = at[producer]
      BY <1>0, <1>1, <1>6, <2>1
    <3>2. \A i \in 1 .. count :
            slot[SlotOf(packet)].payload[i] = sent[at[producer] + i]
      BY <1>1 DEF StreamInv, HeldInv
    <3>3. closeFlag = "end" => sent[Len(sent)] = EndOf(packetFrame)
      BY <1>1, <1>2 DEF StreamInv, HeldInv
    <3> QED
      BY <1>1, <1>4, <2>1, <3>1, <3>2, <3>3 DEF OpenHeader
  <2>2. CASE q # packet
    <3>1. q \in ack + 1 .. producer /\ q \in 0 .. producer /\ q - 1 \in 0 .. producer
      BY <1>0, <1>1, <2>2
    <3>2. a[q] = at[q] /\ a[q - 1] = at[q - 1]
      BY <1>6, <3>1
    <3> QED
      BY <1>1, <3>1, <3>2 DEF StreamInv, CutInv
  <2> QED
    BY <2>1, <2>2
<1>9. CutInv(a)'
  BY <1>1, <1>6, <1>7, <1>8 DEF CutInv
<1>10. HeldInv(a)'
  <2>1. Len(sent') = a[producer'] + Filled' + One(Closed)'
    BY <1>0, <1>1, <1>2, <1>6 DEF One
  <2>2. 1 .. count' = {} /\ 1 .. Len(buffer') = {}
    BY <1>1, <1>2
  <2> QED
    BY <1>2, <2>1, <2>2 DEF HeldInv
<1>11. AppliedInv(a)'
  <2>1. AppliedLength(a)' = AppliedLength(at)
    BY <1>0, <1>1, <1>6 DEF AppliedLength
  <2> QED
    BY <1>1, <2>1 DEF AppliedInv, StreamInv
<1> QED
  BY <1>9, <1>10, <1>11 DEF StreamInv

\* What was cut off for a packet stays with it.
LEMMA CutStep ==
  ASSUME TypeOK, PacketInv, SourceInv, BuildInv, NEW at, StreamInv(at), [Next]_vars,
         ~NewSession, producer' = producer,
         ack' = ack \/ (ack' = ack + 1 /\ ack < producer)
  PROVE  CutInv(at)'
<1>0. /\ ack \in Nat /\ producer \in Nat /\ ack <= producer
      /\ Len(sent) \in Nat /\ slot \in [Slots -> SlotContents]
  <2>1. ack \in Nat /\ producer \in Nat /\ ack <= producer
    BY DEF TypeOK
  <2>2. slot \in [Slots -> SlotContents]
    BY DEF TypeOK
  <2> QED
    BY <2>1, <2>2 DEF SourceInv
<1>1. /\ Len(sent) <= Len(sent')
      /\ \A i \in 1 .. Len(sent) : sent'[i] = sent[i]
  BY SentGrows
<1>2. Len(sent') \in Nat
  BY SourceStep DEF SourceInv
<1>3. \A q \in ack' + 1 .. producer' : q \in ack + 1 .. producer
  BY <1>0
<1>4. \A q \in ack' .. producer' : q \in ack .. producer /\ q \in 0 .. producer
  BY <1>0
<1>5. \A q \in ack' .. producer' : at[q] <= Len(sent')
  BY <1>0, <1>1, <1>2, <1>4 DEF StreamInv, CutInv
<1>6. ASSUME NEW q \in ack' + 1 .. producer'
      PROVE  LET s == slot'[SlotOf(q)]
                 h == s.header
             IN /\ at[q] = at[q - 1] + h.count + One(h.flag = "end")
                /\ \A i \in 1 .. h.count : s.payload[i] = sent'[at[q - 1] + i]
                /\ h.flag = "end" => sent'[at[q]] = EndOf(h.frame)
  <2> DEFINE s == slot[SlotOf(q)]
             h == s.header
  <2>1. q \in ack + 1 .. producer /\ q \in ack .. producer /\ q \in 0 .. producer
        /\ q - 1 \in 0 .. producer
    BY <1>0, <1>3
  <2>2. slot'[SlotOf(q)] = s /\ s \in SlotContents
    BY <1>0, <2>1, InUseKept
  <2>3. h.count \in Nat
    BY <2>2 DEF SlotContents, Headers
  <2>4. /\ at[q] = at[q - 1] + h.count + One(h.flag = "end")
        /\ \A i \in 1 .. h.count : s.payload[i] = sent[at[q - 1] + i]
        /\ h.flag = "end" => sent[at[q]] = EndOf(h.frame)
        /\ at[q] \in Nat /\ at[q - 1] \in Nat /\ at[q] <= Len(sent)
    BY <2>1 DEF StreamInv, CutInv
  <2>5. One(h.flag = "end") \in {0, 1} /\ (h.flag = "end" => One(h.flag = "end") = 1)
    BY DEF One
  <2> HIDE DEF s, h
  <2>6. \A i \in 1 .. h.count : at[q - 1] + i \in 1 .. Len(sent)
    BY <1>0, <2>3, <2>4, <2>5
  <2>7. h.flag = "end" => at[q] \in 1 .. Len(sent)
    BY <1>0, <2>3, <2>4, <2>5
  <2> QED
    BY <1>1, <2>2, <2>4, <2>6, <2>7 DEF s, h
<1> QED
  BY <1>5, <1>6 DEF CutInv, StreamInv

\* What the writer holds stays the rest of the stream.
LEMMA HeldStep ==
  ASSUME TypeOK, PacketInv, SourceInv, BuildInv, FrameInv, SlotInv, ConsumerInv,
         NEW at, StreamInv(at), [Next]_vars, ~NewSession, ~WriteProducer,
         producer' = producer
  PROVE  HeldInv(at)'
<1>0. /\ count \in Nat /\ buffer \in Seq(Tokens) /\ Len(buffer) \in Nat
      /\ sent \in Seq(Tokens) /\ Len(sent) \in Nat /\ producer \in Nat
      /\ at[producer] \in Nat /\ frame \in Nat
  <2>1. producer \in Nat /\ producer \in 0 .. producer
    BY DEF TypeOK
  <2>2. at[producer] \in Nat
    BY <2>1 DEF StreamInv, CutInv
  <2>3. count \in Nat /\ buffer \in Seq(Tokens) /\ frame \in Nat
    BY DEF TypeOK
  <2>4. sent \in Seq(Tokens)
    BY DEF SourceInv
  <2> QED
    BY <2>1, <2>2, <2>3, <2>4
<1>1. CASE /\ UNCHANGED <<released, count, buffer, bufferEnd, packet, packetFrame,
                          closeFlag, slot, sent>>
           /\ Closing' = Closing
  BY <1>1 DEF HeldInv, StreamInv, Filled, Closed
<1>2. CASE \/ Offer \/ Initialize \/ Consumer \/ UNCHANGED vars
  BY <1>1, <1>2 DEF Offer, Initialize, Consumer, BeginPacket, CopyPayload, Verify,
       ApplyRecord, AcceptAll, FinishPacket, Acknowledge, Unshared, shared, writer,
       build, Closing, vars
<1>3. CASE ReadControl \/ ReadAck \/ Exhaust \/ Flush
  BY <1>1, <1>3 DEF ReadControl, ReadAck, Exhaust, Flush, Ready, shared, build, Closing
<1>4. CASE AcceptBoundary
  <2>1. /\ state = "collect" /\ buffer = <<>> /\ released /\ head = "boundary"
        /\ state' = "header" /\ closeFlag' = "end" /\ Take
        /\ packetFrame' = IF count = 0 THEN frame ELSE packetFrame
        /\ packet' = IF count = 0 THEN produced + 1 ELSE packet
        /\ UNCHANGED <<slot, buffer, bufferEnd, count>>
    BY <1>4, WriterChecksPass DEF AcceptBoundary, Ready, Running, shared
  <2>2. /\ ~bufferEnd /\ Closed' /\ ~Closed /\ Len(buffer) = 0
        /\ Filled = count /\ Filled' = count
    BY <1>0, <2>1 DEF BuildInv, Closed, Closing, Filled
  <2>3. packetFrame' = frame
    BY <1>0, <2>1, <2>2 DEF FrameInv, Begun
  <2>4. /\ Len(sent') = Len(sent) + 1 /\ sent'[Len(sent')] = EndOf(frame)
        /\ \A i \in 1 .. Len(sent) : sent'[i] = sent[i]
    BY <1>0, <2>1, TakeEffect DEF One
  <2>5. Len(sent) = at[producer] + count
    BY <1>0, <2>1, <2>2 DEF StreamInv, HeldInv, One
  <2>6. ASSUME NEW i \in 1 .. count
        PROVE  slot'[SlotOf(packet')].payload[i] = sent'[at[producer] + i]
    <3>1. packet' = packet /\ at[producer] + i \in 1 .. Len(sent)
      BY <1>0, <2>1, <2>5
    <3>2. slot[SlotOf(packet)].payload[i] = sent[at[producer] + i]
      BY <2>1 DEF StreamInv, HeldInv
    <3> QED
      BY <2>1, <2>4, <3>1, <3>2
  <2>7. Len(sent') = at[producer'] + Filled' + One(Closed)'
    BY <1>0, <2>2, <2>4, <2>5 DEF One
  <2>8. 1 .. Len(buffer') = {}
    BY <2>1, <2>2
  <2> QED
    BY <2>1, <2>3, <2>4, <2>6, <2>7, <2>8 DEF HeldInv
<1>5. CASE AcceptRecord
  <2> DEFINE r == Record(head, records + 1)
  <2>1. /\ state = "collect" /\ ~bufferEnd /\ released /\ head # "none"
        /\ head # "boundary" /\ state' = state /\ Take
        /\ buffer' = Append(buffer, r) /\ bufferEnd' = (head = "last")
        /\ packetFrame' = IF Filled = 0 THEN frame ELSE packetFrame
        /\ packet' = IF Filled = 0 THEN produced + 1 ELSE packet
        /\ UNCHANGED <<slot, count>>
    BY <1>5, WriterChecksPass
       DEF AcceptRecord, Ready, Running, MustFlush, shared, Kinds
  <2>2. /\ ~Closed /\ (Closed' <=> head = "last")
        /\ Filled = count + Len(buffer)
    BY <2>1 DEF Closed, Closing, Filled
  <2>3. packetFrame' = frame
    BY <1>0, <2>1, <2>2 DEF FrameInv, Begun
  <2>4. /\ Len(sent') = Len(sent) + 1 + One(head = "last")
        /\ \A i \in 1 .. Len(sent) : sent'[i] = sent[i]
        /\ sent'[Len(sent) + 1] = r
        /\ head = "last" => sent'[Len(sent')] = EndOf(frame)
    BY <1>0, <2>1, TakeEffect DEF One
  <2>5. Len(sent) = at[producer] + count + Len(buffer)
    BY <1>0, <2>1, <2>2 DEF StreamInv, HeldInv, One
  <2>6. /\ Len(buffer') = Len(buffer) + 1 /\ buffer'[Len(buffer) + 1] = r
        /\ \A i \in 1 .. Len(buffer) : buffer'[i] = buffer[i]
    BY <1>0, <2>1
  <2> HIDE DEF r
  <2>7. ASSUME NEW i \in 1 .. count
        PROVE  slot'[SlotOf(packet')].payload[i] = sent'[at[producer] + i]
    <3>1. packet' = packet /\ at[producer] + i \in 1 .. Len(sent)
      <4>1. count \in Nat /\ Len(buffer) \in Nat /\ at[producer] \in Nat
        BY <1>0
      <4>2. Filled # 0
        BY <2>2, <4>1
      <4> QED
        BY <2>1, <2>5, <4>1, <4>2
    <3>2. slot[SlotOf(packet)].payload[i] = sent[at[producer] + i]
      BY <2>1 DEF StreamInv, HeldInv
    <3> QED
      BY <2>1, <2>4, <3>1, <3>2
  <2>8. ASSUME NEW i \in 1 .. Len(buffer')
        PROVE  buffer'[i] = sent'[at[producer] + count + i]
    <3>1. CASE i \in 1 .. Len(buffer)
      <4>1. at[producer] + count + i \in 1 .. Len(sent)
        BY <1>0, <2>5, <3>1
      <4>2. buffer[i] = sent[at[producer] + count + i]
        BY <2>1, <3>1 DEF StreamInv, HeldInv
      <4> QED
        BY <2>4, <2>6, <3>1, <4>1, <4>2
    <3>2. CASE i = Len(buffer) + 1
      <4>1. at[producer] + count + i = Len(sent) + 1
        <5>1. Len(buffer) \in Nat /\ count \in Nat /\ at[producer] \in Nat
          BY <1>0
        <5> QED
          BY <2>5, <3>2, <5>1
      <4> QED
        BY <2>4, <2>6, <3>2, <4>1
    <3> QED
      BY <1>0, <2>6, <3>1, <3>2
  <2>9. Len(sent') = at[producer'] + Filled' + One(Closed)'
    <3>1. Filled' = count + Len(buffer) + 1
      BY <1>0, <2>1, <2>6 DEF Filled
    <3>2. One(Closed)' = One(head = "last") /\ One(head = "last") \in {0, 1}
      BY <2>2 DEF One
    <3>3. /\ count \in Nat /\ Len(buffer) \in Nat /\ Len(sent) \in Nat
          /\ at[producer] \in Nat /\ producer' = producer
      BY <1>0
    <3> QED
      BY <2>4, <2>5, <3>1, <3>2, <3>3
  <2> QED
    BY <2>1, <2>2, <2>3, <2>4, <2>7, <2>8, <2>9 DEF HeldInv
<1>6. CASE WriteBurst
  <2>1. /\ state = "burst" /\ released /\ buffer' = <<>> /\ ~bufferEnd'
        /\ count' = count + Len(buffer)
        /\ closeFlag' = IF bufferEnd THEN "end"
                        ELSE IF Continues THEN "cont" ELSE closeFlag
        /\ state' = IF bufferEnd \/ Continues THEN "header" ELSE "collect"
        /\ UNCHANGED <<packet, packetFrame, sent>>
        /\ \A i \in 1 .. count :
             slot'[SlotOf(packet)].payload[i] = slot[SlotOf(packet)].payload[i]
        /\ \A i \in 1 .. Len(buffer) :
             slot'[SlotOf(packet)].payload[count + i] = buffer[i]
    BY <1>6, BurstWritten DEF WriteBurst, Running
  <2>2. /\ (Closed <=> bufferEnd) /\ (Closed' <=> bufferEnd)
        /\ Filled' = Filled /\ Len(buffer') = 0
    BY <1>0, <2>1 DEF Closed, Closing, Filled
  <2>3. ASSUME NEW i \in 1 .. count'
        PROVE  slot'[SlotOf(packet)].payload[i] = sent[at[producer] + i]
    <3>1. CASE i \in 1 .. count
      BY <2>1, <3>1 DEF StreamInv, HeldInv
    <3>2. CASE i \notin 1 .. count
      <4>1. i - count \in 1 .. Len(buffer) /\ count + (i - count) = i
            /\ at[producer] + count + (i - count) = at[producer] + i
        BY <1>0, <2>1, <3>2
      <4>2. buffer[i - count] = sent[at[producer] + count + (i - count)]
        BY <2>1, <4>1 DEF StreamInv, HeldInv
      <4> QED
        BY <2>1, <4>1, <4>2
    <3> QED
      BY <3>1, <3>2
  <2>4. Len(sent') = at[producer'] + Filled' + One(Closed)'
    <3>1. One(Closed)' = One(Closed)
      BY <2>2 DEF One
    <3> QED
      BY <2>1, <2>2, <3>1 DEF StreamInv, HeldInv
  <2>5. 1 .. Len(buffer') = {}
    BY <2>2
  <2>6. Closed' => sent'[Len(sent')] = EndOf(packetFrame')
    BY <2>1, <2>2 DEF StreamInv, HeldInv
  <2> QED
    BY <2>1, <2>3, <2>4, <2>5, <2>6 DEF HeldInv
<1>7. CASE WriteHeader \/ WriteCommit
  <2>1. /\ slot'[SlotOf(packet)].payload = slot[SlotOf(packet)].payload
        /\ UNCHANGED <<released, build, sent>> /\ Closing' = Closing
    BY <1>7, HeaderWritten, CommitWritten DEF WriteHeader, WriteCommit, Closing
  <2> QED
    BY <2>1 DEF HeldInv, StreamInv, Filled, Closed, build
<1>8. CASE Release
  <2>1. sent = <<>> /\ Len(sent) = 0 /\ ~released /\ UNCHANGED <<writer, sent>>
    BY <1>8 DEF Release
  <2>2. WriterStart /\ state = "wait"
    BY <2>1 DEF PacketInv, WriterInv, BuildInv
  <2>3. count' = 0 /\ Len(buffer') = 0 /\ ~Closed' /\ Filled' = 0
    BY <2>1, <2>2 DEF WriterStart, writer, build, Closed, Closing, Filled
  <2>4. at[producer] = 0
    <3>1. producer \in ack .. producer
      BY DEF TypeOK
    <3> QED
      BY <1>0, <2>1, <3>1 DEF StreamInv, CutInv
  <2>5. Len(sent') = at[producer'] + Filled' + One(Closed)'
    BY <2>1, <2>3, <2>4 DEF One
  <2>6. 1 .. count' = {} /\ 1 .. Len(buffer') = {}
    BY <2>3
  <2> QED
    BY <2>3, <2>5, <2>6 DEF HeldInv
<1>9. CASE EndSession
  BY <1>9 DEF EndSession, HeldInv
<1> QED
  BY <1>2, <1>3, <1>4, <1>5, <1>6, <1>7, <1>8, <1>9 DEF Next, Writer

\* A place in a sequence, counted from where the packet starts.
LEMMA PlaceOf ==
  ASSUME NEW a \in Nat, NEW d \in Nat, NEW i \in Nat, NEW n, n = a + d,
         NEW j \in Nat, j = i - n
  PROVE  a + (d + j) = i
  OBVIOUS

\* The consumer's packet is the part of the stream that comes next.
LEMMA PacketOfStream ==
  ASSUME TypeOK, SourceInv, SlotInv, ConsumerInv, NEW at, StreamInv(at),
         pc \in {"apply", "ack"}
  PROVE  /\ expected = ack + 1 /\ expected <= producer /\ Len(copy) = header.count
         /\ header.flag \in {"cont", "end"}
         /\ at[ack] \in Nat /\ at[expected] \in Nat /\ at[expected] <= Len(sent)
         /\ at[expected] = at[ack] + Len(copy) + One(header.flag = "end")
         /\ \A i \in 1 .. Len(copy) : copy[i] = sent[at[ack] + i]
         /\ header.flag = "end" => sent[at[expected]] = EndOf(header.frame)
<1>1. /\ expected = ack + 1 /\ expected <= producer
      /\ header = slot[SlotOf(expected)].header /\ Len(copy) = header.count
      /\ \A i \in 1 .. header.count : copy[i] = slot[SlotOf(expected)].payload[i]
  BY DEF ConsumerInv
<1>2. /\ ack \in Nat /\ producer \in Nat
  BY DEF TypeOK
<1>3. /\ expected \in ack + 1 .. producer /\ expected \in ack .. producer
      /\ expected - 1 = ack /\ expected \in 0 .. producer /\ ack \in 0 .. producer
  BY <1>1, <1>2
<1> QED
  BY <1>1, <1>3 DEF SlotInv, StreamInv, CutInv

\* Applied is the stream up to the consumer's place after every step.
LEMMA AppliedStep ==
  ASSUME TypeOK, PacketInv, SourceInv, BuildInv, SlotInv, ConsumerInv,
         NEW ch, ChainInv(ch), NEW at, StreamInv(at), [Next]_vars, ~NewSession,
         ~WriteProducer
  PROVE  AppliedInv(at)'
<1>0. /\ ack \in Nat /\ producer \in Nat /\ done \in Nat /\ ack <= producer
      /\ sent \in Seq(Tokens) /\ Len(sent) \in Nat /\ Len(sent') \in Nat
      /\ Len(applied) \in Nat /\ applied \in Seq(Tokens)
      /\ at[ack] \in Nat /\ copy \in Seq(Tokens) /\ Len(copy) \in Nat
      /\ expected \in Nat
  <2>1. Len(sent') \in Nat
    BY SourceStep DEF SourceInv
  <2>2. ack \in Nat /\ producer \in Nat /\ ack <= producer /\ ack \in 0 .. producer
    BY DEF TypeOK
  <2>3. at[ack] \in Nat
    BY <2>2 DEF StreamInv, CutInv
  <2>4. done \in Nat /\ copy \in Seq(Tokens) /\ expected \in Nat
    BY DEF TypeOK
  <2>5. sent \in Seq(Tokens) /\ applied \in Seq(Tokens)
    BY DEF SourceInv, StreamInv, AppliedInv
  <2> QED
    BY <2>1, <2>2, <2>3, <2>4, <2>5
<1>1. CASE UNCHANGED applied /\ AppliedLength(at)' = AppliedLength(at)
  <2>1. /\ Len(sent) <= Len(sent')
        /\ \A i \in 1 .. Len(sent) : sent'[i] = sent[i]
    BY SentGrows
  <2>2. Len(applied) <= Len(sent) /\ \A i \in 1 .. Len(applied) : applied[i] = sent[i]
    BY DEF StreamInv, AppliedInv
  <2>3. \A i \in 1 .. Len(applied) : i \in 1 .. Len(sent)
    BY <1>0, <2>2
  <2>4. Len(applied') = AppliedLength(at)' /\ applied' \in Seq(Tokens)
    BY <1>1 DEF StreamInv, AppliedInv
  <2>5. Len(applied') <= Len(sent')
    BY <1>0, <1>1, <2>1, <2>2
  <2>6. \A i \in 1 .. Len(applied') : applied'[i] = sent'[i]
    BY <1>1, <2>1, <2>2, <2>3
  <2> QED
    BY <2>4, <2>5, <2>6 DEF AppliedInv
<1>2. CASE UNCHANGED <<applied, ack, done, pc, header>>
  BY <1>1, <1>2 DEF AppliedLength
<1>3. CASE \/ Offer \/ Release \/ EndSession \/ UNCHANGED vars
  BY <1>2, <1>3 DEF Offer, Release, EndSession, shared, consumer, vars
<1>4. CASE Writer
  BY <1>2, <1>4 DEF Writer, ReadControl, ReadAck, Exhaust, AcceptBoundary,
       AcceptRecord, Flush, WriteBurst, WriteHeader, WriteCommit, shared, consumer
<1>5. CASE /\ pc' # "ack" /\ pc # "ack" /\ UNCHANGED <<applied, ack, done>>
  <2>1. /\ One(pc' = "ack" /\ header'.flag = "end") = 0
        /\ One(pc = "ack" /\ header.flag = "end") = 0
    BY <1>5 DEF One
  <2> QED
    BY <1>1, <1>5, <2>1 DEF AppliedLength
<1>6. CASE Initialize \/ BeginPacket \/ CopyPayload \/ Verify
  BY <1>5, <1>6 DEF Initialize, BeginPacket, CopyPayload, Verify, Fail, Unshared, shared
<1>7. CASE /\ pc = "apply" /\ UNCHANGED <<sent, ack, header, copy>>
           /\ ApplyRecord \/ AcceptAll \/ FinishPacket
  <2>0. Len(applied) = at[ack] + done /\ done <= Len(copy)
    BY <1>0, <1>7 DEF StreamInv, AppliedInv, AppliedLength, One, ConsumerInv
  <2>1. One(header.flag = "end") \in {0, 1}
    BY DEF One
  <2>2. /\ at[expected] <= Len(sent) /\ at[expected] \in Nat
        /\ at[expected] = at[ack] + Len(copy) + One(header.flag = "end")
        /\ \A i \in 1 .. Len(copy) : copy[i] = sent[at[ack] + i]
        /\ header.flag = "end" => sent[at[expected]] = EndOf(header.frame)
    BY <1>7, PacketOfStream
  <2>3. \A i \in 1 .. Len(applied) : applied[i] = sent[i]
    BY DEF StreamInv, AppliedInv
  <2>4. ASSUME pc' = pc, NEW p \in Seq(Tokens), done' \in Nat, done' <= Len(copy),
               Len(p) \in Nat, done' = done + Len(p),
               \A i \in 1 .. Len(p) : p[i] = copy[done + i],
               applied' = applied \o p
        PROVE  AppliedInv(at)'
    <3>2. /\ applied' \in Seq(Tokens) /\ Len(applied') = Len(applied) + Len(p)
          /\ \A i \in 1 .. Len(applied) : applied'[i] = applied[i]
          /\ \A i \in Len(applied) + 1 .. Len(applied') :
               applied'[i] = p[i - Len(applied)]
      BY <1>0, <2>4
    <3>3. Len(applied') <= Len(sent) /\ Len(applied') = at[ack] + done'
      <4>0. at[ack] \in Nat /\ done \in Nat
        BY <1>0
      <4>1. Len(applied') = at[ack] + done'
        BY <2>0, <2>4, <3>2, <4>0
      <4> QED
        <5>1. /\ Len(sent) \in Nat /\ Len(copy) \in Nat /\ done' \in Nat
              /\ done' <= Len(copy)
          BY <1>0, <2>4
        <5> QED
          BY <2>1, <2>2, <4>0, <4>1, <5>1
    <3>4. ASSUME NEW i \in 1 .. Len(applied') PROVE applied'[i] = sent[i]
      <4>1. CASE i \in 1 .. Len(applied)
        BY <2>3, <3>2, <4>1
      <4>2. CASE i \notin 1 .. Len(applied)
        <5> DEFINE j == i - Len(applied)
        <5>1. i \in Len(applied) + 1 .. Len(applied') /\ j \in 1 .. Len(p)
          BY <1>0, <2>4, <3>2, <4>2
        <5>2. done + j \in 1 .. Len(copy) /\ at[ack] + (done + j) = i
          <6>1. j \in Nat /\ i \in Nat /\ 1 <= j /\ j <= Len(p) /\ Len(p) \in Nat
            BY <1>0, <2>4, <5>1
          <6>2. at[ack] + (done + j) = i
            <7>1. PICK b \in Nat : b = at[ack]
              BY <1>0
            <7>2. PICK n \in Nat : n = Len(applied)
              BY <1>0
            <7>3. n = b + done /\ j = i - n
              BY <2>0, <7>1, <7>2
            <7>4. done \in Nat /\ j \in Nat /\ i \in Nat
              BY <1>0, <6>1
            <7> HIDE DEF j
            <7>5. b + (done + j) = i
              BY <7>3, <7>4, PlaceOf
            <7> QED
              BY <7>1, <7>5
          <6>3. done + j <= Len(copy)
            BY <1>0, <2>4, <6>1
          <6> QED
            BY <1>0, <6>1, <6>2, <6>3
        <5> QED
          BY <2>2, <2>4, <3>2, <5>1, <5>2
      <4> QED
        BY <4>1, <4>2
    <3>5. AppliedLength(at)' = at[ack] + done'
      BY <1>0, <1>7, <2>4 DEF AppliedLength, One
    <3> QED
      BY <1>7, <3>2, <3>3, <3>4, <3>5 DEF AppliedInv
  <2>5. CASE pc' = "ack" /\ done' = done /\ done = Len(copy)
              /\ applied' = IF header.flag = "end"
                            THEN Append(applied, EndOf(header.frame))
                            ELSE applied
    <3>1. CASE header.flag = "end"
      <4>1. /\ Len(applied) + 1 = at[expected] /\ at[expected] \in 1 .. Len(sent)
            /\ EndOf(header.frame) = sent[at[expected]]
        BY <1>0, <2>0, <2>2, <2>5, <3>1 DEF One
      <4>2. sent[at[expected]] \in Tokens
        BY <1>0, <4>1
      <4>3. /\ applied' \in Seq(Tokens) /\ Len(applied') = Len(applied) + 1
            /\ \A i \in 1 .. Len(applied) : applied'[i] = applied[i]
            /\ applied'[Len(applied) + 1] = sent[Len(applied) + 1]
        <5>1. /\ EndOf(header.frame) \in Tokens
              /\ applied' = Append(applied, EndOf(header.frame))
          BY <2>5, <3>1, <4>1, <4>2
        <5> QED
          BY <1>0, <4>1, <5>1
      <4>4. ASSUME NEW i \in 1 .. Len(applied') PROVE applied'[i] = sent[i]
        <5>1. Len(applied) \in Nat
          BY <1>0
        <5>2. i \in 1 .. Len(applied) \/ i = Len(applied) + 1
          BY <4>3, <5>1
        <5> QED
          BY <2>3, <4>3, <5>2
      <4>5. AppliedLength(at)' = Len(applied')
        BY <1>0, <1>7, <2>0, <2>5, <3>1, <4>3 DEF AppliedLength, One
      <4> QED
        BY <1>7, <4>1, <4>3, <4>4, <4>5 DEF AppliedInv
    <3>2. CASE header.flag # "end"
      <4>1. AppliedLength(at)' = AppliedLength(at)
        BY <1>7, <2>5, <3>2 DEF AppliedLength, One
      <4> QED
        BY <1>1, <2>5, <3>2, <4>1
    <3> QED
      BY <3>1, <3>2
  <2>6. CASE ApplyRecord
    <3> DEFINE p == <<copy[done + 1]>>
    <3>1. /\ copy[done + 1] \in Tokens /\ done' = done + 1 /\ pc' = pc
          /\ done' <= Len(copy)
      BY <1>0, <2>6 DEF ApplyRecord
    <3>2. /\ p \in Seq(Tokens) /\ Len(p) = 1 /\ applied' = applied \o p
          /\ p[1] = copy[done + 1]
      BY <1>0, <2>6, <3>1 DEF ApplyRecord
    <3>3. \A i \in 1 .. Len(p) : p[i] = copy[done + i]
      BY <3>2
    <3> HIDE DEF p
    <3>4. done' = done + Len(p) /\ done' \in Nat /\ Len(p) \in Nat
      BY <1>0, <3>1, <3>2
    <3> QED
      BY <2>4, <3>1, <3>2, <3>3, <3>4
  <2>7. CASE AcceptAll
    <3>1. /\ done = 0 /\ done' = Len(copy) /\ applied' = applied \o copy /\ pc' = pc
      BY <2>7 DEF AcceptAll
    <3>2. done' = done + Len(copy) /\ done' \in Nat /\ done' <= Len(copy)
      BY <1>0, <3>1
    <3>3. \A i \in 1 .. Len(copy) : copy[i] = copy[done + i]
      BY <1>0, <3>1
    <3> QED
      BY <1>0, <2>4, <3>1, <3>2, <3>3
  <2>8. CASE FinishPacket
    BY <2>5, <2>8 DEF FinishPacket, AllApplied
  <2> QED
    BY <1>7, <2>6, <2>7, <2>8
<1>8. CASE ApplyRecord \/ AcceptAll \/ FinishPacket
  <2>1. pc = "apply" /\ UNCHANGED <<sent, ack, header, copy>>
    BY <1>8 DEF ApplyRecord, AcceptAll, FinishPacket, Unshared, shared
  <2> QED
    BY <1>7, <1>8, <2>1
<1>9. CASE Acknowledge
  <2>1. /\ pc = "ack" /\ expected = ack + 1 /\ ~CountersBad /\ SameHeader
        /\ expected <= producer /\ done = Len(copy)
    BY <1>9, ConsumerChecksPass DEF Acknowledge, ConsumerInv
  <2>2. /\ ack' = expected /\ done' = 0 /\ pc' # "ack" /\ UNCHANGED applied
    BY <1>0, <1>9, <2>1 DEF Acknowledge
  <2>3. AppliedLength(at) = at[expected] /\ at[expected] \in Nat
    BY <1>0, <2>1, PacketOfStream DEF AppliedLength, One
  <2>4. AppliedLength(at)' = at[expected]
    BY <2>2, <2>3 DEF AppliedLength, One
  <2> QED
    BY <1>1, <2>2, <2>3, <2>4
<1> QED
  BY <1>3, <1>4, <1>6, <1>8, <1>9 DEF Next, Consumer

-----------------------------------------------------------------------------
(* Types                                                                   *)

\* Every variable has its type at first.
LEMMA TypeInit == Init => TypeOK
<1> SUFFICES ASSUME Init PROVE TypeOK
  OBVIOUS
<1>1. 0 \in Slots
  BY Constants DEF Slots
<1>2. NoHeader \in Headers
  BY <1>1, Constants DEF NoHeader, Headers
<1>3. NoSlot \in SlotContents
  BY <1>2, Constants DEF NoSlot, SlotContents
<1>4. slot \in [Slots -> SlotContents]
  BY <1>3 DEF Init
<1>5. <<>> \in Seq(Tokens) /\ Len(<<>>) = 0
  OBVIOUS
<1>6. /\ session = 1 /\ producer = 0 /\ ack = 0 /\ head = "none" /\ frame = 1
      /\ records = 0 /\ released = FALSE
  BY DEF Init
<1>7. /\ state = "wait" /\ produced = 0 /\ acknowledged = 0
      /\ buffer = <<>> /\ bufferEnd = FALSE /\ bufferFence = FALSE /\ count = 0
      /\ packet = 0 /\ packetFrame = 0 /\ closeFlag = "none" /\ chain = 0
      /\ reason = 0
  BY DEF Init, WriterStart
<1>8. /\ pc = "off" /\ expected = 0 /\ hpsChain = 0 /\ header \in Headers
      /\ copy = <<>> /\ done = 0 /\ hpsFault = "none"
  BY <1>2 DEF Init, ConsumerStart
<1>9. released \in BOOLEAN /\ bufferEnd \in BOOLEAN /\ bufferFence \in BOOLEAN
  BY <1>6, <1>7
<1>10. /\ buffer \in Seq(Tokens) /\ Len(buffer) <= BurstRecords /\ copy \in Seq(Tokens)
  BY <1>5, <1>7, <1>8, Constants
<1>11. /\ session \in 1 .. MaxSessions
       /\ producer \in 0 .. MaxSequence /\ ack \in 0 .. producer
       /\ head \in Kinds \cup {"none"}
       /\ frame \in 1 .. MaxSent + 2 /\ records \in 0 .. MaxSent + 1
  BY <1>6, Constants
<1>12. /\ state \in {"wait", "collect", "burst", "header", "commit", "producer"}
       /\ produced \in 0 .. MaxSequence /\ acknowledged \in 0 .. produced
       /\ count \in 0 .. MaxRecords /\ packet \in 0 .. MaxSequence
       /\ packetFrame \in 0 .. MaxSent + 1 /\ chain \in 0 .. MaxSent + 1
       /\ closeFlag \in {"none", "cont", "end"} /\ reason \in 0 .. 19
  BY <1>7, Constants
<1>13. /\ pc \in {"off", "idle", "payload", "verify", "apply", "ack", "exhausted",
                  "faulted"}
       /\ expected \in 0 .. MaxSequence /\ hpsChain \in 0 .. MaxSent + 1
       /\ done \in 0 .. MaxRecords
       /\ hpsFault \in {"none", "control", "sequence", "torn", "header", "record"}
  BY <1>8, Constants
<1> QED
  BY <1>4, <1>8, <1>9, <1>10, <1>11, <1>12, <1>13 DEF TypeOK

\* The shared page keeps its type.
LEMMA TypeShared ==
  ASSUME TypeOK, PacketInv, BuildInv, FenceInv, ConsumerInv, [Next]_vars
  PROVE  /\ session' \in 1 .. MaxSessions
         /\ producer' \in 0 .. MaxSequence /\ ack' \in 0 .. producer'
         /\ slot' \in [Slots -> SlotContents]
<1>0. /\ session \in 1 .. MaxSessions /\ producer \in 0 .. MaxSequence
      /\ ack \in 0 .. producer /\ slot \in [Slots -> SlotContents]
      /\ packet \in 0 .. MaxSequence /\ expected \in 0 .. MaxSequence
      /\ MaxSequence \in Nat
  BY Constants DEF TypeOK
<1>1. CASE UNCHANGED <<session, producer, ack, slot>>
  BY <1>0, <1>1
<1>2. CASE WriteBurst
  BY <1>0, <1>2, BurstWritten DEF WriteBurst
<1>3. CASE WriteHeader
  BY <1>0, <1>3, HeaderWritten DEF WriteHeader
<1>4. CASE WriteCommit
  BY <1>0, <1>4, CommitWritten DEF WriteCommit
<1>5. CASE WriteProducer
  BY <1>0, <1>5, ProducerEffect
<1>6. CASE Acknowledge
  BY <1>0, <1>6 DEF Acknowledge, CountersBad, ConsumerInv
<1>7. CASE NewSession
  <2> DEFINE blank(i) == [slot[i] EXCEPT !.payload =
                            [j \in DOMAIN slot[i].payload |-> Record("data", 0)]]
  <2>1. Record("data", 0) \in Tokens
    BY Constants DEF Record, Tokens, Kinds
  <2>2. ASSUME NEW i \in Slots PROVE blank(i) \in SlotContents
    <3> DEFINE p == [j \in DOMAIN slot[i].payload |-> Record("data", 0)]
    <3>1. slot[i] \in SlotContents /\ slot[i].payload \in Seq(Tokens)
      BY <1>0 DEF SlotContents
    <3>2. DOMAIN slot[i].payload = 1 .. Len(slot[i].payload)
          /\ Len(slot[i].payload) \in Nat
      BY <3>1
    <3>3. p \in [1 .. Len(slot[i].payload) -> Tokens]
      BY <2>1, <3>2
    <3>4. p \in Seq(Tokens)
      BY <3>2, <3>3
    <3> HIDE DEF p
    <3>5. [slot[i] EXCEPT !.payload = p] \in SlotContents
      BY <3>1, <3>4 DEF SlotContents
    <3> QED
      BY <3>5 DEF p
  <2>3. slot' = [i \in Slots |-> blank(i)]
    BY <1>7 DEF NewSession
  <2> HIDE DEF blank
  <2>4. slot' \in [Slots -> SlotContents]
    BY <2>2, <2>3
  <2> QED
    BY <1>0, <1>7, <2>4, Constants DEF NewSession
<1>8. CASE \/ ReadControl \/ ReadAck \/ Exhaust \/ AcceptBoundary
           \/ AcceptRecord \/ Flush
  BY <1>1, <1>8 DEF ReadControl, ReadAck, Exhaust, AcceptBoundary, AcceptRecord,
                    Flush, shared
<1>9. CASE \/ Offer \/ Release \/ EndSession \/ Initialize \/ BeginPacket
           \/ CopyPayload \/ Verify \/ ApplyRecord \/ AcceptAll \/ FinishPacket
           \/ UNCHANGED vars
  BY <1>1, <1>9 DEF Offer, Release, EndSession, Initialize, BeginPacket, CopyPayload,
              Verify, ApplyRecord, AcceptAll, FinishPacket, Unshared, shared, vars
<1> QED
  BY <1>2, <1>3, <1>4, <1>5, <1>6, <1>7, <1>8, <1>9 DEF Next, Writer, Consumer

\* The source keeps its type.
LEMMA TypeSource ==
  ASSUME TypeOK, SourceInv, [Next]_vars
  PROVE  /\ head' \in Kinds \cup {"none"} /\ frame' \in 1 .. MaxSent + 2
         /\ records' \in 0 .. MaxSent + 1 /\ released' \in BOOLEAN
<1>0. /\ head \in Kinds \cup {"none"} /\ frame \in Nat \ {0} /\ records \in Nat
      /\ released \in BOOLEAN /\ MaxSent \in Nat
  BY Constants DEF TypeOK
<1>1. /\ Len(sent') \in Nat /\ Len(sent') <= MaxSent + 1
      /\ records' <= Len(sent') /\ frame' <= Len(sent') + 1
  BY SourceStep DEF SourceInv
<1>2. SUFFICES /\ head' \in Kinds \cup {"none"} /\ frame' \in Nat \ {0}
               /\ records' \in Nat /\ released' \in BOOLEAN
  BY <1>0, <1>1
<1>3. CASE UNCHANGED <<head, frame, records, released>>
  BY <1>0, <1>3
<1>4. CASE AcceptBoundary \/ AcceptRecord
  <2>1. CASE UNCHANGED <<head, frame, records>>
    BY <1>3, <1>4, <2>1 DEF AcceptBoundary, AcceptRecord
  <2>2. CASE Take
    <3>1. /\ head' = "none" /\ records' \in {records, records + 1}
          /\ frame' \in {frame, frame + 1}
      BY <2>2 DEF Take
    <3>2. released' = released
      BY <1>4 DEF AcceptBoundary, AcceptRecord
    <3> QED
      BY <1>0, <3>1, <3>2
  <2> QED
    BY <1>4, <2>1, <2>2 DEF AcceptBoundary, AcceptRecord, source
<1>5. CASE Offer \/ Release \/ EndSession \/ NewSession
  <2>1. CASE Offer  BY <1>0, <2>1 DEF Offer
  <2>2. CASE Release
    <3>1. head' = head /\ frame' = frame /\ records' = records
      BY <2>2 DEF Release, source
    <3>2. released' \in BOOLEAN
      BY <2>2 DEF Release
    <3> QED
      BY <1>0, <3>1, <3>2
  <2>3. CASE EndSession
    <3>1. head' = "none" /\ frame' = 1 /\ records' = 0
      BY <2>3 DEF EndSession
    <3>2. released' \in BOOLEAN
      BY <2>3 DEF EndSession
    <3> QED
      BY <1>0, <3>1, <3>2
  <2>4. CASE NewSession  BY <1>3, <2>4 DEF NewSession, source
  <2> QED
    BY <1>5, <2>1, <2>2, <2>3, <2>4
<1>6. CASE \/ ReadControl \/ ReadAck \/ Exhaust \/ Flush \/ WriteBurst
           \/ WriteHeader \/ WriteCommit \/ WriteProducer
  BY <1>3, <1>6 DEF ReadControl, ReadAck, Exhaust, Flush, WriteBurst, WriteHeader,
                    WriteCommit, WriteProducer, source
<1>7. CASE Initialize \/ Consumer \/ UNCHANGED vars
  BY <1>3, <1>7 DEF Initialize, Consumer, BeginPacket, CopyPayload, Verify,
       ApplyRecord, AcceptAll, FinishPacket, Acknowledge, Unshared, source, vars
<1> QED
  BY <1>4, <1>5, <1>6, <1>7 DEF Next, Writer

\* The writer keeps its type.
LEMMA TypeWriter ==
  ASSUME TypeOK, PacketInv, SourceInv, BuildInv, FrameInv, SlotInv, [Next]_vars
  PROVE  /\ state' \in {"wait", "collect", "burst", "header", "commit", "producer"}
         /\ produced' \in 0 .. MaxSequence /\ acknowledged' \in 0 .. produced'
         /\ buffer' \in Seq(Tokens) /\ Len(buffer') <= BurstRecords
         /\ bufferEnd' \in BOOLEAN /\ bufferFence' \in BOOLEAN
         /\ count' \in 0 .. MaxRecords /\ packet' \in 0 .. MaxSequence
         /\ packetFrame' \in 0 .. MaxSent + 1 /\ chain' \in 0 .. MaxSent + 1
         /\ closeFlag' \in {"none", "cont", "end"} /\ reason' \in 0 .. 19
<1>0. /\ state \in {"wait", "collect", "burst", "header", "commit", "producer"}
      /\ produced \in 0 .. MaxSequence /\ acknowledged \in 0 .. produced
      /\ buffer \in Seq(Tokens) /\ Len(buffer) <= BurstRecords /\ Len(buffer) \in Nat
      /\ bufferEnd \in BOOLEAN /\ bufferFence \in BOOLEAN
      /\ count \in 0 .. MaxRecords /\ packet \in 0 .. MaxSequence
      /\ packetFrame \in 0 .. MaxSent + 1 /\ chain \in 0 .. MaxSent + 1
      /\ closeFlag \in {"none", "cont", "end"} /\ reason \in 0 .. 19
      /\ producer \in 0 .. MaxSequence /\ ack \in 0 .. producer
      /\ MaxSequence \in Nat /\ MaxSent \in Nat /\ BurstRecords \in Nat \ {0}
      /\ MaxRecords \in Nat /\ <<>> \in Seq(Tokens) /\ Len(<<>>) = 0
  BY Constants DEF TypeOK
<1>1. CASE UNCHANGED writer
  BY <1>0, <1>1 DEF writer, build
<1>2. CASE ReadControl
  BY <1>0, <1>2, WriterChecksPass DEF ReadControl, build
<1>3. CASE ReadAck
  <2>1. /\ acknowledged' = ack /\ UNCHANGED <<state, reason, produced, build>>
        /\ produced = producer
    BY <1>3, WriterChecksPass DEF ReadAck, PacketInv, WriterInv, Live
  <2> QED
    BY <1>0, <2>1 DEF build
<1>4. CASE Exhaust
  BY <1>0, <1>4 DEF Exhaust, build
<1>5. ASSUME Ready, head # "none"
      PROVE  frame \in 0 .. MaxSent + 1 /\ produced + 1 \in 0 .. MaxSequence
  <2>1. frame \in Nat /\ frame <= MaxSent
    BY <1>0, <1>5 DEF SourceInv, TypeOK
  <2>2. produced # MaxSequence
    BY <1>5 DEF Ready, Spent
  <2> QED
    BY <1>0, <2>1, <2>2
<1>6. CASE AcceptBoundary
  <2>1. Ready /\ head # "none"
    BY <1>6 DEF AcceptBoundary
  <2>2. /\ reason' = reason /\ state' = "header" /\ closeFlag' = "end"
        /\ packetFrame' \in {frame, packetFrame} /\ packet' \in {produced + 1, packet}
        /\ UNCHANGED <<buffer, bufferEnd, bufferFence, count, chain, produced,
                       acknowledged>>
    BY <1>6, WriterChecksPass DEF AcceptBoundary, Ready
  <2> QED
    BY <1>0, <1>5, <2>1, <2>2
<1>7. CASE AcceptRecord
  <2>1. Ready /\ head # "none" /\ ~MustFlush /\ head # "boundary"
    BY <1>7 DEF AcceptRecord, Kinds
  <2>2. /\ reason' = reason /\ state' = state
        /\ buffer' = Append(buffer, Record(head, records + 1))
        /\ bufferEnd' \in BOOLEAN /\ bufferFence' \in BOOLEAN
        /\ packetFrame' \in {frame, packetFrame} /\ packet' \in {produced + 1, packet}
        /\ UNCHANGED <<count, closeFlag, chain, produced, acknowledged>> /\ Take
    BY <1>7, <2>1, WriterChecksPass DEF AcceptRecord, Ready, MustFlush
  <2>3. Record(head, records + 1) \in Tokens
    BY <2>1, <2>2, TakeEffect
  <2>4. Len(buffer) # BurstRecords
    BY <2>1 DEF MustFlush
  <2>5. buffer' \in Seq(Tokens) /\ Len(buffer') <= BurstRecords
    BY <1>0, <2>2, <2>3, <2>4
  <2> QED
    BY <1>0, <1>5, <2>1, <2>2, <2>5
<1>8. CASE Flush
  BY <1>0, <1>8 DEF Flush, build
<1>9. CASE WriteBurst
  <2>1. Filled \in 0 .. MaxRecords
    BY <1>0 DEF BuildInv, Filled
  <2>2. /\ buffer' = <<>> /\ bufferEnd' = FALSE /\ bufferFence' = FALSE
        /\ count' = Filled /\ closeFlag' \in {"end", "cont", closeFlag}
        /\ state' \in {"header", "collect"}
        /\ UNCHANGED <<produced, acknowledged, packet, packetFrame, chain, reason>>
    BY <1>9 DEF WriteBurst
  <2>3. bufferEnd' \in BOOLEAN /\ bufferFence' \in BOOLEAN
    BY <2>2
  <2> QED
    BY <1>0, <2>1, <2>2, <2>3
<1>10. CASE WriteHeader \/ WriteCommit
  BY <1>0, <1>10 DEF WriteHeader, WriteCommit, build
<1>11. CASE WriteProducer
  <2>1. packet = produced + 1
    BY <1>11 DEF WriteProducer, PacketInv, WriterInv, Live, Open, Running
  <2>2. /\ produced' = packet /\ acknowledged' = acknowledged /\ count' = 0
        /\ chain' \in {0, packetFrame} /\ state' = "collect"
        /\ UNCHANGED <<buffer, bufferEnd, bufferFence, packet, packetFrame,
                       closeFlag, reason>>
    BY <1>11 DEF WriteProducer, ChainAfter
  <2> QED
    BY <1>0, <2>1, <2>2
<1>12. CASE EndSession
  <2>1. WriterStart'
    BY <1>12 DEF EndSession, WriterStart
  <2>2. bufferEnd' \in BOOLEAN /\ bufferFence' \in BOOLEAN
    BY <2>1 DEF WriterStart
  <2> QED
    BY <1>0, <2>1, <2>2 DEF WriterStart
<1>13. CASE Offer \/ Release \/ NewSession \/ Initialize \/ Consumer \/ UNCHANGED vars
  BY <1>1, <1>13 DEF Offer, Release, NewSession, Initialize, Consumer, BeginPacket,
       CopyPayload, Verify, ApplyRecord, AcceptAll, FinishPacket, Acknowledge,
       Unshared, vars
<1> QED
  BY <1>2, <1>3, <1>4, <1>6, <1>7, <1>8, <1>9, <1>10, <1>11, <1>12, <1>13
     DEF Next, Writer

\* The consumer keeps its type.
LEMMA TypeConsumer ==
  ASSUME TypeOK, PacketInv, SourceInv, BuildInv, FenceInv, SlotInv, ConsumerInv,
         NEW ch, ChainInv(ch), [Next]_vars
  PROVE  /\ pc' \in {"off", "idle", "payload", "verify", "apply", "ack", "exhausted",
                     "faulted"}
         /\ expected' \in 0 .. MaxSequence /\ hpsChain' \in 0 .. MaxSent + 1
         /\ header' \in Headers /\ copy' \in Seq(Tokens) /\ done' \in 0 .. MaxRecords
         /\ hpsFault' \in {"none", "control", "sequence", "torn", "header", "record"}
<1>0. /\ pc \in {"off", "idle", "payload", "verify", "apply", "ack", "exhausted",
                 "faulted"}
      /\ expected \in 0 .. MaxSequence /\ hpsChain \in 0 .. MaxSent + 1
      /\ header \in Headers /\ copy \in Seq(Tokens) /\ done \in 0 .. MaxRecords
      /\ hpsFault \in {"none", "control", "sequence", "torn", "header", "record"}
      /\ producer \in 0 .. MaxSequence /\ ack \in 0 .. producer
      /\ slot \in [Slots -> SlotContents] /\ MaxSequence \in Nat /\ MaxSent \in Nat
      /\ MaxRecords \in Nat /\ <<>> \in Seq(Tokens)
  BY Constants DEF TypeOK
<1>1. CASE UNCHANGED consumer
  BY <1>0, <1>1 DEF consumer
<1>2. ASSUME pc \in {"idle", "payload", "verify", "apply", "ack"}, expected <= producer
      PROVE  /\ slot[SlotOf(expected)] \in SlotContents
             /\ slot[SlotOf(expected)].header \in Headers
             /\ slot[SlotOf(expected)].payload \in Seq(Tokens)
             /\ slot[SlotOf(expected)].header.count <=
                  Len(slot[SlotOf(expected)].payload)
  <2>1. expected = ack + 1 /\ expected \in ack + 1 .. producer
    BY <1>0, <1>2 DEF ConsumerInv
  <2>2. SlotOf(expected) \in Slots
    BY <1>0, <2>1, SlotOfInSlots
  <2> QED
    BY <1>0, <2>1, <2>2 DEF SlotContents, SlotInv
<1>3. CASE Initialize
  <2>1. ack + 1 \in 0 .. MaxSequence \/ ack = MaxSequence
    BY <1>0
  <2> QED
    BY <1>0, <1>3, <2>1 DEF Initialize, Fail
<1>4. CASE BeginPacket
  <2>1. pc = "idle" /\ producer >= expected
    BY <1>4, ConsumerChecksPass DEF BeginPacket
  <2>2. slot[SlotOf(expected)].header \in Headers
    BY <1>0, <1>2, <2>1
  <2> QED
    BY <1>0, <1>4, <2>2 DEF BeginPacket, Fail
<1>5. CASE CopyPayload
  <2>1. /\ pc = "payload" /\ expected <= producer
        /\ header = slot[SlotOf(expected)].header
        /\ copy' = SubSeq(slot[SlotOf(expected)].payload, 1, header.count)
        /\ pc' = "verify"
        /\ UNCHANGED <<expected, hpsChain, header, done, hpsFault>>
    BY <1>5 DEF CopyPayload, ConsumerInv
  <2>2. header.count \in Nat
    BY <1>0 DEF Headers
  <2>3. copy' \in Seq(Tokens)
    BY <1>2, <2>1, <2>2
  <2> QED
    BY <1>0, <2>1, <2>3
<1>6. CASE Verify
  BY <1>0, <1>6 DEF Verify, Fail
<1>7. CASE ApplyRecord \/ AcceptAll
  <2>1. Len(copy) \in 0 .. MaxRecords
    BY <1>0, <1>7 DEF ApplyRecord, AcceptAll, ConsumerInv, Headers
  <2>2. UNCHANGED <<pc, expected, hpsChain, header, copy, hpsFault>>
    BY <1>7 DEF ApplyRecord, AcceptAll
  <2>3. done' \in 0 .. MaxRecords
    BY <1>0, <1>7, <2>1 DEF ApplyRecord, AcceptAll
  <2> QED
    BY <1>0, <2>2, <2>3
<1>8. CASE FinishPacket
  BY <1>0, <1>8 DEF FinishPacket
<1>9. CASE Acknowledge
  <2>1. /\ ~CountersBad /\ SameHeader /\ pc = "ack" /\ expected <= producer
    BY <1>9, ConsumerChecksPass DEF Acknowledge, ConsumerInv
  <2>2. /\ hpsChain' \in {0, header.frame} /\ header' = NoHeader /\ copy' = <<>>
        /\ done' = 0 /\ hpsFault' = hpsFault /\ pc' \in {"exhausted", "idle"}
        /\ \/ expected' = expected
           \/ expected' = expected + 1 /\ expected # MaxSequence
    BY <1>0, <1>9, <2>1 DEF Acknowledge
  <2>3. header.frame \in 0 .. MaxSent + 1
    BY <1>0 DEF Headers
  <2>4. NoHeader \in Headers
    BY Constants DEF NoHeader, Headers, Slots
  <2> QED
    BY <1>0, <2>2, <2>3, <2>4
<1>10. CASE NewSession
  <2>1. NoHeader \in Headers
    BY Constants DEF NoHeader, Headers, Slots
  <2> QED
    BY <1>0, <1>10, <2>1 DEF NewSession
<1>11. CASE Offer \/ Writer \/ Release \/ EndSession \/ UNCHANGED vars
  BY <1>1, <1>11 DEF Offer, Writer, Release, EndSession, ReadControl, ReadAck, Exhaust,
       AcceptBoundary, AcceptRecord, Flush, WriteBurst, WriteHeader, WriteCommit,
       WriteProducer, vars
<1> QED
  BY <1>3, <1>4, <1>5, <1>6, <1>7, <1>8, <1>9, <1>10, <1>11 DEF Next, Consumer

-----------------------------------------------------------------------------
(* The theorems                                                            *)

\* PathInv holds at first.
LEMMA PathInit == Init => PathInv
<1> SUFFICES ASSUME Init PROVE PathInv
  OBVIOUS
<1>1. SlotInv
  <2>1. producer = 0 /\ ack = 0
    BY DEF Init
  <2> QED
    BY <2>1, Constants DEF SlotInv
<1> QED
  BY <1>1, TypeInit, InitPacketInv, SourceInit, BuildInit, ConsumerInit, ChainInit,
     StreamInit DEF PathInv

\* Every step keeps the stream in its place.
LEMMA StreamStep ==
  ASSUME TypeOK, PacketInv, SourceInv, BuildInv, FenceInv, FrameInv, SlotInv,
         ConsumerInv, NEW ch, ChainInv(ch), NEW at, StreamInv(at), [Next]_vars
  PROVE  \E a : StreamInv(a)'
<1>1. CASE WriteProducer
  BY <1>1, StreamPublished
<1>2. CASE NewSession
  <2>1. PICK a : a = [q \in {0} |-> 0]
    OBVIOUS
  <2>2. /\ producer' = 0 /\ ack' = 0 /\ 0 .. 0 = {0} /\ 0 + 1 .. 0 = {}
        /\ ~released' /\ sent' = <<>> /\ applied' = <<>> /\ Len(<<>>) = 0
        /\ pc' = "off" /\ done' = 0
    BY <1>2 DEF NewSession
  <2>3. a \in [0 .. producer' -> Nat] /\ a[0] = 0
    BY <2>1, <2>2
  <2>4. CutInv(a)' /\ HeldInv(a)'
    BY <2>2, <2>3 DEF CutInv, HeldInv
  <2>5. AppliedInv(a)'
    BY <2>2, <2>3 DEF AppliedInv, AppliedLength, One
  <2>6. StreamInv(a)'
    BY <2>4, <2>5 DEF StreamInv
  <2> QED
    BY <2>6
<1>3. CASE ~WriteProducer /\ ~NewSession
  <2>1. producer' = producer /\ (ack' = ack \/ (ack' = ack + 1 /\ ack < producer))
    <3>0. /\ expected \in Nat /\ ack \in Nat /\ producer \in Nat
      BY DEF TypeOK
    <3>1. CASE Acknowledge
      BY <3>0, <3>1 DEF Acknowledge, CountersBad
    <3>2. CASE \/ ReadControl \/ ReadAck \/ Exhaust \/ AcceptBoundary
               \/ AcceptRecord \/ Flush \/ WriteBurst \/ WriteHeader \/ WriteCommit
      BY <3>2 DEF ReadControl, ReadAck, Exhaust, AcceptBoundary, AcceptRecord,
                  Flush, WriteBurst, WriteHeader, WriteCommit, shared
    <3>3. CASE \/ Offer \/ Release \/ EndSession \/ Initialize \/ BeginPacket
               \/ CopyPayload \/ Verify \/ ApplyRecord \/ AcceptAll \/ FinishPacket
               \/ UNCHANGED vars
      BY <3>3 DEF Offer, Release, EndSession, Initialize, BeginPacket, CopyPayload,
                  Verify, ApplyRecord, AcceptAll, FinishPacket, Unshared, shared, vars
    <3> QED
      BY <1>3, <3>1, <3>2, <3>3 DEF Next, Writer, Consumer
  <2>2. CutInv(at)'
    BY <1>3, <2>1, CutStep
  <2>3. HeldInv(at)'
    BY <1>3, <2>1, HeldStep
  <2>4. AppliedInv(at)'
    BY <1>3, AppliedStep
  <2>5. StreamInv(at)'
    BY <2>2, <2>3, <2>4 DEF StreamInv
  <2> QED
    BY <2>5
<1> QED
  BY <1>1, <1>2, <1>3

\* Every step keeps PathInv.
LEMMA PathStep == PathInv /\ [Next]_vars => PathInv'
<1> SUFFICES ASSUME PathInv, [Next]_vars PROVE PathInv'
  OBVIOUS
<1>0. /\ TypeOK /\ PacketInv /\ SourceInv /\ BuildInv /\ FenceInv /\ FrameInv
      /\ SlotInv /\ ConsumerInv
  BY DEF PathInv
<1>1. PICK ch : ChainInv(ch)
  BY DEF PathInv
<1>2. PICK at : StreamInv(at)
  BY DEF PathInv
<1>3. TypeOK'
  <2>1. /\ session' \in 1 .. MaxSessions
        /\ producer' \in 0 .. MaxSequence /\ ack' \in 0 .. producer'
        /\ slot' \in [Slots -> SlotContents]
    BY <1>0, TypeShared
  <2>2. /\ head' \in Kinds \cup {"none"} /\ frame' \in 1 .. MaxSent + 2
        /\ records' \in 0 .. MaxSent + 1 /\ released' \in BOOLEAN
    BY <1>0, TypeSource
  <2>3. /\ state' \in {"wait", "collect", "burst", "header", "commit", "producer"}
        /\ produced' \in 0 .. MaxSequence /\ acknowledged' \in 0 .. produced'
        /\ buffer' \in Seq(Tokens) /\ Len(buffer') <= BurstRecords
        /\ bufferEnd' \in BOOLEAN /\ bufferFence' \in BOOLEAN
        /\ count' \in 0 .. MaxRecords /\ packet' \in 0 .. MaxSequence
        /\ packetFrame' \in 0 .. MaxSent + 1 /\ chain' \in 0 .. MaxSent + 1
        /\ closeFlag' \in {"none", "cont", "end"} /\ reason' \in 0 .. 19
    BY <1>0, TypeWriter
  <2>4. /\ pc' \in {"off", "idle", "payload", "verify", "apply", "ack", "exhausted",
                    "faulted"}
        /\ expected' \in 0 .. MaxSequence /\ hpsChain' \in 0 .. MaxSent + 1
        /\ header' \in Headers /\ copy' \in Seq(Tokens) /\ done' \in 0 .. MaxRecords
        /\ hpsFault' \in {"none", "control", "sequence", "torn", "header", "record"}
    BY <1>0, <1>1, TypeConsumer
  <2> QED
    BY <2>1, <2>2, <2>3, <2>4 DEF TypeOK
<1>4. PacketInv'
  BY <1>0, CountersStep, WriterStep DEF PacketInv
<1>5. SourceInv' /\ BuildInv' /\ FenceInv' /\ FrameInv'
  BY <1>0, SourceStep, BuildStep, FenceStep, FrameStep
<1>6. SlotInv' /\ ConsumerInv'
  BY <1>0, <1>1, <1>2, SlotStep, ConsumerStep
<1>7. \E c : ChainInv(c)'
  BY <1>0, <1>1, ChainStep
<1>8. \E a : StreamInv(a)'
  BY <1>0, <1>1, <1>2, StreamStep
<1> QED
  BY <1>3, <1>4, <1>5, <1>6, <1>7, <1>8 DEF PathInv

\* PathInv holds in every reachable state.
THEOREM PacketPathInvariant == Spec => []PathInv
  BY PathInit, PathStep, PTL DEF Spec

\* Every variable has its type, and the counters of both sides are in step, for
\* every number of slots and every last sequence.
THEOREM PacketTypeOK == Spec => []TypeOK
<1>1. PathInv => TypeOK
  BY DEF PathInv
<1> QED
  BY <1>1, PacketPathInvariant, PTL

\* None of the checks of the writer and of the consumer ever fires, whenever
\* sessions end: only the last sequence stops the writer (local_faults_ of the
\* consumer, fault_reason of the writer).
THEOREM PacketNoFaults == Spec => []NoFaults
<1>1. PathInv => NoFaults
  BY DEF PathInv, BuildInv, ConsumerInv, NoFaults
<1> QED
  BY <1>1, PacketPathInvariant, PTL

\* The records and the ends of frames that the writer takes are applied in
\* order, each once, none left out: the packet path implements the stream of
\* records.
THEOREM PacketImplementsRecordStream == Spec => ImplementsRecordStream
<1>1. Init => Stream!Init
  BY DEF Init, Stream!Init
<1>2. PathInv /\ PathInv' /\ [Next]_vars => [Stream!Next]_<<sent, applied>>
  <2> SUFFICES ASSUME PathInv, PathInv', [Next]_vars,
                      ~UNCHANGED <<sent, applied>>
               PROVE  Stream!Next
    OBVIOUS
  <2>0. TypeOK /\ SourceInv /\ SourceInv'
    BY DEF PathInv
  <2>1. CASE NewSession
    BY <2>1 DEF NewSession, Stream!Next, Stream!Renew
  <2>2. CASE ~NewSession /\ sent' # sent
    <3> DEFINE n == Len(sent)
    <3>1. /\ sent \in Seq(Tokens) /\ sent' \in Seq(Tokens) /\ n \in Nat
          /\ n <= Len(sent') /\ \A i \in 1 .. n : sent'[i] = sent[i]
      BY <2>0, <2>2, SentGrows DEF SourceInv
    <3>2. SubSeq(sent, 1, n) = SubSeq(sent', 1, n)
      <4>1. /\ SubSeq(sent, 1, n) = [i \in 1 .. n |-> sent[i]]
            /\ SubSeq(sent', 1, n) = [i \in 1 .. n |-> sent'[i]]
        BY <3>1
      <4> QED
        BY <3>1, <4>1
    <3>3. Stream!IsStrictPrefix(sent, sent')
      BY <2>2, <3>1, <3>2 DEF Stream!IsStrictPrefix, Stream!IsPrefix
    <3>4. applied' = applied
      BY <2>2 DEF Next, Writer, Consumer, Offer, ReadControl, ReadAck, Exhaust,
         AcceptBoundary, AcceptRecord, Flush, WriteBurst, WriteHeader, WriteCommit,
         WriteProducer, Initialize, BeginPacket, CopyPayload, Verify, ApplyRecord,
         AcceptAll, FinishPacket, Acknowledge, Unshared, Release, EndSession, vars
    <3> QED
      BY <3>1, <3>3, <3>4 DEF Stream!Next, Stream!Send
  <2>3. CASE ~NewSession /\ sent' = sent
    <3> DEFINE m == Len(applied')
    <3>1. PICK at : StreamInv(at)'
      BY DEF PathInv
    <3>2. /\ applied' \in Seq(Tokens) /\ m \in Nat /\ m <= Len(sent)
          /\ \A i \in 1 .. m : applied'[i] = sent[i]
          /\ sent \in Seq(Tokens) /\ Len(sent) \in Nat
      BY <2>0, <2>3, <3>1 DEF StreamInv, AppliedInv, SourceInv
    <3>3. applied \in Seq(Tokens) /\ Len(applied) \in Nat
      BY DEF PathInv, StreamInv, AppliedInv
    <3>4. Len(applied) + 1 <= m
      <4>1. copy \in Seq(Tokens) /\ copy # <<>> => Len(copy) \in Nat \ {0}
        OBVIOUS
      <4>2. CASE ApplyRecord \/ AcceptAll \/ FinishPacket
        <5>1. copy \in Seq(Tokens)
          BY <2>0 DEF TypeOK
        <5> QED
          BY <2>2, <2>3, <3>2, <3>3, <4>1, <4>2, <5>1
             DEF ApplyRecord, AcceptAll, FinishPacket
      <4>3. applied' = applied \/ ApplyRecord \/ AcceptAll \/ FinishPacket
        BY <2>3 DEF Next, Writer, Consumer, Offer, ReadControl, ReadAck, Exhaust,
           AcceptBoundary, AcceptRecord, Flush, WriteBurst, WriteHeader, WriteCommit,
           WriteProducer, Initialize, BeginPacket, CopyPayload, Verify, Acknowledge,
           Unshared, Release, EndSession, vars
      <4> QED
        BY <2>3, <4>2, <4>3
    <3>5. applied' = SubSeq(sent, 1, m)
      <4>1. SubSeq(sent, 1, m) = [i \in 1 .. m |-> sent[i]]
        BY <3>2
      <4>2. applied' = [i \in 1 .. m |-> applied'[i]]
        BY <3>2
      <4> QED
        BY <3>2, <4>1, <4>2
    <3>6. m \in Len(applied) + 1 .. Len(sent)
      BY <3>2, <3>3, <3>4
    <3> QED
      BY <2>3, <3>5, <3>6 DEF Stream!Next, Stream!Deliver
  <2> QED
    BY <2>1, <2>2, <2>3
<1> QED
  BY <1>1, <1>2, PacketPathInvariant, PTL DEF Spec, ImplementsRecordStream, Stream!Spec

=============================================================================
