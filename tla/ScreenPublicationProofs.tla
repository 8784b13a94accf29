---------------------- MODULE ScreenPublicationProofs ----------------------
(***************************************************************************)
(* Proofs about ScreenPublication, for three or more banks and every       *)
(* number of pictures, sessions and deaths: a bank that scan-out shows or  *)
(* reads holds one complete picture, and the HPS is not writing to it;     *)
(* nothing faults in a session that lives; and what the screens show is    *)
(* what PictureShow promises.  ScreenInv is inductive, and QueueInv and    *)
(* OrderInv are on top of it.                                              *)
(***************************************************************************)
EXTENDS ScreenPublication, Integers, TLAPS

\* The publications of a session that are complete, and those acknowledged.
Pub == published \div 2
Ack == acknowledged \div 2

\* The bank of a publication.
Slot(x) == x % BankCount

\* A bank of one of the publications in S.
Of(b, S) == \E x \in S : x >= 1 /\ b = Slot(x)

-----------------------------------------------------------------------------
(* The invariant                                                           *)

WorkerStates ==
  {"asleep", "wait", "fence", "claim", "check", "top", "bottom", "recheck", "odd",
   "name", "place", "even", "done", "stopped", "failed"}

ReaderStates == {"idle", "name", "place", "again", "staged", "waiting", "adopted"}

Descriptors == [sequence : Nat, session : Nat, bank : Nat]

Kinds ==
  /\ bank \in [Banks -> [top : Nat, bottom : Nat]] /\ nextBank \in Banks
  /\ published \in Nat /\ acknowledged \in Nat /\ session \in Nat
  /\ descriptor \in Descriptors /\ candidate \in Descriptors
  /\ buffer \in [Buffers -> Nat] /\ drawn \in Nat
  /\ filling \in Buffers \cup {None} /\ active \in Buffers \cup {None}
  /\ queue = <<>> \/ \E i \in Buffers : queue = <<i>>
  /\ worker \in WorkerStates /\ reader \in ReaderStates
  /\ phase \in {"starting", "running", "resetting", "ending"}
  /\ service \in {"off", "on", "stopping"}
  /\ pending \in BOOLEAN /\ offered \in BOOLEAN /\ valid \in BOOLEAN

\* The HPS answers when its service has ended, and there is one service a session.
LifeInv ==
  /\ quiesce => phase = "ending"
  /\ answered => quiesce /\ service = "off"
  /\ service # "off" => accepted
  /\ service = "off" => worker \in {"stopped", "failed"}
  /\ ~accepted => published = 0 /\ acknowledged = 0
  /\ phase = "starting" => acknowledged = 0

\* The worker has a whole picture of its own.
Working == {"check", "top", "bottom", "recheck", "odd", "name", "place", "even", "done"}

BufferInv ==
  /\ filling # None => filling # active
  /\ queue # <<>> =>
       Head(queue) # active /\ Head(queue) # filling /\ buffer[Head(queue)] # 0
  /\ worker \in Working => active \in Buffers /\ buffer[active] # 0

\* The fence: the worker writes when every publication is acknowledged, and the
\* descriptor is rewritten when its bank is complete.
FenceInv ==
  /\ acknowledged % 2 = 0
  /\ published \in {acknowledged, acknowledged + 1, acknowledged + 2}
  /\ worker \in {"top", "bottom", "recheck", "odd"} => published = acknowledged
  /\ worker \in {"name", "place", "even"} <=>
       published = acknowledged + 1 /\ worker # "stopped"
  /\ accepted => nextBank = Slot(Pub + 1)

CopyInv ==
  /\ worker = "bottom" => bank[nextBank].top = buffer[active]
  /\ worker \in {"recheck", "odd", "name", "place", "even"} => Whole(nextBank)
  /\ worker \in {"place", "even"} => descriptor.sequence = published + 1
  /\ worker = "even" => descriptor.bank = nextBank
  /\ published > 0 /\ published # acknowledged + 1 =>
       descriptor.sequence = published /\ descriptor.bank = Slot(Pub)
  /\ \A x \in {Ack - 1, Ack, Pub} : x >= 1 => Whole(Slot(x))

\* While the reader is at a publication, it is the newest, and not acknowledged.
ReaderInv ==
  /\ reader # "idle" =>
       candidate.sequence = published /\ published = acknowledged + 2
  /\ reader \in {"again", "staged", "waiting", "adopted"} => candidate.bank = Slot(Pub)
  /\ phase \in {"starting", "ending"} => reader = "idle" /\ current = 0
  /\ phase \in {"running", "resetting"} =>
       current = IF reader \in {"waiting", "adopted"} THEN published ELSE acknowledged

\* Where scan-out is: at the last acknowledged publication, or it has turned to the
\* next and the framebuffer has not seen it, or has.
Turned == pending /\ ~offered

ScanInv ==
  /\ phase # "running" =>
       ~pending /\ ~offered /\ ~valid /\ request = None /\ queued = None
  /\ phase = "starting" => reading = None
  /\ pending => reader = "waiting" /\ pendingBank = Slot(Pub)
  /\ offered => pending
  /\ reading # None => Of(reading, {Ack - 1, Ack, Pub})
  /\ reader = "adopted" /\ reading # None => Of(reading, {Ack, Pub})
  /\ phase = "running" /\ ~Turned /\ reader # "adopted" =>
       /\ valid <=> Ack >= 1
       /\ valid => activeBank = Slot(Ack)
       /\ {request, queued} \subseteq {None, Slot(Ack)}
       /\ ~valid => request = None /\ queued = None
       /\ reading # None => Of(reading, {Ack - 1, Ack})
  /\ Turned =>
       /\ valid /\ activeBank = Slot(Pub)
       /\ \A b \in {request, queued, reading} \ {None} : Of(b, {Ack, Pub})
  /\ phase = "running" /\ reader = "adopted" =>
       /\ valid /\ activeBank = Slot(Pub)
       /\ {request, queued} \subseteq {None, Slot(Pub)}

\* A service that nobody stops has a buffer to draw to, and a worker that has seen a
\* queued picture finds one when it claims it.
QueueInv ==
  /\ service = "on" => ~stop
  /\ faulted /\ service = "on" => quiesce
  /\ worker \in {"asleep", "wait", "fence", "claim"} => active = None
  /\ worker \in {"fence", "claim"} /\ service = "on" => queue # <<>>

\* The newest picture published in the session, or the last of the session before.
Last == IF Pub >= 1 THEN bank[Slot(Pub)].top ELSE opened

\* Pictures come to the banks in the order in which they were drawn, those of the
\* session only: the newest one published is older than the worker's, and that one
\* older than the queued one.
OrderInv ==
  /\ opened \in Nat /\ opened <= drawn
  /\ service # "on" => queue = <<>>
  /\ Last <= drawn /\ opened <= Last /\ (Pub >= 1 => opened < Last)
  /\ Ack >= 1 /\ Pub = Ack + 1 => bank[Slot(Ack)].top < Last
  /\ queue # <<>> => Last < buffer[Head(queue)] /\ buffer[Head(queue)] <= drawn
  /\ worker \in Working \ {"done"} => Last < buffer[active]
  /\ worker \in Working => buffer[active] <= drawn
  /\ worker \in Working /\ queue # <<>> => buffer[active] < buffer[Head(queue)]
  /\ worker \in {"recheck", "odd", "name", "place", "even"} =>
       bank[nextBank].top = buffer[active]

ScreenInv ==
  /\ Kinds /\ LifeInv /\ BufferInv /\ FenceInv /\ CopyInv /\ ReaderInv /\ ScanInv

-----------------------------------------------------------------------------
(* Banks and sequences                                                     *)

\* A quotient and a remainder below the divisor are the only ones.
LEMMA Remainder ==
  ASSUME NEW q \in Int, NEW r \in 0 .. BankCount - 1, NEW z \in Int,
         z = BankCount * q + r
  PROVE  z % BankCount = r
<1> DEFINE n == BankCount
           p == z \div n
           s == z % n
<1>1. n \in Nat \ {0} /\ p \in Int /\ s \in 0 .. n - 1 /\ z = n * p + s
  BY PublicationAssumption
<1>2. n * p - n * q = r - s
  BY <1>1
<1> DEFINE d == p - q
<1>3. d \in Int /\ n * d = r - s
  BY <1>1, <1>2
<1>4. CASE d = 0
  BY <1>1, <1>3, <1>4
<1>5. CASE d >= 1
  <2>1. n * d >= n
    BY <1>1, <1>3, <1>5
  <2> QED
    BY <1>1, <1>3, <2>1
<1>6. CASE d <= -1
  <2>1. n * d <= -n
    BY <1>1, <1>3, <1>6
  <2> QED
    BY <1>1, <1>3, <2>1
<1> QED
  BY <1>3, <1>4, <1>5, <1>6

\* The bank of the next publication is the next in turn.
LEMMA SlotNext ==
  ASSUME NEW x \in Int
  PROVE  /\ Slot(x) \in Banks
         /\ Slot(x + 1) = IF Slot(x) = BankCount - 1 THEN 0 ELSE Slot(x) + 1
<1> DEFINE n == BankCount
           q == x \div n
           r == x % n
<1>1. n \in Nat \ {0} /\ q \in Int /\ r \in 0 .. n - 1 /\ x = n * q + r
  BY PublicationAssumption
<1>2. CASE r = n - 1
  <2>1. x + 1 = n * (q + 1) + 0 /\ q + 1 \in Int /\ 0 \in 0 .. n - 1 /\ x + 1 \in Int
    BY <1>1, <1>2
  <2>2. (x + 1) % n = 0
    BY <2>1, Remainder
  <2> QED
    BY <1>1, <1>2, <2>2 DEF Slot, Banks
<1>3. CASE r # n - 1
  <2>1. x + 1 = n * q + (r + 1) /\ r + 1 \in 0 .. n - 1 /\ x + 1 \in Int
    BY <1>1, <1>3
  <2>2. (x + 1) % n = r + 1
    BY <1>1, <2>1, Remainder
  <2> QED
    BY <1>1, <1>3, <2>2 DEF Slot, Banks
<1> QED
  BY <1>2, <1>3

\* With three banks or more, the next one is none of the last two.
LEMMA SlotsApart ==
  ASSUME NEW x \in Int, BankCount >= 3
  PROVE  Slot(x + 2) # Slot(x) /\ Slot(x + 2) # Slot(x + 1) /\ Slot(x + 1) # Slot(x)
<1>1. BankCount \in Nat /\ (x + 1) + 1 = x + 2 /\ x + 1 \in Int
  BY PublicationAssumption
<1>2. /\ Slot(x) \in 0 .. BankCount - 1
      /\ Slot(x + 1) = IF Slot(x) = BankCount - 1 THEN 0 ELSE Slot(x) + 1
  BY SlotNext DEF Banks
<1>3. Slot(x + 2) = IF Slot(x + 1) = BankCount - 1 THEN 0 ELSE Slot(x + 1) + 1
  BY <1>1, SlotNext
<1> QED
  BY <1>1, <1>2, <1>3

\* NextBank turns to the bank of the publication after.
LEMMA NextBankIs ==
  ASSUME NEW x \in Int, nextBank = Slot(x)
  PROVE  NextBank = Slot(x + 1)
<1> DEFINE n == BankCount
<1>1. n \in Nat \ {0} /\ Slot(x) \in 0 .. n - 1
  BY PublicationAssumption, SlotNext DEF Banks
<1>2. CASE Slot(x) = n - 1
  <2>1. Slot(x) + 1 = n * 1 + 0 /\ 0 \in 0 .. n - 1 /\ Slot(x) + 1 \in Int
    BY <1>1, <1>2
  <2>2. (Slot(x) + 1) % n = 0
    BY <2>1, Remainder
  <2> QED
    BY <1>2, <2>2, SlotNext DEF NextBank
<1>3. CASE Slot(x) # n - 1
  <2>1. Slot(x) + 1 = n * 0 + (Slot(x) + 1) /\ Slot(x) + 1 \in 0 .. n - 1
    BY <1>1, <1>3
  <2>2. (Slot(x) + 1) % n = Slot(x) + 1
    BY <1>1, <2>1, Remainder
  <2> QED
    BY <1>3, <2>2, SlotNext DEF NextBank
<1> QED
  BY <1>2, <1>3

\* Halves of sequences.
LEMMA Halves ==
  ASSUME NEW a \in Nat, a % 2 = 0
  PROVE  /\ a \div 2 \in Nat /\ (a + 1) \div 2 = a \div 2
         /\ (a + 2) \div 2 = a \div 2 + 1
         /\ (a + 1) % 2 = 1 /\ (a + 2) % 2 = 0
  OBVIOUS

\* The publications that are complete, by where the fence of sequences stands.
LEMMA PubIs ==
  ASSUME Kinds, FenceInv
  PROVE  /\ Ack \in Nat /\ Pub \in Nat
         /\ published \in {acknowledged, acknowledged + 1} => Pub = Ack
         /\ published = acknowledged + 2 => Pub = Ack + 1
         /\ (published % 2 = 1) <=> (published = acknowledged + 1)
  BY Halves DEF Kinds, FenceInv, Ack, Pub

\* Only the sequences count.
LEMMA SameCount ==
  UNCHANGED <<published, acknowledged>> => Pub' = Pub /\ Ack' = Ack
  BY DEF Pub, Ack

-----------------------------------------------------------------------------
(* The steps in groups, and what each group leaves alone                   *)

DrawStep == BeginDraw \/ FinishDraw \/ Notify

\* The worker where it neither copies nor commits.
WaitStep == WorkerWaits \/ AwaitAck \/ ClaimBuffer \/ CheckFence \/ Recheck
            \/ LetGo \/ WorkerStops

ReaderStep == PollSequence \/ ReadBody \/ ReadAgain

RasterStep == FrameEnd \/ Prefetch \/ TakePrefetch \/ StartRead \/ EndRead

ConsoleStep == ConsoleReset \/ WithdrawRelease \/ AskQuiesce \/ ReleaseConsole

ServiceStep == StopService \/ ServiceGone \/ AnswerQuiesce \/ Die

\* The steps, by who takes them.
LEMMA Groups ==
  ASSUME [Next]_vars
  PROVE  \/ DrawStep \/ WaitStep \/ CopyScreen \/ Commit \/ ReaderStep \/ Activate
         \/ Acknowledge \/ RasterStep \/ ConsoleStep \/ NewSession \/ StartService
         \/ ServiceStep \/ UNCHANGED vars
  BY DEF Next, DrawStep, WaitStep, ReaderStep, RasterStep, ConsoleStep, ServiceStep

\* Drawing leaves the banks and the FPGA alone.
LEMMA DrawFrame ==
  DrawStep => UNCHANGED <<bank, published, acknowledged, descriptor, control,
                 service, active, nextBank, fpga>>
  BY DEF DrawStep, BeginDraw, FinishDraw, Notify, header, control, replay, hps, rdr,
      fb, scanout, fpga

\* A worker that waits leaves banks, header and FPGA alone.
LEMMA WaitFrame ==
  WaitStep => UNCHANGED <<bank, published, acknowledged, descriptor, control,
                 buffer, filling, service, nextBank, fpga>>
  BY DEF WaitStep, WorkerWaits, AwaitAck, ClaimBuffer, CheckFence, Recheck, LetGo,
      WorkerStops, Fails, Goes, Gives, header, control, replay, hps, rdr, fb, scanout,
      fpga

\* A copy changes a bank and nothing that the FPGA looks at.
LEMMA CopyFrame ==
  CopyScreen => UNCHANGED <<published, acknowledged, descriptor, control,
                   buffer, filling, queue, service, active, nextBank, fpga>>
  BY DEF CopyScreen, Goes, Gives, header, control, replay, hps, rdr, fb, scanout, fpga

\* The commit changes the header, no bank.
LEMMA CommitFrame ==
  Commit => UNCHANGED <<bank, acknowledged, control, buffer, filling, queue,
               service, active, fpga>>
  BY DEF Commit, Goes, Gives, header, control, replay, hps, rdr, fb, scanout, fpga

\* The plane reader reads the header and changes nothing of it.
LEMMA ReaderFrame ==
  ReaderStep => UNCHANGED <<bank, published, acknowledged, descriptor, control,
                   buffer, filling, queue, hps, current, fb, scanout>>
  BY DEF ReaderStep, PollSequence, ReadBody, ReadAgain, header, control, replay, hps,
      rdr, fb, scanout, fpga

\* Scan-out changes nothing that the HPS or the reader looks at.
LEMMA RasterFrame ==
  RasterStep => UNCHANGED <<bank, published, acknowledged, descriptor, control,
                   buffer, filling, queue, hps, candidate, current>>
  BY DEF RasterStep, FrameEnd, Prefetch, StartRead, EndRead, TakePrefetch, header,
      control, replay, hps, rdr, fb, scanout, fpga

\* The console touches neither the banks nor the HPS.
LEMMA ConsoleFrame ==
  ConsoleStep => UNCHANGED <<bank, published, acknowledged, descriptor, session,
                    answered, accepted, buffer, filling, queue, hps, reading>>
  BY DEF ConsoleStep, ConsoleReset, WithdrawRelease, AskQuiesce, ReleaseConsole,
      ResetVideo, header, control, replay, hps, rdr, fb, scanout, fpga

\* A service that stops or dies leaves banks and FPGA alone.
LEMMA ServiceFrame ==
  ServiceStep => UNCHANGED <<bank, published, acknowledged, descriptor, session,
                    phase, quiesce, accepted, buffer, nextBank, fpga>>
  BY DEF ServiceStep, StopService, ServiceGone, AnswerQuiesce, Die, header, control,
      replay, hps, rdr, fb, scanout, fpga

-----------------------------------------------------------------------------
(* Every step keeps the invariant, one lemma for each part of it.          *)

\* Every variable that the proofs speak of keeps its kind.
LEMMA KeepKinds ==
  ASSUME Kinds, BufferInv, [Next]_vars
  PROVE  Kinds'
<1> USE DEF Kinds, header, control, replay, hps, rdr, fb, scanout, fpga
<1>1. CASE DrawStep
  <2>1. UNCHANGED <<bank, header, control, active, nextBank, fpga, service>>
    BY <1>1, DrawFrame
  <2>2. worker' \in WorkerStates
    BY <1>1 DEF DrawStep, BeginDraw, FinishDraw, Notify, Woken, WorkerStates
  <2>3. /\ buffer' \in [Buffers -> Nat] /\ drawn' \in Nat
        /\ filling' \in Buffers \cup {None}
        /\ queue' = <<>> \/ \E i \in Buffers : queue' = <<i>>
    <3>1. CASE BeginDraw
      <4>1. \A i \in Buffers : [buffer EXCEPT ![i] = 0] \in [Buffers -> Nat]
        OBVIOUS
      <4>2. queue # <<>> => Head(queue) \in Buffers /\ Tail(queue) = <<>>
        <5>1. \A i : Head(<<i>>) = i /\ Tail(<<i>>) = <<>>
          OBVIOUS
        <5> QED
          BY <5>1
      <4> QED
        BY <3>1, <4>1, <4>2 DEF BeginDraw, FreeBuffers
    <3>2. CASE FinishDraw
      BY <3>2 DEF FinishDraw, Enqueue
    <3>3. CASE Notify
      BY <3>3 DEF Notify
    <3> QED
      BY <1>1, <3>1, <3>2, <3>3 DEF DrawStep
  <2> QED
    BY <2>1, <2>2, <2>3
<1>2. CASE WaitStep
  <2>1. UNCHANGED <<bank, header, control, buffer, filling, drawn, nextBank, fpga,
                    service>>
    BY <1>2 DEF WaitStep, WorkerWaits, AwaitAck, ClaimBuffer, CheckFence, Recheck,
        LetGo, WorkerStops, Fails, Goes, Gives
  <2>2. worker' \in WorkerStates
    BY <1>2 DEF WaitStep, WorkerStates, WorkerWaits, AwaitAck, ClaimBuffer, CheckFence,
        Recheck, LetGo, WorkerStops, Fails, Goes, Gives
  <2>3. /\ active' \in Buffers \cup {None}
        /\ queue' = <<>> \/ \E i \in Buffers : queue' = <<i>>
    <3>1. queue # <<>> => Head(queue) \in Buffers /\ Tail(queue) = <<>>
      <4>1. \A i : Head(<<i>>) = i /\ Tail(<<i>>) = <<>>
        OBVIOUS
      <4> QED
        BY <4>1
    <3> QED
      BY <1>2, <3>1 DEF WaitStep, WorkerWaits, AwaitAck, ClaimBuffer, CheckFence,
          Recheck, LetGo, WorkerStops, Fails, Goes, Gives
  <2> QED
    BY <2>1, <2>2, <2>3
<1>3. CASE CopyScreen \/ Commit
  <2>1. /\ UNCHANGED <<acknowledged, session, candidate, buffer, filling, queue, active,
                       reader, phase, service, pending, offered, valid>>
        /\ UNCHANGED drawn
    BY <1>3, CopyFrame, CommitFrame DEF CopyScreen, Commit, Gives
  <2>2. worker' \in WorkerStates
    BY <1>3 DEF CopyScreen, Commit, Goes, WorkerStates
  <2>3. CASE CopyScreen
    <3>1. worker \in {"top", "bottom"} /\ UNCHANGED <<header, nextBank>>
      BY <2>3 DEF CopyScreen, Goes
    <3>2. bank' \in [Banks -> [top : Nat, bottom : Nat]]
      <4>1. buffer[active] \in Nat
        BY <3>1 DEF BufferInv, Working
      <4> QED
        BY <2>3, <4>1 DEF CopyScreen
    <3> QED
      BY <2>1, <2>2, <3>1, <3>2
  <2>4. CASE Commit
    <3>1. UNCHANGED bank /\ published' \in Nat
      BY <2>4 DEF Commit
    <3>2. descriptor' \in Descriptors
      <4>1. published + 1 \in Nat /\ nextBank \in Nat
        BY PublicationAssumption DEF Banks
      <4> QED
        BY <2>4, <4>1 DEF Commit, Descriptors
    <3>3. nextBank' \in Banks
      <4>1. (nextBank + 1) % BankCount \in Banks
        BY PublicationAssumption DEF Banks
      <4>2. nextBank' \in {nextBank, (nextBank + 1) % BankCount}
        BY <2>4 DEF Commit, NextBank
      <4> QED
        BY <4>1, <4>2
    <3> QED
      BY <2>1, <2>2, <3>1, <3>2, <3>3
  <2> QED
    BY <1>3, <2>3, <2>4
<1>4. CASE ReaderStep
  <2>1. reader' \in ReaderStates
    BY <1>4 DEF ReaderStep, PollSequence, ReadBody, ReadAgain, ReaderStates
  <2>2. candidate' \in Descriptors
    <3>1. CASE PollSequence
      BY <3>1 DEF PollSequence, Descriptors, NoDescriptor
    <3>2. CASE ReadBody
      <4>1. /\ [candidate EXCEPT !.session = descriptor.session] \in Descriptors
            /\ [candidate EXCEPT !.bank = descriptor.bank] \in Descriptors
        BY DEF Descriptors
      <4>2. candidate' \in {candidate,
                            [candidate EXCEPT !.session = descriptor.session],
                            [candidate EXCEPT !.bank = descriptor.bank]}
        BY <3>2 DEF ReadBody
      <4> QED
        BY <4>1, <4>2
    <3>3. CASE ReadAgain
      BY <3>3 DEF ReadAgain
    <3> QED
      BY <1>4, <3>1, <3>2, <3>3 DEF ReaderStep
  <2>3. UNCHANGED drawn
    BY <1>4 DEF ReaderStep, PollSequence, ReadBody, ReadAgain
  <2> QED
    BY <1>4, <2>1, <2>2, <2>3, ReaderFrame
<1>5. CASE Activate
  BY <1>5 DEF Activate, ReaderStates
<1>6. CASE Acknowledge
  <2>1. candidate.sequence \in Nat /\ "idle" \in ReaderStates
    BY DEF Descriptors, ReaderStates
  <2> QED
    BY <1>6, <2>1 DEF Acknowledge
<1>7. CASE RasterStep
  <2>1. reader' \in ReaderStates
    BY <1>7 DEF RasterStep, FrameEnd, Prefetch, TakePrefetch, StartRead, EndRead,
             ReaderStates
  <2>2. pending' \in BOOLEAN /\ offered' \in BOOLEAN /\ valid' \in BOOLEAN
    BY <1>7 DEF RasterStep, FrameEnd, Prefetch, TakePrefetch, StartRead, EndRead
  <2>3. UNCHANGED drawn
    BY <1>7 DEF RasterStep, FrameEnd, Prefetch, TakePrefetch, StartRead, EndRead
  <2> QED
    BY <1>7, <2>1, <2>2, <2>3, RasterFrame
<1>8. CASE ConsoleStep
  <2>1. reader' \in ReaderStates /\ candidate' \in Descriptors
    BY <1>8 DEF ConsoleStep, ConsoleReset, WithdrawRelease, AskQuiesce, ReleaseConsole,
             ReaderStates, Descriptors, NoDescriptor
  <2>2. /\ pending' \in BOOLEAN /\ offered' \in BOOLEAN /\ valid' \in BOOLEAN
        /\ phase' \in {"starting", "running", "resetting", "ending"} /\ UNCHANGED drawn
    BY <1>8 DEF ConsoleStep, ConsoleReset, WithdrawRelease, AskQuiesce, ReleaseConsole,
             ResetVideo
  <2> QED
    BY <1>8, <2>1, <2>2, ConsoleFrame
<1>9. CASE NewSession
  BY <1>9 DEF NewSession, Descriptors, NoDescriptor
<1>10. CASE StartService
  <2>1. /\ 1 \in Banks /\ [i \in Buffers |-> 0] \in [Buffers -> Nat]
        /\ "wait" \in WorkerStates
    BY PublicationAssumption DEF Banks, WorkerStates
  <2> QED
    BY <1>10, <2>1 DEF StartService
<1>11. CASE ServiceStep
  <2>1. worker' \in WorkerStates
    BY <1>11 DEF ServiceStep, StopService, ServiceGone, AnswerQuiesce, Die, Woken,
             WorkerStates
  <2>2. /\ filling' \in Buffers \cup {None} /\ active' \in Buffers \cup {None}
        /\ queue' \in {queue, <<>>} /\ service' \in {"off", "on", "stopping"}
        /\ UNCHANGED drawn
    BY <1>11 DEF ServiceStep, StopService, ServiceGone, AnswerQuiesce, Die
  <2> QED
    BY <1>11, <2>1, <2>2, ServiceFrame
<1>12. CASE UNCHANGED vars
  BY <1>12 DEF vars
<1> QED
  BY <1>1, <1>2, <1>3, <1>4, <1>5, <1>6, <1>7, <1>8, <1>9, <1>10, <1>11, <1>12, Groups

\* The life of service and session.
LEMMA KeepLife ==
  ASSUME Kinds, LifeInv, FenceInv, ReaderInv, [Next]_vars
  PROVE  LifeInv'
<1> USE DEF LifeInv, control
<1>1. CASE DrawStep
  BY <1>1, DrawFrame DEF DrawStep, BeginDraw, FinishDraw, Notify, Woken, hps
<1>2. CASE WaitStep
  BY <1>2, WaitFrame DEF WaitStep, WorkerWaits, AwaitAck, ClaimBuffer, CheckFence,
      Recheck, LetGo, WorkerStops, Fails, Goes
<1>3. CASE CopyScreen \/ Commit
  BY <1>3, CopyFrame, CommitFrame DEF CopyScreen, Commit, Goes
<1>4. CASE ReaderStep \/ RasterStep
  BY <1>4, ReaderFrame, RasterFrame DEF hps
<1>5. CASE Activate
  BY <1>5 DEF Activate, hps, header
<1>6. CASE Acknowledge
  BY <1>6 DEF Acknowledge, ReaderInv, FenceInv, Kinds, hps
<1>7. CASE ConsoleStep
  BY <1>7, ConsoleFrame DEF ConsoleStep, ConsoleReset, WithdrawRelease, AskQuiesce,
      ReleaseConsole, hps
<1>8. CASE NewSession
  BY <1>8 DEF NewSession, hps
<1>9. CASE StartService
  BY <1>9 DEF StartService, header
<1>10. CASE ServiceStep
  BY <1>10, ServiceFrame DEF ServiceStep, StopService, ServiceGone, AnswerQuiesce,
      Die, Joined, Woken, hps
<1>11. CASE UNCHANGED vars
  BY <1>11 DEF vars, hps, header
<1> QED
  BY <1>1, <1>2, <1>3, <1>4, <1>5, <1>6, <1>7, <1>8, <1>9, <1>10, <1>11, Groups

\* A buffer is free, or being filled, or queued, or the worker's.
LEMMA KeepBuffer ==
  ASSUME Kinds, LifeInv, BufferInv, [Next]_vars
  PROVE  BufferInv'
<1> USE DEF BufferInv, Working
<1>1. CASE DrawStep
  <2>1. CASE BeginDraw
    <3>1. filling = None /\ UNCHANGED <<active, worker>>
      BY <2>1 DEF BeginDraw, hps
    <3>2. \/ \E i \in Buffers : /\ i # active /\ (queue # <<>> => i # Head(queue))
                              /\ filling' = i /\ buffer' = [buffer EXCEPT ![i] = 0]
                              /\ UNCHANGED queue
          \/ /\ queue # <<>> /\ filling' = Head(queue) /\ queue' = <<>>
             /\ buffer' = [buffer EXCEPT ![Head(queue)] = 0]
          \/ UNCHANGED <<filling, buffer, queue>>
      BY <2>1 DEF BeginDraw, FreeBuffers, Kinds, hps, replay
    <3> QED
      BY <3>1, <3>2 DEF Kinds
  <2>2. CASE FinishDraw
    <3>1. /\ filling \in Buffers /\ filling # active /\ UNCHANGED <<active, worker>>
          /\ buffer' = [buffer EXCEPT ![filling] = drawn + 1] /\ filling' = None
          /\ queue' = <<filling>>
      BY <2>2 DEF FinishDraw, Enqueue, Kinds, hps, replay
    <3>2. drawn + 1 # 0 /\ None \notin Buffers
      BY PublicationAssumption DEF Kinds, Buffers
    <3>3. buffer'[filling] # 0 /\ \A i \in Buffers \ {filling} : buffer'[i] = buffer[i]
      BY <3>1, <3>2 DEF Kinds
    <3> QED
      BY <3>1, <3>2, <3>3
  <2>3. CASE Notify
    BY <2>3 DEF Notify, Woken
  <2> QED
    BY <1>1, <2>1, <2>2, <2>3 DEF DrawStep
<1>2. CASE WaitStep
  <2>1. CASE ClaimBuffer
    <3>1. CASE worker' = "failed" /\ UNCHANGED <<queue, active, filling, buffer>>
      BY <3>1
    <3>2. CASE /\ queue # <<>> /\ active' = Head(queue) /\ queue' = <<>>
               /\ UNCHANGED <<filling, buffer>>
      <4>1. Head(queue) \in Buffers
        BY <3>2 DEF Kinds
      <4> QED
        BY <3>2, <4>1
    <3> QED
      <4>1. ASSUME queue # <<>> PROVE Tail(queue) = <<>>
        <5>1. PICK i \in Buffers : queue = <<i>>
          BY <4>1 DEF Kinds
        <5>2. Tail(<<i>>) = <<>>
          OBVIOUS
        <5> QED
          BY <5>1, <5>2
      <4> QED
        BY <2>1, <3>1, <3>2, <4>1 DEF ClaimBuffer, Fails, Goes, Gives
  <2>2. CASE LetGo
    BY <2>2, PublicationAssumption DEF LetGo, Goes, Gives, Kinds, Buffers
  <2>3. CASE WaitStep /\ ~ClaimBuffer /\ ~LetGo
    BY <2>3 DEF WaitStep, WorkerWaits, AwaitAck, CheckFence, Recheck, WorkerStops,
        Fails, Goes, Gives
  <2> QED
    BY <1>2, <2>1, <2>2, <2>3
<1>3. CASE CopyScreen \/ Commit
  BY <1>3, CopyFrame, CommitFrame DEF CopyScreen, Commit, Goes
<1>4. CASE ReaderStep \/ RasterStep \/ ConsoleStep
  BY <1>4, ReaderFrame, RasterFrame, ConsoleFrame DEF hps
<1>5. CASE Activate \/ Acknowledge \/ NewSession \/ UNCHANGED vars
  BY <1>5 DEF Activate, Acknowledge, NewSession, vars, hps, replay
<1>6. CASE StartService
  BY <1>6 DEF StartService
<1>7. CASE ServiceStep
  BY <1>7, ServiceFrame DEF ServiceStep, StopService, ServiceGone, AnswerQuiesce, Die,
      Woken, replay, hps
<1> QED
  BY <1>1, <1>2, <1>3, <1>4, <1>5, <1>6, <1>7, Groups

\* A publication is only begun when the one before is acknowledged.
LEMMA KeepFence ==
  ASSUME Kinds, LifeInv, FenceInv, ReaderInv, [Next]_vars
  PROVE  FenceInv'
<1> USE DEF FenceInv, control
<1>1. CASE DrawStep
  BY <1>1, DrawFrame, SameCount DEF DrawStep, BeginDraw, FinishDraw, Notify, Woken,
      hps
<1>2. CASE WaitStep
  BY <1>2, WaitFrame, SameCount DEF WaitStep, WorkerWaits, AwaitAck, ClaimBuffer,
      CheckFence, Recheck, LetGo, WorkerStops, Fails, Goes
<1>3. CASE CopyScreen
  BY <1>3, CopyFrame, SameCount DEF CopyScreen, Goes
<1>4. CASE Commit
  <2>1. /\ acknowledged \in Nat /\ published \in Nat /\ Pub \in Nat /\ accepted
        /\ nextBank = Slot(Pub + 1)
    BY <1>4, PubIs DEF Commit, Goes, LifeInv, Kinds
  <2>2. CASE published' = published
    BY <1>4, <2>1, <2>2, CommitFrame, SameCount DEF Commit, Goes, Kinds
  <2>3. CASE worker = "odd" /\ worker' = "name" /\ published' = published + 1
    <3>1. Pub' = Pub
      BY <2>1, <2>3, Halves DEF Pub
    <3> QED
      BY <1>4, <2>1, <2>3, <3>1, CommitFrame DEF Commit, Goes
  <2>4. CASE worker = "even" /\ worker' = "done" /\ published' = published + 1
    <3>1. Pub' = Pub + 1
      BY <2>1, <2>4, Halves DEF Pub
    <3>2. nextBank' = Slot(Pub + 2)
      BY <1>4, <2>1, <2>4, NextBankIs DEF Commit, Goes
    <3> QED
      BY <1>4, <2>1, <2>4, <3>1, <3>2, CommitFrame
  <2> QED
    BY <1>4, <2>2, <2>3, <2>4 DEF Commit, Goes
<1>5. CASE ReaderStep \/ RasterStep \/ ConsoleStep
  BY <1>5, ReaderFrame, RasterFrame, ConsoleFrame, SameCount DEF hps
<1>6. CASE Acknowledge
  <2>1. /\ published = acknowledged + 2 /\ acknowledged' = published
        /\ UNCHANGED <<published, worker, nextBank, accepted>>
    BY <1>6 DEF Acknowledge, ReaderInv, hps
  <2>2. acknowledged \in Nat /\ published % 2 = 0 /\ Pub' = Pub
    BY <2>1, Halves DEF Kinds, Pub
  <2>3. worker \notin {"top", "bottom", "recheck", "odd", "name", "place", "even"}
    BY <2>1, <2>2
  <2> QED
    BY <2>1, <2>2, <2>3
<1>7. CASE Activate \/ UNCHANGED vars
  BY <1>7, SameCount DEF Activate, vars, hps, header
<1>8. CASE NewSession
  BY <1>8 DEF NewSession, LifeInv, hps
<1>9. CASE StartService
  <2>1. published = 0 /\ acknowledged = 0
    BY <1>9 DEF StartService, LifeInv
  <2>2. Pub = 0 /\ Pub' = 0 /\ Slot(0 + 1) = 1
    <3>1. 1 = BankCount * 0 + 1 /\ 1 \in 0 .. BankCount - 1
      BY PublicationAssumption
    <3>2. Slot(0 + 1) = 1
      BY <3>1, Remainder DEF Slot
    <3> QED
      BY <1>9, <2>1, <3>2 DEF StartService, Pub, header
  <2> QED
    BY <1>9, <2>1, <2>2 DEF StartService, header
<1>10. CASE ServiceStep
  BY <1>10, ServiceFrame, SameCount DEF ServiceStep, StopService, ServiceGone,
      AnswerQuiesce, Die, Woken, hps
<1> QED
  BY <1>1, <1>2, <1>3, <1>4, <1>5, <1>6, <1>7, <1>8, <1>9, <1>10, Groups

\* The banks of the last publications are whole: the worker copies both screens
\* of one picture, into a bank that is none of theirs.
LEMMA KeepCopy ==
  ASSUME BankCount >= 3, Kinds, LifeInv, BufferInv, FenceInv, CopyInv, ReaderInv,
         [Next]_vars
  PROVE  CopyInv'
<1> USE DEF CopyInv
<1>1. CASE DrawStep
  <2>1. UNCHANGED <<bank, published, acknowledged, descriptor, nextBank, active,
                    Pub, Ack>>
    BY <1>1, DrawFrame DEF Pub, Ack
  <2>2. worker' # worker => worker = "asleep" /\ worker' = "wait"
    BY <1>1 DEF DrawStep, BeginDraw, FinishDraw, Notify, Woken, hps
  <2>3. ASSUME worker = "bottom" PROVE buffer'[active] = buffer[active]
    <3>1. active \in Buffers /\ buffer \in [Buffers -> Nat]
      BY <2>3 DEF BufferInv, Working, Kinds
    <3>2. CASE BeginDraw
      <4>1. \/ UNCHANGED buffer
            \/ \E i \in FreeBuffers : buffer' = [buffer EXCEPT ![i] = 0]
            \/ queue # <<>> /\ buffer' = [buffer EXCEPT ![Head(queue)] = 0]
        BY <3>2 DEF BeginDraw
      <4>2. active \notin FreeBuffers /\ (queue # <<>> => Head(queue) # active)
        BY DEF FreeBuffers, BufferInv
      <4> QED
        BY <3>1, <4>1, <4>2
    <3>3. CASE FinishDraw
      BY <3>1, <3>3 DEF FinishDraw, BufferInv
    <3>4. CASE Notify
      BY <3>4 DEF Notify
    <3> QED
      BY <1>1, <3>2, <3>3, <3>4 DEF DrawStep
  <2> QED
    BY <2>1, <2>2, <2>3 DEF Whole
<1>2. CASE WaitStep
  BY <1>2, WaitFrame, SameCount DEF WaitStep, FenceInv, WorkerWaits, AwaitAck,
      ClaimBuffer, CheckFence, Recheck, LetGo, WorkerStops, Fails, Goes, Whole
<1>3. CASE CopyScreen
  <2>1. /\ published = acknowledged /\ Pub = Ack /\ Ack \in Nat /\ accepted
        /\ nextBank = Slot(Ack + 1) /\ buffer[active] # 0
    BY <1>3, PubIs DEF CopyScreen, Goes, FenceInv, LifeInv, BufferInv, Working
  <2>2. \A x \in {Ack - 1, Ack, Pub} : Slot(x) # nextBank
    <3>1. (Ack - 1) + 2 = Ack + 1 /\ (Ack - 1) + 1 = Ack /\ Ack - 1 \in Int
      BY <2>1
    <3>2. Slot(Ack + 1) # Slot(Ack - 1) /\ Slot(Ack + 1) # Slot(Ack)
      BY <3>1, SlotsApart
    <3> QED
      BY <2>1, <3>2
  <2>3. /\ \A b \in Banks \ {nextBank} : bank'[b] = bank[b]
        /\ worker' = "bottom" => bank'[nextBank].top = buffer[active]
        /\ worker' = "recheck" => bank'[nextBank].bottom = buffer[active]
                                  /\ bank'[nextBank].top = bank[nextBank].top
    <3>1. nextBank \in Banks /\ bank \in [Banks -> [top : Nat, bottom : Nat]]
      BY DEF Kinds
    <3> QED
      BY <1>3, <3>1 DEF CopyScreen, Goes
  <2>4. \A x \in {Ack - 1, Ack, Pub} : x >= 1 => bank'[Slot(x)] = bank[Slot(x)]
    BY <2>1, <2>2, <2>3, SlotNext
  <2> QED
    BY <1>3, <2>1, <2>3, <2>4, CopyFrame, SameCount DEF CopyScreen, Goes, Whole
<1>4. CASE Commit
  <2>1. /\ acknowledged \in Nat /\ published \in Nat /\ Pub = Ack /\ Ack \in Nat
        /\ accepted /\ nextBank = Slot(Ack + 1) /\ acknowledged % 2 = 0
        /\ published = IF worker = "odd" THEN acknowledged ELSE acknowledged + 1
        /\ Whole(nextBank)
    BY <1>4, PubIs DEF Commit, Goes, LifeInv, Kinds, FenceInv
  <2>2. UNCHANGED <<bank, acknowledged, Ack>> /\ (Whole(nextBank))'  = Whole(nextBank')
    BY CommitFrame, <1>4 DEF Ack, Whole
  <2>3. CASE worker = "odd" /\ worker' = "name" /\ published' = published + 1
                /\ UNCHANGED <<descriptor, nextBank>>
    <3>1. Pub' = Pub
      BY <2>1, <2>3, Halves DEF Pub
    <3> QED
      BY <2>1, <2>2, <2>3, <3>1 DEF Whole
  <2>4. CASE worker = "name" /\ worker' = "place" /\ UNCHANGED <<published, nextBank>>
                /\ descriptor' = [descriptor EXCEPT !.sequence = published + 1,
                                                    !.session = session]
    <3>1. descriptor'.sequence = published + 1
      BY <2>4 DEF Kinds, Descriptors
    <3> QED
      BY <2>1, <2>2, <2>4, <3>1, SameCount DEF Whole
  <2>5. CASE worker = "place" /\ worker' = "even" /\ UNCHANGED <<published, nextBank>>
                /\ descriptor' = [descriptor EXCEPT !.bank = nextBank]
    <3>1. descriptor'.sequence = descriptor.sequence /\ descriptor'.bank = nextBank
      BY <2>5 DEF Kinds, Descriptors
    <3> QED
      BY <2>1, <2>2, <2>5, <3>1, SameCount DEF Whole
  <2>6. CASE worker = "even" /\ worker' = "done" /\ published' = published + 1
                /\ UNCHANGED descriptor
    <3>1. Pub' = Ack + 1
      BY <2>1, <2>6, Halves DEF Pub, Ack
    <3> QED
      BY <2>1, <2>2, <2>6, <3>1 DEF Whole
  <2> QED
    BY <1>4, <2>3, <2>4, <2>5, <2>6 DEF Commit, Goes
<1>5. CASE ReaderStep \/ RasterStep \/ ConsoleStep
  BY <1>5, ReaderFrame, RasterFrame, ConsoleFrame, SameCount DEF hps, Whole
<1>6. CASE Acknowledge
  <2>1. /\ published = acknowledged + 2 /\ acknowledged' = published
        /\ UNCHANGED <<published, worker, nextBank, bank, descriptor, active, buffer>>
    BY <1>6 DEF Acknowledge, ReaderInv, hps, replay
  <2>2. /\ acknowledged \in Nat /\ Pub' = Pub /\ Ack' = Pub /\ Pub = Ack + 1
        /\ Ack \in Nat
    BY <2>1, PubIs DEF Kinds, Pub, Ack
  <2> QED
    BY <2>1, <2>2 DEF Whole
<1>7. CASE Activate \/ UNCHANGED vars
  BY <1>7, SameCount DEF Activate, vars, hps, header, replay, Whole
<1>8. CASE NewSession
  <2>1. worker' \in {"stopped", "failed"} /\ published' = 0 /\ acknowledged' = 0
    BY <1>8 DEF NewSession, LifeInv, hps
  <2>2. Pub' = 0 /\ Ack' = 0
    BY <2>1 DEF Pub, Ack
  <2> QED
    BY <2>1, <2>2
<1>9. CASE StartService
  <2>1. /\ worker' = "wait" /\ published' = 0 /\ acknowledged' = 0
    BY <1>9 DEF StartService, LifeInv, header
  <2>2. Pub' = 0 /\ Ack' = 0
    BY <2>1 DEF Pub, Ack
  <2> QED
    BY <2>1, <2>2
<1>10. CASE ServiceStep
  BY <1>10, ServiceFrame, SameCount DEF ServiceStep, StopService, ServiceGone,
      AnswerQuiesce, Die, Woken, hps, replay, Whole
<1> QED
  BY <1>1, <1>2, <1>3, <1>4, <1>5, <1>6, <1>7, <1>8, <1>9, <1>10, Groups

\* The reader meets a publication once, and nothing is published meanwhile.
LEMMA KeepReader ==
  ASSUME Kinds, LifeInv, FenceInv, CopyInv, ReaderInv, [Next]_vars
  PROVE  ReaderInv'
<1> USE DEF ReaderInv
<1>1. CASE DrawStep \/ WaitStep \/ CopyScreen
  BY <1>1, DrawFrame, WaitFrame, CopyFrame, SameCount DEF control, fpga, rdr
<1>2. CASE Commit
  <2>1. reader = "idle" /\ UNCHANGED <<reader, candidate, current, phase, acknowledged>>
    BY <1>2, CommitFrame DEF Commit, Goes, FenceInv, Kinds, control, fpga, rdr
  <2> QED
    BY <2>1
<1>3. CASE ReaderStep
  <2>1. UNCHANGED <<published, acknowledged, phase, current, descriptor, Pub>>
    BY <1>3, ReaderFrame DEF control, Pub
  <2>2. CASE PollSequence
    <3>1. /\ phase \in {"running", "resetting"} /\ reader = "idle" /\ published % 2 = 0
          /\ published # current
      BY <2>2, PubIs DEF PollSequence, Enabled, Kinds, FenceInv
    <3>2. published = acknowledged + 2
      BY <3>1, PubIs DEF FenceInv, Kinds
    <3>3. candidate'.sequence = published /\ reader' = "name"
      BY <2>2 DEF PollSequence, NoDescriptor
    <3> QED
      BY <2>1, <3>1, <3>2, <3>3
  <2>3. CASE ReadBody
    <3>1. /\ phase \in {"running", "resetting"} /\ reader \in {"name", "place"}
          /\ reader' \in {"idle", "place", "again"}
          /\ candidate'.sequence = candidate.sequence
          /\ reader' = "again" => candidate'.bank = descriptor.bank
      BY <2>3 DEF ReadBody, Kinds, Descriptors
    <3>2. descriptor.bank = Slot(Pub)
      BY <3>1 DEF CopyInv, Kinds
    <3> QED
      BY <2>1, <3>1, <3>2
  <2>4. CASE ReadAgain
    BY <2>1, <2>4 DEF ReadAgain
  <2> QED
    BY <1>3, <2>2, <2>3, <2>4 DEF ReaderStep
<1>4. CASE Activate \/ UNCHANGED vars
  BY <1>4, SameCount DEF Activate, vars, header, control, hps, rdr, fpga
<1>5. CASE Acknowledge
  BY <1>5 DEF Acknowledge, control
<1>6. CASE RasterStep
  BY <1>6, RasterFrame, SameCount DEF RasterStep, FrameEnd, Prefetch, StartRead,
      EndRead, TakePrefetch, rdr, control
<1>7. CASE ConsoleStep
  <2>1. UNCHANGED <<published, acknowledged, Pub>>
    BY <1>7, ConsoleFrame DEF Pub
  <2>2. CASE WithdrawRelease
    BY <2>1, <2>2 DEF WithdrawRelease, NoDescriptor
  <2>3. CASE ReleaseConsole
    BY <2>1, <2>3 DEF ReleaseConsole, LifeInv, rdr
  <2>4. CASE ConsoleReset \/ AskQuiesce
    BY <2>1, <2>4 DEF ConsoleReset, AskQuiesce, rdr, fpga
  <2> QED
    BY <1>7, <2>2, <2>3, <2>4 DEF ConsoleStep
<1>8. CASE NewSession
  BY <1>8 DEF NewSession, LifeInv, fpga, rdr
<1>9. CASE StartService
  BY <1>9, SameCount DEF StartService, header, fpga, rdr
<1>10. CASE ServiceStep
  BY <1>10, ServiceFrame, SameCount DEF fpga, rdr
<1> QED
  BY <1>1, <1>2, <1>3, <1>4, <1>5, <1>6, <1>7, <1>8, <1>9, <1>10, Groups

\* Nothing of the video side moves.
LEMMA ScanStays ==
  ASSUME ScanInv,
         UNCHANGED <<published, acknowledged, phase, reader, pending, pendingBank,
                     queued, reading, offered, activeBank, valid, request>>
  PROVE  ScanInv'
  BY SameCount DEF ScanInv, Turned, Of

\* Scan-out turns to a publication when no line of the last but one is owed, and
\* the reader acknowledges when it has asked for a line of it.
LEMMA KeepScan ==
  ASSUME BankCount >= 3, Kinds, LifeInv, FenceInv, ReaderInv, ScanInv, [Next]_vars
  PROVE  ScanInv'
<1>1. CASE DrawStep \/ WaitStep \/ CopyScreen
  BY <1>1, DrawFrame, WaitFrame, CopyFrame, ScanStays DEF control, fpga, rdr, fb,
      scanout
<1>2. CASE Commit
  <2>1. /\ reader = "idle" /\ Pub = Ack /\ Ack \in Nat
        /\ published' \in {published, published + 1}
        /\ acknowledged \in Nat /\ acknowledged % 2 = 0
        /\ published \in {acknowledged, acknowledged + 1}
    BY <1>2, PubIs DEF Commit, Goes, FenceInv, ReaderInv, Kinds
  <2>2. Ack' = Ack /\ Pub' \in {Ack, Ack + 1}
    <3>1. \A n \in {acknowledged, acknowledged + 1, acknowledged + 2} :
            n \div 2 \in {Ack, Ack + 1}
      BY <2>1, Halves DEF Ack
    <3>2. published' \in {acknowledged, acknowledged + 1, acknowledged + 2}
      BY <2>1
    <3>3. UNCHANGED acknowledged
      BY <1>2, CommitFrame
    <3> QED
      BY <3>1, <3>2, <3>3 DEF Pub, Ack
  <2>3. UNCHANGED <<phase, reader, pending, pendingBank, queued, reading, offered,
                    activeBank, valid, request>>
    BY <1>2, CommitFrame DEF control, fpga, rdr, fb, scanout
  <2>4. ~pending /\ (reading # None => Of(reading, {Ack - 1, Ack}))
    BY <2>1 DEF ScanInv, Of
  <2> QED
    BY <2>1, <2>2, <2>3, <2>4 DEF ScanInv, Turned, Of
<1>3. CASE ReaderStep
  <2>1. UNCHANGED <<published, acknowledged, phase, pending, pendingBank, queued,
                    reading, offered, activeBank, valid, request>>
    BY <1>3, ReaderFrame DEF control, fb, scanout
  <2>2. reader \notin {"waiting", "adopted"} /\ reader' \notin {"waiting", "adopted"}
    BY <1>3 DEF ReaderStep, PollSequence, ReadBody, ReadAgain
  <2>3. phase # "starting" /\ phase # "ending"
    BY <1>3 DEF ReaderStep, PollSequence, ReadBody, ReadAgain, Enabled, ReaderInv
  <2> QED
    BY <2>1, <2>2, <2>3, SameCount DEF ScanInv, Turned, Of
<1>4. CASE Activate
  <2>1. /\ reader = "staged" /\ reader' = "waiting" /\ candidate.bank = Slot(Pub)
        /\ UNCHANGED <<published, acknowledged, phase, queued, reading, activeBank,
                       valid, request>>
    BY <1>4 DEF Activate, header, control, ReaderInv
  <2>2. ~pending /\ ~offered
    BY <2>1 DEF ScanInv
  <2>3. IF phase = "running"
        THEN pending' = TRUE /\ offered' = TRUE /\ pendingBank' = Slot(Pub)
        ELSE UNCHANGED <<pending, pendingBank, offered>>
    BY <1>4, <2>1, <2>2 DEF Activate, ConsoleUp, Kinds
  <2> QED
    BY <2>1, <2>2, <2>3, SameCount DEF ScanInv, Turned, Of
<1>5. CASE Acknowledge
  <2>1. /\ reader = "adopted" /\ reader' = "idle" /\ published = acknowledged + 2
        /\ acknowledged' = published
        /\ UNCHANGED <<published, phase, pending, pendingBank, queued, reading, offered,
                       activeBank, valid, request>>
    BY <1>5 DEF Acknowledge, control, fb, scanout, ReaderInv
  <2>2. Pub' = Pub /\ Ack' = Pub /\ Pub = Ack + 1 /\ Ack \in Nat
    BY <2>1, PubIs DEF Pub, Ack
  <2>3. ~pending /\ phase \notin {"starting", "ending"}
    BY <2>1 DEF ScanInv, ReaderInv
  <2> QED
    BY <2>1, <2>2, <2>3 DEF ScanInv, Turned, Of
<1>6. CASE RasterStep
  <2>1. /\ UNCHANGED <<published, acknowledged, phase, Pub, Ack>>
        /\ Ack \in Nat /\ Pub \in Nat /\ None \notin Nat
        /\ \A x \in Int : Slot(x) # None
        /\ reader # "idle" => Pub = Ack + 1
    BY <1>6, RasterFrame, PubIs, SlotNext, PublicationAssumption
    DEF control, Pub, Ack, Banks, ReaderInv
  <2>2. CASE FrameEnd
    <3>1. UNCHANGED <<reader, pending, pendingBank, queued, reading, request>>
      BY <2>2 DEF FrameEnd, rdr, fb
    <3>2. CASE offered /\ ConsoleUp
      <4>1. /\ pending /\ pendingBank = Slot(Pub)
            /\ reader = "waiting" /\ phase = "running"
            /\ activeBank' = Slot(Pub) /\ valid' /\ ~offered'
            /\ reading \in {None, activeBank}
        BY <2>2, <3>2 DEF FrameEnd, ConsoleUp, ScanInv
      <4>2. /\ {request, queued} \subseteq {None, Slot(Ack)}
            /\ ~valid => request = None /\ queued = None
            /\ valid <=> Ack >= 1
            /\ valid => activeBank = Slot(Ack)
            /\ reading # None => Of(reading, {Ack - 1, Ack})
        BY <3>2, <4>1 DEF ScanInv, Turned
      <4>3. Pub = Ack + 1 /\ (Ack = 0 => reading = None)
        BY <2>1, <4>1, <4>2 DEF Of
      <4>4. \A b \in {request, queued, reading} \ {None} : Of(b, {Ack, Pub})
        BY <2>1, <4>1, <4>2, <4>3 DEF Of
      <4> QED
        BY <2>1, <3>1, <4>1, <4>2, <4>3, <4>4 DEF ScanInv, Turned, Of
    <3>3. CASE ~(offered /\ ConsoleUp)
      BY <2>1, <2>2, <3>1, <3>3 DEF FrameEnd, ScanInv, Turned, Of
    <3> QED
      BY <3>2, <3>3
  <2>3. CASE Prefetch
    <3>1. /\ valid /\ request' = activeBank
          /\ UNCHANGED <<reader, pending, pendingBank, queued, reading, offered,
                         activeBank, valid>>
      BY <2>3 DEF Prefetch, rdr, fb
    <3>2. phase = "running"
      BY <3>1 DEF ScanInv
    <3> QED
      BY <2>1, <3>1, <3>2 DEF ScanInv, Turned, Of
  <2>4. CASE TakePrefetch
    <3>1. /\ request # None /\ request' = None /\ queued' = request
          /\ UNCHANGED <<pendingBank, reading, offered, activeBank, valid>>
      BY <2>4 DEF TakePrefetch
    <3>2. phase = "running"
      BY <3>1 DEF ScanInv
    <3>3. CASE Adopts
      <4>1. /\ pending /\ ~pending' /\ reader = "waiting" /\ reader' = "adopted"
            /\ request = Slot(Pub)
        BY <2>4, <3>3 DEF TakePrefetch, Adopts, ScanInv
      <4>2. Turned
        <5>1. Slot(Pub) # Slot(Ack)
          BY <2>1, <4>1, SlotsApart
        <5> QED
          BY <3>1, <3>2, <4>1, <5>1 DEF ScanInv
      <4> QED
        BY <2>1, <3>1, <3>2, <4>1, <4>2 DEF ScanInv, Turned, Of
    <3>4. CASE ~Adopts
      BY <2>1, <2>4, <3>1, <3>2, <3>4 DEF TakePrefetch, ScanInv, Turned, Of
    <3> QED
      BY <3>3, <3>4
  <2>5. CASE StartRead
    <3>1. /\ queued # None /\ reading' = queued /\ queued' = None
          /\ UNCHANGED <<reader, pending, pendingBank, offered, activeBank, valid,
                         request>>
      BY <2>5 DEF StartRead, rdr, scanout
    <3>2. phase = "running"
      BY <3>1 DEF ScanInv
    <3> QED
      BY <2>1, <3>1, <3>2 DEF ScanInv, Turned, Of
  <2>6. CASE EndRead
    BY <2>1, <2>6 DEF EndRead, rdr, scanout, ScanInv, Turned, Of
  <2> QED
    BY <1>6, <2>2, <2>3, <2>4, <2>5, <2>6 DEF RasterStep
<1>7. CASE ConsoleStep
  <2>1. UNCHANGED <<published, acknowledged, Pub, Ack, reading>>
    BY <1>7, ConsoleFrame DEF Pub, Ack
  <2>2. CASE ConsoleReset
    BY <2>1, <2>2 DEF ConsoleReset, ResetVideo, rdr, ScanInv, Turned, Of
  <2>3. CASE WithdrawRelease
    BY <2>1, <2>3 DEF WithdrawRelease, ResetVideo, ScanInv, Turned, Of
  <2>4. CASE AskQuiesce
    BY <2>1, <2>4, ScanStays DEF AskQuiesce, fpga, rdr, fb, scanout
  <2>5. CASE ReleaseConsole
    <3>1. /\ Ack = 0 /\ reader = "idle" /\ phase = "starting" /\ phase' = "running"
          /\ UNCHANGED <<reader, pending, pendingBank, queued, offered, activeBank,
                         valid, request>>
      BY <2>5 DEF ReleaseConsole, rdr, fb, ReaderInv, LifeInv, Ack
    <3> QED
      BY <2>1, <3>1 DEF ScanInv, Turned, Of
  <2> QED
    BY <1>7, <2>2, <2>3, <2>4, <2>5 DEF ConsoleStep
<1>8. CASE NewSession
  <2>1. /\ phase = "ending" /\ phase' = "starting" /\ reading = None
        /\ UNCHANGED <<reader, pending, pendingBank, queued, reading, offered,
                       activeBank, valid, request>>
    BY <1>8 DEF NewSession, LifeInv, VideoQuiescent, fpga, rdr, fb, scanout
  <2> QED
    BY <2>1 DEF ScanInv, Turned, Of, ReaderInv
<1>9. CASE StartService \/ ServiceStep
  BY <1>9, ServiceFrame, ScanStays DEF StartService, header, fpga, rdr, fb, scanout
<1>10. CASE UNCHANGED vars
  BY <1>10, ScanStays DEF vars, header, control, fpga, rdr, fb, scanout
<1> QED
  BY <1>1, <1>2, <1>3, <1>4, <1>5, <1>6, <1>7, <1>8, <1>9, <1>10, Groups

\* With one buffer filling or the worker's, the other is free or queued.
LEMMA KeepQueue ==
  ASSUME Kinds, LifeInv, FenceInv, QueueInv, [Next]_vars
  PROVE  QueueInv'
<1> USE DEF QueueInv
<1>1. CASE DrawStep
  <2>1. UNCHANGED <<service, active, control, stop>>
    BY <1>1, DrawFrame DEF DrawStep, BeginDraw, FinishDraw, Notify, hps
  <2>2. CASE BeginDraw
    <3>1. /\ service = "on" /\ UNCHANGED worker /\ filling = None
          /\ queue' # <<>> \/ UNCHANGED queue \/ FreeBuffers = {}
          /\ faulted' = faulted \/ (FreeBuffers = {} /\ queue = <<>>)
      BY <2>2 DEF BeginDraw, hps
    <3>2. active = None \/ queue = <<>> => FreeBuffers # {}
      <4>1. 0 \in Buffers /\ 1 \in Buffers /\ None \notin Buffers
        BY PublicationAssumption DEF Buffers
      <4>2. CASE queue = <<>>
        <5>1. \E i \in Buffers : i # active
          BY <4>1
        <5> QED
          BY <3>1, <4>1, <4>2, <5>1 DEF FreeBuffers
      <4>3. CASE active = None /\ queue # <<>>
        <5>1. PICK j \in Buffers : queue = <<j>>
          BY <4>3 DEF Kinds
        <5>2. PICK i \in Buffers : i # j
          BY <4>1
        <5> QED
          BY <3>1, <4>1, <4>3, <5>1, <5>2 DEF FreeBuffers
      <4> QED
        BY <4>2, <4>3
    <3> QED
      BY <2>1, <3>1, <3>2 DEF control
  <2>3. CASE FinishDraw
    BY <2>1, <2>3 DEF FinishDraw, Enqueue, hps, control
  <2>4. CASE Notify
    BY <2>1, <2>4 DEF Notify, Woken, control
  <2> QED
    BY <1>1, <2>2, <2>3, <2>4 DEF DrawStep
<1>2. CASE WaitStep
  <2>1. UNCHANGED <<service, stop, control>>
    BY <1>2 DEF WaitStep, WorkerWaits, AwaitAck, ClaimBuffer, CheckFence, Recheck,
        LetGo, WorkerStops, Fails, Goes, Gives
  <2>2. /\ worker # "stopped" /\ worker # "failed" /\ service # "off" /\ accepted
    BY <1>2 DEF WaitStep, LifeInv, WorkerWaits, AwaitAck, ClaimBuffer, CheckFence,
        Recheck, LetGo, WorkerStops, Fails, Goes, Gives
  <2>3. ~FenceBroken \/ worker \in {"name", "place", "even"}
    BY <2>2, PubIs DEF FenceBroken, FenceInv, Kinds
  <2>4. \/ UNCHANGED faulted
        \/ faulted' = (faulted \/ ~stop) /\ (service = "on" => quiesce)
    <3>1. CASE AwaitAck
      BY <2>3, <3>1 DEF AwaitAck, Goes, Fails
    <3>2. CASE ClaimBuffer
      BY <3>2, <2>2 DEF ClaimBuffer, Goes, Fails
    <3>3. CASE CheckFence
      BY <2>2, <2>3, <3>3 DEF CheckFence, Goes, Fails, SessionCurrent
    <3>4. CASE Recheck
      BY <2>2, <3>4 DEF Recheck, Goes, Fails, SessionCurrent
    <3>5. CASE WorkerWaits \/ LetGo \/ WorkerStops
      BY <3>5 DEF WorkerWaits, LetGo, WorkerStops
    <3> QED
      BY <1>2, <3>1, <3>2, <3>3, <3>4, <3>5 DEF WaitStep
  <2>5. /\ worker' \in {"asleep", "wait", "fence", "claim"} => active' = None
        /\ worker' \in {"fence", "claim"} /\ service = "on" => queue' # <<>>
    BY <1>2 DEF WaitStep, WorkerWaits, AwaitAck, ClaimBuffer, CheckFence, Recheck,
        LetGo, WorkerStops, Fails, Goes
  <2> QED
    BY <2>1, <2>4, <2>5 DEF control
<1>3. CASE CopyScreen \/ Commit
  BY <1>3, CopyFrame, CommitFrame DEF CopyScreen, Commit, Goes, Gives, control
<1>4. CASE ReaderStep \/ RasterStep
  BY <1>4, ReaderFrame, RasterFrame DEF hps, control
<1>5. CASE ConsoleStep
  BY <1>5, ConsoleFrame DEF hps, ConsoleStep, ConsoleReset, WithdrawRelease,
      AskQuiesce, ReleaseConsole
<1>6. CASE Activate \/ Acknowledge \/ UNCHANGED vars
  BY <1>6 DEF Activate, Acknowledge, vars, hps, replay, control
<1>7. CASE NewSession
  BY <1>7 DEF NewSession, LifeInv, hps
<1>8. CASE StartService
  BY <1>8 DEF StartService
<1>9. CASE ServiceStep
  BY <1>9, ServiceFrame DEF ServiceStep, StopService, ServiceGone, AnswerQuiesce, Die,
      Woken, hps, replay
<1> QED
  BY <1>1, <1>2, <1>3, <1>4, <1>5, <1>6, <1>7, <1>8, <1>9, Groups

-----------------------------------------------------------------------------
(* The order of pictures                                                   *)

\* The last picture and the counts depend on these variables only.
LEMMA LastIs ==
  /\ UNCHANGED <<bank, published, opened>> => Last' = Last
  /\ UNCHANGED <<published, acknowledged>> => Pub' = Pub /\ Ack' = Ack
  BY SameCount DEF Last, Pub

\* The queue holds one buffer at most.
LEMMA QueueIs ==
  ASSUME Kinds, queue # <<>>
  PROVE  /\ Head(queue) \in Buffers /\ Tail(queue) = <<>>
         /\ 1 \in DOMAIN queue /\ queue[1] = Head(queue)
<1>1. PICK i \in Buffers : queue = <<i>>
  BY DEF Kinds
<1>2. Head(queue) = i /\ queue[1] = i /\ Tail(queue) = <<>>
  BY <1>1
<1>3. 1 \in DOMAIN queue
  <2>1. Len(queue) = 1
    BY <1>1
  <2> QED
    BY <1>1, <2>1
<1> QED
  BY <1>2, <1>3

\* The last picture has a number.
LEMMA LastNat ==
  ASSUME Kinds, OrderInv
  PROVE  Last \in Nat
<1>1. Pub \in Int /\ Slot(Pub) \in Banks
  BY SlotNext DEF Pub, Kinds
<1> QED
  BY <1>1 DEF Last, Kinds, OrderInv

\* Nothing is drawn over what is queued or being copied.
LEMMA DrawOrders ==
  ASSUME Kinds, BufferInv, OrderInv, DrawStep
  PROVE  OrderInv'
<1>1. /\ UNCHANGED <<bank, published, acknowledged, service, active, nextBank, opened>>
      /\ Pub' = Pub /\ Ack' = Ack /\ Last' = Last
  BY DrawFrame, LastIs DEF DrawStep, BeginDraw, FinishDraw, Notify
<1>2. drawn \in Nat /\ opened \in Nat /\ opened <= drawn /\ Last <= drawn
  BY DEF Kinds, OrderInv
<1>3. CASE BeginDraw
  <2>1. UNCHANGED <<worker, drawn>>
    BY <1>3 DEF BeginDraw
  <2>2. queue' = queue \/ queue' = <<>>
    BY <1>3, QueueIs DEF BeginDraw
  <2>3. worker \in Working => buffer'[active] = buffer[active]
    BY <1>3 DEF BeginDraw, FreeBuffers, Kinds, BufferInv, Buffers
  <2>4. queue' # <<>> => buffer'[Head(queue)] = buffer[Head(queue)]
    <3> SUFFICES ASSUME queue' # <<>>
                 PROVE  buffer'[Head(queue)] = buffer[Head(queue)]
      OBVIOUS
    <3>1. /\ queue # <<>> /\ queue' = queue /\ Head(queue) \in Buffers
          /\ 1 \in DOMAIN queue /\ queue[1] = Head(queue)
      BY <2>2, QueueIs
    <3>2. CASE FreeBuffers = {}
      BY <1>3, <3>1, <3>2, QueueIs DEF BeginDraw
    <3>3. CASE FreeBuffers # {}
      BY <1>3, <3>1, <3>3 DEF BeginDraw, FreeBuffers, Kinds
    <3> QED
      BY <3>2, <3>3
  <2> QED
    BY <1>1, <1>2, <2>1, <2>2, <2>3, <2>4 DEF OrderInv, Working
<1>4. CASE FinishDraw
  <2>1. /\ drawn' = drawn + 1 /\ filling # None /\ filling \in Buffers
        /\ queue' = <<filling>> /\ Head(queue') = filling /\ queue' # <<>>
        /\ buffer' = [buffer EXCEPT ![filling] = drawn + 1] /\ service = "on"
        /\ UNCHANGED worker
    BY <1>4 DEF FinishDraw, Enqueue, Kinds, hps
  <2>2. buffer'[filling] = drawn + 1
    BY <2>1 DEF Kinds
  <2>3. worker \in Working => buffer'[active] = buffer[active]
    BY <2>1 DEF BufferInv, Kinds
  <2>4. worker \in Working => buffer[active] \in Nat
    BY DEF BufferInv, Kinds
  <2>5. Last \in Nat
    BY LastNat
  <2> QED
    BY <1>1, <1>2, <2>1, <2>2, <2>3, <2>4, <2>5 DEF OrderInv, Working
<1>5. CASE Notify
  <2>1. UNCHANGED <<queue, buffer, drawn>> /\ worker' = Woken
    BY <1>5 DEF Notify
  <2>2. worker' = worker \/ worker' = "wait"
    BY <2>1 DEF Woken
  <2> QED
    BY <1>1, <2>1, <2>2 DEF OrderInv, Working
<1> QED
  BY <1>3, <1>4, <1>5 DEF DrawStep

\* The worker takes the queued picture, which is newer than all before.
LEMMA WaitOrders ==
  ASSUME Kinds, BufferInv, OrderInv, WaitStep
  PROVE  OrderInv'
<1>1. /\ UNCHANGED <<bank, published, acknowledged, service, nextBank, buffer>>
      /\ UNCHANGED <<opened, drawn>>
      /\ Pub' = Pub /\ Ack' = Ack /\ Last' = Last
  BY WaitFrame, LastIs DEF WaitStep, WorkerWaits, AwaitAck, ClaimBuffer, CheckFence,
                           Recheck, LetGo, WorkerStops, Fails, Gives
<1>2. CASE worker = "claim" /\ worker' = "check" /\ ClaimBuffer
  <2>1. queue # <<>> /\ active' = Head(queue) /\ queue' = <<>>
    BY <1>2, QueueIs DEF ClaimBuffer, Goes, Fails
  <2> QED
    BY <1>1, <1>2, <2>1 DEF OrderInv
<1>3. CASE ~(worker = "claim" /\ worker' = "check" /\ ClaimBuffer)
  <2>1. /\ UNCHANGED queue
        /\ worker' \in Working => worker \in Working /\ UNCHANGED active
        /\ worker' \in Working \ {"done"} => worker \in Working \ {"done"}
        /\ worker' \in {"recheck", "odd", "name", "place", "even"} =>
             worker \in {"recheck", "odd", "name", "place", "even"}
    BY <1>3 DEF WaitStep, WorkerWaits, AwaitAck, ClaimBuffer, CheckFence, Recheck,
                LetGo, WorkerStops, Fails, Goes, Working
  <2> QED
    BY <1>1, <2>1 DEF OrderInv, Working
<1> QED
  BY <1>2, <1>3

\* The bank that is copied to is not that of the last publication or of the one
\* before.
LEMMA CopyOrders ==
  ASSUME BankCount >= 3, Kinds, BufferInv, FenceInv, CopyInv, LifeInv, OrderInv,
         CopyScreen
  PROVE  OrderInv'
<1>1. /\ UNCHANGED <<published, acknowledged, queue, service, active, nextBank, buffer>>
      /\ UNCHANGED <<opened, drawn>> /\ Pub' = Pub /\ Ack' = Ack
      /\ active \in Buffers /\ nextBank \in Banks /\ Pub = Ack /\ Ack \in Nat
      /\ nextBank = Slot(Pub + 1)
  BY CopyFrame, LastIs, PubIs DEF CopyScreen, Gives, Goes, BufferInv, Working, Kinds,
     FenceInv, LifeInv
<1>2. nextBank # Slot(Pub) /\ Slot(Pub) \in Banks
  BY <1>1, SlotsApart, SlotNext
<1>3. bank'[Slot(Pub)] = bank[Slot(Pub)]
  BY <1>1, <1>2 DEF CopyScreen, Kinds
<1>4. Last' = Last
  BY <1>1, <1>3 DEF Last
<1>5. \/ worker = "top" /\ worker' = "bottom"
      \/ /\ worker = "bottom" /\ worker' = "recheck"
         /\ bank'[nextBank].top = bank[nextBank].top
  BY <1>1 DEF CopyScreen, Goes, Kinds
<1>6. bank[nextBank].top = buffer[active] \/ worker # "bottom"
  BY DEF CopyInv
<1> QED
  BY <1>1, <1>3, <1>4, <1>5, <1>6 DEF OrderInv, Working

\* A commit makes the worker's picture the last.
LEMMA CommitOrders ==
  ASSUME BankCount >= 3, Kinds, BufferInv, FenceInv, CopyInv, LifeInv, OrderInv, Commit
  PROVE  OrderInv'
<1>1. /\ UNCHANGED <<bank, acknowledged, queue, service, active, buffer>>
      /\ UNCHANGED <<opened, drawn>> /\ Ack' = Ack
      /\ worker \in Working \ {"done"} /\ Ack \in Nat
      /\ nextBank = Slot(Ack + 1) /\ Pub = Ack
      /\ acknowledged \in Nat /\ acknowledged % 2 = 0
  BY CommitFrame, PubIs DEF Commit, Gives, Goes, Ack, Working, FenceInv, LifeInv, Kinds
<1>2. CASE worker \in {"odd", "name", "place"}
  <2>1. /\ worker' \in {"name", "place", "even"} /\ UNCHANGED nextBank
        /\ published' \in {acknowledged, acknowledged + 1}
    BY <1>2 DEF Commit, Goes, FenceInv
  <2>2. Pub' = Pub
    BY <1>1, <2>1, Halves DEF Pub, Ack
  <2>3. Last' = Last
    BY <1>1, <2>2 DEF Last
  <2> QED
    BY <1>1, <1>2, <2>1, <2>2, <2>3 DEF OrderInv, Working
<1>3. CASE worker = "even"
  <2>1. worker' = "done" /\ published' = acknowledged + 2
    BY <1>1, <1>3 DEF Commit, Goes, FenceInv
  <2>2. Pub' = Ack + 1
    BY <1>1, <2>1, Halves DEF Pub, Ack
  <2>3. Last' = buffer[active] /\ bank[nextBank].top = buffer[active]
    BY <1>1, <1>3, <2>2 DEF Last, OrderInv
  <2>4. Last < buffer[active] /\ buffer[active] <= drawn
    BY <1>1, <1>3 DEF OrderInv, Working
  <2>5. /\ opened \in Nat /\ opened <= Last /\ Last \in Nat /\ buffer[active] \in Nat
    BY <1>1, LastNat DEF OrderInv, Kinds, BufferInv
  <2>6. Ack >= 1 => Last = bank[Slot(Ack)].top
    BY <1>1 DEF Last
  <2> QED
    BY <1>1, <1>3, <2>1, <2>2, <2>3, <2>4, <2>5, <2>6 DEF OrderInv, Working
<1> QED
  BY <1>2, <1>3 DEF Commit, Goes

\* Every step keeps OrderInv.
LEMMA KeepOrder ==
  ASSUME BankCount >= 3, ScreenInv, OrderInv, [Next]_vars
  PROVE  OrderInv'
<1> USE DEF ScreenInv
<1>1. CASE ReaderStep \/ RasterStep \/ Activate \/ ConsoleStep \/ UNCHANGED vars
  <2>1. /\ UNCHANGED <<bank, published, acknowledged, queue, service, worker, active>>
        /\ UNCHANGED <<nextBank, buffer, drawn, opened>>
    BY <1>1 DEF ReaderStep, PollSequence, ReadBody, ReadAgain, RasterStep, FrameEnd,
       Prefetch, TakePrefetch, StartRead, EndRead, Activate, ConsoleStep, ConsoleReset,
       WithdrawRelease, AskQuiesce, ReleaseConsole, vars, header, replay, hps
  <2> QED
    BY <2>1, LastIs DEF OrderInv
<1>2. CASE Acknowledge
  <2>1. /\ UNCHANGED <<bank, published, queue, service, worker, active>>
        /\ UNCHANGED <<nextBank, buffer, drawn, opened>>
        /\ acknowledged' = published /\ Ack' = Pub /\ Pub' = Pub
    BY <1>2 DEF Acknowledge, replay, hps, ReaderInv, Pub, Ack
  <2>2. Pub \in Nat
    BY PubIs
  <2> QED
    BY <2>1, <2>2, LastIs DEF OrderInv
<1>3. CASE NewSession
  <2>1. /\ published' = 0 /\ acknowledged' = 0 /\ Pub' = 0 /\ Ack' = 0
        /\ opened' = drawn /\ service = "off"
        /\ UNCHANGED <<queue, service, worker, active, drawn>>
    BY <1>3 DEF NewSession, hps, LifeInv, Pub, Ack
  <2>2. /\ worker \in {"stopped", "failed"} /\ queue = <<>>
        /\ Last' = drawn /\ drawn \in Nat
    BY <2>1 DEF LifeInv, OrderInv, Last, Kinds
  <2> QED
    BY <2>1, <2>2 DEF OrderInv, Working
<1>4. CASE StartService \/ ServiceStep
  <2>1. /\ UNCHANGED <<bank, published, acknowledged, opened, drawn>>
        /\ queue' = <<>> \/ UNCHANGED <<queue, buffer>>
        /\ worker' \in Working => UNCHANGED <<worker, active, buffer, nextBank>>
        /\ service' = "on" \/ queue' = <<>> \/ service # "on"
    BY <1>4 DEF StartService, header, ServiceStep, StopService, ServiceGone,
       AnswerQuiesce, Die, Woken, Working, hps, replay
  <2>2. queue' # <<>> => queue # <<>> /\ UNCHANGED <<queue, buffer>>
    BY <2>1
  <2>3. service' # "on" => queue' = <<>>
    BY <2>1 DEF OrderInv
  <2>4. worker' \in {"recheck", "odd", "name", "place", "even"} => worker' \in Working
    BY DEF Working
  <2> QED
    BY <2>1, <2>2, <2>3, <2>4, LastIs DEF OrderInv
<1> QED
  BY <1>1, <1>2, <1>3, <1>4, Groups, DrawOrders, WaitOrders, CopyOrders, CommitOrders

-----------------------------------------------------------------------------
(* The screens                                                             *)

\* What is on the screens is the picture of the bank that is scanned.
LEMMA ShownIs ==
  ASSUME ScreenInv, ScannedBankWhole
  PROVE  Shown = IF valid THEN bank[activeBank].top ELSE 0
  BY DEF ScannedBankWhole, Scanned, Shown

\* A bank that is shown is not copied to, so what it shows stays.
LEMMA ShownStays ==
  ASSUME ScreenInv, ScannedBankWhole, ScannedBankWhole', ScreenInv', [Next]_vars,
         UNCHANGED <<valid, activeBank>>
  PROVE  Shown' = Shown
<1>1. /\ Shown = IF valid THEN bank[activeBank].top ELSE 0
      /\ Shown' = IF valid' THEN bank'[activeBank'].top ELSE 0
  BY DEF ScannedBankWhole, Scanned, Shown
<1>2. valid => bank'[activeBank] = bank[activeBank]
  <2>1. CASE CopyScreen
    <3>1. valid => nextBank # activeBank
      BY <2>1 DEF CopyScreen, Goes, ScannedBankWhole, Scanned
    <3>2. valid => activeBank \in Banks
      <4>1. \A x \in Nat : Slot(x) \in Banks
        BY SlotNext
      <4>2. valid => activeBank \in {Slot(Ack), Slot(Pub)}
        BY DEF ScreenInv, ScanInv, Turned
      <4>3. Ack \in Nat /\ Pub \in Nat
        BY PubIs DEF ScreenInv
      <4> QED
        BY <4>1, <4>2, <4>3
    <3> QED
      BY <2>1, <3>1, <3>2 DEF CopyScreen, ScreenInv, Kinds
  <2>2. CASE ~CopyScreen
    <3>1. UNCHANGED bank
      BY <2>2, Groups, DrawFrame, WaitFrame, CommitFrame, ReaderFrame, RasterFrame,
         ConsoleFrame, ServiceFrame
      DEF Activate, Acknowledge, NewSession, StartService, vars
    <3> QED
      BY <3>1
  <2> QED
    BY <2>1, <2>2
<1> QED
  BY <1>1, <1>2

\* Scan-out turns to a newer picture of the session.
LEMMA TurnShows ==
  ASSUME BankCount >= 3, ScreenInv, ScannedBankWhole, ScannedBankWhole', ScreenInv',
         OrderInv, FrameEnd, offered, ConsoleUp
  PROVE  /\ Shown' \in Shown + 1 .. drawn /\ Shown' > opened
         /\ phase \in {"starting", "running"}
         /\ UNCHANGED <<drawn, opened, phase>>
<1> USE DEF ScreenInv
<1>1. /\ activeBank' = pendingBank /\ valid' = TRUE /\ phase = "running"
      /\ UNCHANGED <<bank, drawn, opened, phase, published, acknowledged>>
  BY DEF FrameEnd, ConsoleUp, header, control, replay
<1>2. /\ pending /\ pendingBank = Slot(Pub) /\ reader = "waiting" /\ Pub = Ack + 1
      /\ Ack \in Nat
  BY PubIs DEF ScanInv, ReaderInv
<1>3. /\ valid <=> Ack >= 1
      /\ valid => activeBank = Slot(Ack)
  BY <1>1, <1>2 DEF ScanInv, Turned
<1>4. Shown' = Last
  <2>1. Shown' = bank'[activeBank'].top
    BY <1>1 DEF ScannedBankWhole, Scanned, Shown
  <2> QED
    BY <1>1, <1>2, <2>1 DEF Last
<1>5. Shown = IF Ack >= 1 THEN bank[Slot(Ack)].top ELSE 0
  BY <1>3, ShownIs
<1>6. Shown < Last /\ Shown \in Nat /\ opened < Last /\ Last <= drawn
  <2>1. Shown \in Nat
    BY <1>2, <1>5, SlotNext DEF Kinds
  <2>2. opened \in Nat /\ opened < Last /\ Last \in Nat
    BY <1>2, LastNat DEF OrderInv
  <2> QED
    BY <1>2, <1>5, <2>1, <2>2 DEF OrderInv
<1> QED
  BY <1>1, <1>4, <1>6, LastNat DEF Kinds

\* Every step is a step of what the publication promises, or none.
LEMMA StepShows ==
  ASSUME BankCount >= 3, ScreenInv, ScannedBankWhole, ScannedBankWhole', ScreenInv',
         OrderInv, [Next]_vars
  PROVE  [Show!Next]_<<drawn, opened, phase \in {"starting", "running"}, Shown>>
<1> USE DEF ScreenInv
<1>1. valid => phase = "running"
  BY DEF ScanInv
<1>2. ~valid => Shown = 0
  BY DEF Shown
<1>3. CASE FrameEnd /\ offered /\ ConsoleUp
  <2>1. /\ Shown' \in Shown + 1 .. drawn /\ Shown' > opened
        /\ phase \in {"starting", "running"} /\ UNCHANGED <<drawn, opened, phase>>
    BY <1>3, TurnShows
  <2> QED
    BY <2>1 DEF Show!Next, Show!Show
<1>4. CASE ConsoleReset \/ WithdrawRelease
  <2>1. /\ phase' \notin {"starting", "running"} /\ valid' = FALSE
        /\ UNCHANGED <<drawn, opened>>
    BY <1>4 DEF ConsoleReset, WithdrawRelease, ResetVideo, replay
  <2>2. Shown' = 0
    BY <2>1 DEF Shown
  <2> QED
    BY <2>1, <2>2 DEF Show!Next, Show!Close
<1>5. CASE NewSession
  <2>1. /\ phase = "ending" /\ phase' = "starting" /\ opened' = drawn
        /\ UNCHANGED <<drawn, valid, activeBank>>
    BY <1>5 DEF NewSession, LifeInv, fpga, scanout
  <2>2. Shown' = 0 /\ Shown = 0
    BY <1>1, <2>1 DEF Shown
  <2> QED
    BY <2>1, <2>2 DEF Show!Next, Show!Open
<1>6. CASE FinishDraw
  <2>1. drawn' = drawn + 1 /\ UNCHANGED <<opened, phase, valid, activeBank>>
    BY <1>6 DEF FinishDraw, control, fpga, scanout
  <2>2. Shown' = Shown
    BY <2>1, ShownStays
  <2> QED
    BY <2>1, <2>2 DEF Show!Next, Show!Draw
<1>7. CASE ReleaseConsole
  <2>1. /\ phase = "starting" /\ phase' = "running"
        /\ UNCHANGED <<drawn, opened, valid, activeBank>>
    BY <1>7 DEF ReleaseConsole, replay
  <2>2. Shown' = Shown
    BY <2>1, ShownStays
  <2> QED
    BY <2>1, <2>2
<1>8. CASE /\ ~(FrameEnd /\ offered /\ ConsoleUp) /\ ~ConsoleReset /\ ~WithdrawRelease
           /\ ~NewSession /\ ~FinishDraw /\ ~ReleaseConsole
  <2>1. UNCHANGED <<drawn, opened, phase, valid, activeBank>>
    <3>1. CASE DrawStep
      BY <1>8, <3>1 DEF DrawStep, BeginDraw, Notify, control, fpga, scanout
    <3>2. CASE WaitStep \/ CopyScreen \/ Commit
      BY <3>2 DEF WaitStep, WorkerWaits, AwaitAck, ClaimBuffer, CheckFence, Recheck,
         LetGo, WorkerStops, CopyScreen, Commit, Fails, Gives, control, fpga, scanout
    <3>3. CASE ReaderStep \/ Activate \/ Acknowledge
      BY <3>3 DEF ReaderStep, PollSequence, ReadBody, ReadAgain, Activate, Acknowledge,
         replay, control, scanout
    <3>4. CASE RasterStep
      BY <1>8, <3>4 DEF RasterStep, FrameEnd, Prefetch, TakePrefetch, StartRead,
         EndRead, replay, control, scanout
    <3>5. CASE ConsoleStep
      BY <1>8, <3>5 DEF ConsoleStep, AskQuiesce, replay, fpga, scanout
    <3>6. CASE StartService \/ ServiceStep
      BY <3>6 DEF StartService, ServiceStep, StopService, ServiceGone, AnswerQuiesce,
         Die, replay, control, fpga, scanout
    <3>7. CASE UNCHANGED vars
      BY <3>7 DEF vars, replay, control, fpga, scanout
    <3> QED
      BY <1>8, <3>1, <3>2, <3>3, <3>4, <3>5, <3>6, <3>7, Groups
  <2>2. Shown' = Shown
    BY <2>1, ShownStays
  <2> QED
    BY <2>1, <2>2
<1> QED
  BY <1>3, <1>4, <1>5, <1>6, <1>7, <1>8

-----------------------------------------------------------------------------
(* The theorems                                                            *)

\* The invariant behind the result, with three banks or more.
THEOREM ScreenInvariant == ASSUME BankCount >= 3 PROVE Spec => []ScreenInv
<1>1. Init => ScreenInv
  <2> SUFFICES ASSUME Init PROVE ScreenInv
    OBVIOUS
  <2>1. /\ BankCount \in Nat /\ None \notin Nat /\ Pub = 0 /\ Ack = 0 /\ 1 \in Banks
        /\ 0 \in Banks
    BY PublicationAssumption DEF Init, Pub, Ack, Banks
  <2>2. Kinds
    BY <2>1 DEF Init, Kinds, Descriptors, NoDescriptor, WorkerStates, ReaderStates
  <2>3. LifeInv /\ BufferInv /\ FenceInv
    BY <2>1 DEF Init, LifeInv, BufferInv, FenceInv, Working
  <2>4. CopyInv /\ ReaderInv
    BY <2>1 DEF Init, CopyInv, ReaderInv
  <2>5. ScanInv
    BY <2>1 DEF Init, ScanInv, Turned
  <2> QED
    BY <2>2, <2>3, <2>4, <2>5 DEF ScreenInv
<1>2. ScreenInv /\ [Next]_vars => ScreenInv'
  BY KeepKinds, KeepLife, KeepBuffer, KeepFence, KeepCopy, KeepReader, KeepScan
  DEF ScreenInv
<1> QED
  BY <1>1, <1>2, PTL DEF Spec

\* A bank that scan-out shows or reads, a burst left over from an earlier session
\* included, holds one complete picture, and the HPS is not writing to it.  With two
\* banks this would be wrong.
THEOREM ScannedBanksAreWhole == ASSUME BankCount >= 3 PROVE Spec => []ScannedBankWhole
<1>1. ScreenInv => ScannedBankWhole
  <2> SUFFICES ASSUME ScreenInv, NEW b \in Scanned
               PROVE  Whole(b) /\ ~(worker \in {"top", "bottom"} /\ nextBank = b)
    BY DEF ScannedBankWhole
  <2>1. Ack \in Nat /\ (reader # "idle" => Pub = Ack + 1)
    BY PubIs DEF ScreenInv, ReaderInv
  <2>2. Of(b, {Ack - 1, Ack, Pub})
    <3>1. CASE b \in {reading} \ {None}
      BY <3>1 DEF ScreenInv, ScanInv, Scanned
    <3>2. CASE (valid /\ b = activeBank) \/ b \in {request, queued} \ {None}
      <4>1. phase = "running"
        BY <3>2 DEF ScreenInv, ScanInv
      <4>2. Turned => reader = "waiting"
        BY DEF ScreenInv, ScanInv, Turned
      <4> QED
        BY <2>1, <3>2, <4>1, <4>2 DEF ScreenInv, ScanInv, Of
    <3> QED
      BY <3>1, <3>2 DEF Scanned
  <2>3. Whole(b)
    BY <2>2 DEF Of, ScreenInv, CopyInv
  <2>4. ASSUME worker \in {"top", "bottom"}, nextBank = b PROVE FALSE
    <3>1. Pub = Ack /\ nextBank = Slot(Ack + 1)
      BY <2>4, PubIs DEF ScreenInv, FenceInv, LifeInv
    <3>2. (Ack - 1) + 2 = Ack + 1 /\ (Ack - 1) + 1 = Ack /\ Ack - 1 \in Int
      BY <2>1
    <3>3. Slot(Ack + 1) # Slot(Ack - 1) /\ Slot(Ack + 1) # Slot(Ack)
      BY <3>2, SlotsApart
    <3> QED
      BY <2>2, <2>4, <3>1, <3>3 DEF Of
  <2> QED
    BY <2>3, <2>4
<1> QED
  BY <1>1, ScreenInvariant, PTL

\* In a session that lives, the fence between HPS and FPGA always holds, the picture
\* that the worker has seen queued is still there after it has waited for the fence,
\* and there is always a buffer to draw to.
THEOREM FaultsAtEndOnly == ASSUME BankCount >= 3 PROVE Spec => []FaultsOnlyAtEnd
<1>1. Init => QueueInv
  BY DEF Init, QueueInv
<1>2. ScreenInv /\ QueueInv /\ [Next]_vars => QueueInv'
  BY KeepQueue DEF ScreenInv
<1>3. QueueInv => FaultsOnlyAtEnd
  BY DEF QueueInv, FaultsOnlyAtEnd
<1> QED
  BY <1>1, <1>2, <1>3, ScreenInvariant, PTL DEF Spec

\* The screens are black or show one complete picture of the current session, and
\* never go back to an earlier one; after a session they are black, and no picture
\* drawn before the next is shown in it.
THEOREM ShowsPictures == ASSUME BankCount >= 3 PROVE Spec => ImplementsPictureShow
<1>1. Init => Show!Init
  BY DEF Init, Show!Init, Shown
<1>2. Init => OrderInv
  <2> SUFFICES ASSUME Init PROVE OrderInv
    OBVIOUS
  <2>1. Pub = 0 /\ Ack = 0 /\ opened = 0 /\ drawn = 0 /\ worker = "stopped"
        /\ queue = <<>>
    BY DEF Init, Pub, Ack
  <2> QED
    BY <2>1 DEF OrderInv, Last, Working
<1>3. ScreenInv /\ OrderInv /\ [Next]_vars => OrderInv'
  BY KeepOrder
<1>4. /\ ScreenInv /\ ScannedBankWhole /\ OrderInv /\ [Next]_vars
      /\ ScreenInv' /\ ScannedBankWhole'
      => [Show!Next]_<<drawn, opened, phase \in {"starting", "running"}, Shown>>
  BY StepShows
<1> QED
  BY <1>1, <1>2, <1>3, <1>4, ScreenInvariant, ScannedBanksAreWhole, PTL
  DEF Spec, ImplementsPictureShow, Show!Spec
=============================================================================
