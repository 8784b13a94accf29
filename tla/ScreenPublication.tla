------------------------- MODULE ScreenPublication -------------------------
(***************************************************************************)
(* The way of a finished picture to the screens, in the build that         *)
(* publishes complete screen pairs (NDS_HYBRID_3D, NDS_MATCHED_DISPLAY).   *)
(*                                                                         *)
(* On the HPS, the replay worker draws pictures into two private buffers   *)
(* and queues the newest.  The publication worker of Hybrid3DService waits *)
(* for the FPGA to acknowledge the last picture, claims the queued buffer  *)
(* and lets FullFramePublisher copy both screens into the next of four     *)
(* shared banks and commit a descriptor.  In the FPGA, the plane reader    *)
(* polls the descriptor and hands its bank to the framebuffer; the         *)
(* framebuffer offers it to scan-out; scan-out turns to it at the end of a *)
(* frame; the framebuffer sees a prefetch from that bank and reports the   *)
(* adoption; and only then does the reader acknowledge.                    *)
(*                                                                         *)
(* The session around it (module SessionControl) appears as the few steps  *)
(* it takes here: the console is reset, its release is withdrawn, the HPS  *)
(* is asked to stop and answers, and a new session starts on a cleared     *)
(* header once scan-out is quiet.  The HPS process may die at any step.    *)
(* Crossings between clocks are steps that happen some time later.         *)
(***************************************************************************)
EXTENDS Naturals, Sequences

CONSTANTS
  BankCount,     \* 4 in the code
  MaxPictures,   \* bound: pictures drawn
  MaxSessions,   \* bound: sessions
  MaxDeaths,     \* bound: deaths of the HPS process
  None           \* no buffer, no bank

ASSUME PublicationAssumption ==
  /\ BankCount \in Nat \ {0, 1} /\ MaxSessions \in Nat \ {0}
  /\ MaxPictures \in Nat /\ MaxDeaths \in Nat /\ None \notin Nat

Banks   == 0 .. BankCount - 1
Buffers == {0, 1}

\* A picture is told apart by its number; 0 is none, or an unfinished one.
Picture == 0 .. MaxPictures
NoDescriptor == [sequence |-> 0, session |-> 0, bank |-> 0]

VARIABLES
  \* the shared DDR: both screens of every bank, and the control header
  bank, published, acknowledged, descriptor,
  \* the session
  session, phase, quiesce, answered, accepted, deaths,
  \* the HPS: service, replay worker and queue
  service, faulted, stop, drawn, opened,
  buffer, filling, queue, notify,
  \* the HPS: publication worker and FullFramePublisher
  worker, active, nextBank,
  \* nds_h3d_plane_reader
  reader, candidate, current,
  \* nds_nitro_fb_ddr3
  pending, pendingBank, queued, reading,
  \* nds_nitro_video_scanout
  offered, activeBank, valid, request, cleared

header  == <<published, acknowledged, descriptor>>
control == <<session, phase, quiesce, answered, accepted, deaths>>
replay  == <<drawn, opened, buffer, filling, queue, notify>>
hps     == <<service, faulted, stop, worker, active, nextBank>>
rdr     == <<reader, candidate, current>>
fb      == <<pending, pendingBank, queued, reading>>
scanout == <<offered, activeBank, valid, request, cleared>>
fpga    == <<rdr, fb, scanout>>
vars    == <<bank, header, control, replay, hps, fpga>>

Init ==
  /\ bank = [b \in Banks |-> [top |-> 0, bottom |-> 0]]
  /\ published = 0 /\ acknowledged = 0 /\ descriptor = NoDescriptor
  /\ session = 1 /\ phase = "starting" /\ quiesce = FALSE /\ answered = FALSE
  /\ accepted = FALSE /\ deaths = 0
  /\ service = "off" /\ faulted = FALSE /\ stop = FALSE
  /\ drawn = 0 /\ opened = 0 /\ buffer = [i \in Buffers |-> 0]
  /\ filling = None /\ queue = <<>> /\ notify = FALSE
  /\ worker = "stopped" /\ active = None /\ nextBank = 1
  /\ reader = "idle" /\ candidate = NoDescriptor /\ current = 0
  /\ pending = FALSE /\ pendingBank = 0 /\ queued = None /\ reading = None
  /\ offered = FALSE /\ activeBank = 0 /\ valid = FALSE /\ request = None
  /\ cleared = TRUE

-----------------------------------------------------------------------------
(* Seeded faults                                                           *)

\* The header is rebuilt as soon as the HPS has answered.
HpsAlone == TRUE

\* The search for a free buffer ends one short.
FreeButLast == {i \in {0} : i # active /\ i # filling
                            /\ \A k \in DOMAIN queue : queue[k] # i}

\* Scan-out goes on showing its bank over the console's reset.
KeepsImage ==
  /\ pending' = FALSE /\ pendingBank' = 0 /\ queued' = None
  /\ offered' = FALSE /\ request' = None
  /\ UNCHANGED <<reading, activeBank, valid>>

\* The condition variable is never notified.
WakesNobody == worker

-----------------------------------------------------------------------------
(* The replay worker draws                                                 *)

FreeBuffers == {i \in Buffers : i # active /\ i # filling
                                /\ \A k \in DOMAIN queue : queue[k] # i}

Woken == IF worker = "asleep" THEN "wait" ELSE worker

\* A picture is begun in a buffer that nobody holds, or else in the oldest
\* queued one, which is given up.  Records keep coming from the packets that
\* were taken before the console was reset.
BeginDraw ==
  /\ service = "on" /\ ~faulted /\ phase # "starting"
  /\ filling = None /\ ~notify /\ drawn < MaxPictures
  /\ \/ \E i \in FreeBuffers :
          /\ \A j \in FreeBuffers : i <= j
          /\ filling' = i /\ buffer' = [buffer EXCEPT ![i] = 0]
          /\ UNCHANGED <<queue, faulted>>
     \/ /\ FreeBuffers = {} /\ queue # <<>>
        /\ filling' = Head(queue) /\ queue' = Tail(queue)
        /\ buffer' = [buffer EXCEPT ![Head(queue)] = 0]
        /\ UNCHANGED faulted
     \/ /\ FreeBuffers = {} /\ queue = <<>>
        /\ faulted' = TRUE
        /\ UNCHANGED <<filling, buffer, queue>>
  /\ UNCHANGED <<bank, header, control, drawn, opened, notify, service, stop,
                 worker, active, nextBank, fpga>>

\* The limit of pending pictures is one: the new one replaces it.
Enqueue(i) == <<i>>

FinishDraw ==
  /\ service = "on" /\ filling # None
  /\ drawn' = drawn + 1 /\ buffer' = [buffer EXCEPT ![filling] = drawn']
  /\ filling' = None /\ queue' = Enqueue(filling) /\ notify' = TRUE
  /\ UNCHANGED <<bank, header, control, opened, hps, fpga>>

\* The condition variable is notified after the mutex is released.
Notify ==
  /\ notify /\ notify' = FALSE /\ worker' = Woken
  /\ UNCHANGED <<bank, header, control, drawn, opened, buffer, filling, queue,
                 service, faulted, stop, active, nextBank, fpga>>

-----------------------------------------------------------------------------
(* The publication worker                                                  *)

\* A step of the worker to another place, of which the rest is given apart.
Goes(from, to) == worker = from /\ worker' = to
Gives == UNCHANGED <<control, drawn, opened, buffer, filling, notify, service,
                     stop, fpga>>
\* publication_fail: a worker that is to stop anyway reports no fault.
Fails(from) ==
  /\ Goes(from, "failed") /\ faulted' = (faulted \/ ~stop)
  /\ UNCHANGED <<bank, header, queue, active, nextBank>> /\ Gives

WorkerStops ==
  /\ stop /\ worker \in {"wait", "fence", "claim", "check"}
  /\ worker' = "stopped"
  /\ UNCHANGED <<bank, header, faulted, queue, active, nextBank>> /\ Gives

WorkerWaits ==
  /\ ~stop
  /\ \/ queue = <<>> /\ Goes("wait", "asleep")
     \/ queue # <<>> /\ Goes("wait", "fence")
  /\ UNCHANGED <<bank, header, faulted, queue, active, nextBank>> /\ Gives

FenceBroken ==
  published % 2 = 1 \/ acknowledged > published \/ published - acknowledged > 2

\* wait_for_plane_publication_ack, with the mutex released.
AwaitAck ==
  /\ ~stop
  /\ \/ FenceBroken /\ Fails("fence")
     \/ /\ ~FenceBroken /\ published = acknowledged /\ Goes("fence", "claim")
        /\ UNCHANGED <<bank, header, faulted, queue, active, nextBank>> /\ Gives

\* The mutex is taken again; the queue is not tested again.
ClaimBuffer ==
  /\ ~stop
  /\ \/ queue = <<>> /\ Fails("claim")
     \/ /\ queue # <<>> /\ Goes("claim", "check")
        /\ active' = Head(queue) /\ queue' = Tail(queue)
        /\ UNCHANGED <<bank, header, faulted, nextBank>> /\ Gives

SessionCurrent == accepted /\ ~quiesce

CheckFence ==
  /\ ~stop
  /\ \/ /\ FenceBroken \/ (published = acknowledged /\ ~SessionCurrent)
        /\ Fails("check")
     \/ /\ ~FenceBroken /\ published = acknowledged /\ SessionCurrent
        /\ Goes("check", "top")
        /\ UNCHANGED <<bank, header, faulted, queue, active, nextBank>> /\ Gives

CopyScreen ==
  /\ \/ /\ Goes("top", "bottom")
        /\ bank' = [bank EXCEPT ![nextBank].top = buffer[active]]
     \/ /\ Goes("bottom", "recheck")
        /\ bank' = [bank EXCEPT ![nextBank].bottom = buffer[active]]
  /\ UNCHANGED <<header, faulted, queue, active, nextBank>> /\ Gives

Recheck ==
  \/ ~SessionCurrent /\ Fails("recheck")
  \/ /\ SessionCurrent /\ Goes("recheck", "odd")
     /\ UNCHANGED <<bank, header, faulted, queue, active, nextBank>> /\ Gives

NextBank == (nextBank + 1) % BankCount

\* The sequence is odd while the descriptor is rewritten.
Commit ==
  /\ \/ /\ Goes("odd", "name") /\ published' = published + 1
        /\ UNCHANGED <<descriptor, nextBank>>
     \/ /\ Goes("name", "place")
        /\ descriptor' = [descriptor EXCEPT !.sequence = published + 1,
                                            !.session = session]
        /\ UNCHANGED <<published, nextBank>>
     \/ /\ Goes("place", "even")
        /\ descriptor' = [descriptor EXCEPT !.bank = nextBank]
        /\ UNCHANGED <<published, nextBank>>
     \/ /\ Goes("even", "done")
        /\ published' = published + 1 /\ nextBank' = NextBank
        /\ UNCHANGED descriptor
  /\ UNCHANGED <<bank, acknowledged, faulted, queue, active>> /\ Gives

LetGo ==
  /\ Goes("done", "wait") /\ active' = None
  /\ UNCHANGED <<bank, header, faulted, queue, nextBank>> /\ Gives

Worker == WorkerWaits \/ AwaitAck \/ ClaimBuffer \/ CheckFence \/ CopyScreen
          \/ Recheck \/ Commit \/ LetGo \/ WorkerStops

-----------------------------------------------------------------------------
(* The plane reader                                                        *)

ConsoleUp == phase = "running"
Enabled   == phase \in {"running", "resetting"}       \* external_enable

\* A descriptor request while a picture is staged or awaits its adoption is
\* consumed, so one place in its work is enough to describe the reader.
PollSequence ==
  /\ Enabled /\ reader = "idle"
  /\ published # 0 /\ published % 2 = 0 /\ published # current
  /\ reader' = "name" /\ candidate' = [NoDescriptor EXCEPT !.sequence = published]
  /\ UNCHANGED <<bank, header, control, replay, hps, current, fb, scanout>>

ReadBody ==
  /\ \/ /\ reader = "name"
        /\ IF descriptor.sequence = candidate.sequence
             THEN reader' = "place" /\ candidate' = [candidate EXCEPT !.session = descriptor.session]
             ELSE reader' = "idle" /\ UNCHANGED candidate
     \/ /\ reader = "place" /\ reader' = "again"
        /\ candidate' = [candidate EXCEPT !.bank = descriptor.bank]
  /\ UNCHANGED <<bank, header, control, replay, hps, current, fb, scanout>>

ReadAgain ==
  /\ reader = "again"
  /\ reader' = IF published = candidate.sequence /\ candidate.session = session
                 THEN "staged" ELSE "idle"
  /\ UNCHANGED <<bank, header, control, replay, hps, candidate, current, fb, scanout>>

\* The framebuffer takes one publication at a time, and none while the
\* console is reset.
Activate ==
  /\ reader = "staged" /\ reader' = "waiting" /\ current' = candidate.sequence
  /\ IF ConsoleUp /\ ~pending
       THEN pending' = TRUE /\ pendingBank' = candidate.bank /\ offered' = ~offered
       ELSE UNCHANGED <<pending, pendingBank, offered>>
  /\ UNCHANGED <<bank, header, control, replay, hps, candidate, queued, reading,
                 activeBank, valid, request, cleared>>

Acknowledge ==
  /\ reader = "adopted" /\ reader' = "idle"
  /\ acknowledged' = candidate.sequence
  /\ UNCHANGED <<bank, published, descriptor, control, replay, hps, candidate,
                 current, fb, scanout>>

-----------------------------------------------------------------------------
(* Framebuffer and scan-out                                                *)

\* The last line of a frame.  A publication that has crossed is taken up.  A
\* burst of an earlier frame is over by then: it takes microseconds, a frame
\* sixteen milliseconds, and the DDR fabric serves scan-out (module DdrFabric).
FrameEnd ==
  /\ reading \in {None, activeBank}
  /\ IF offered /\ ConsoleUp
       THEN activeBank' = pendingBank /\ valid' = TRUE /\ offered' = FALSE
       ELSE UNCHANGED <<activeBank, valid, offered>>
  /\ cleared' = (cleared \/ ~Enabled)
  /\ UNCHANGED <<bank, header, control, replay, hps, rdr, fb, request>>

\* A line is asked for.  The framebuffer sees each request before the next.
Prefetch ==
  /\ valid /\ request = None /\ request' = activeBank
  /\ UNCHANGED <<bank, header, control, replay, hps, rdr, fb, offered,
                 activeBank, valid, cleared>>

Adopts == pending /\ request = pendingBank

\* The framebuffer sees the request, and by its bank whether scan-out has
\* turned to the publication.  A newer line replaces the queued one.
TakePrefetch ==
  /\ request # None /\ request' = None /\ queued' = request
  /\ IF Adopts
       THEN /\ pending' = FALSE
            /\ reader' = IF reader = "waiting" THEN "adopted" ELSE reader
       ELSE UNCHANGED <<pending, reader>>
  /\ UNCHANGED <<bank, header, control, replay, hps, candidate, current,
                 pendingBank, reading, offered, activeBank, valid, cleared>>

StartRead ==
  /\ queued # None /\ reading = None
  /\ reading' = queued /\ queued' = None
  /\ UNCHANGED <<bank, header, control, replay, hps, rdr, pending, pendingBank, scanout>>

EndRead ==
  /\ reading # None /\ reading' = None
  /\ UNCHANGED <<bank, header, control, replay, hps, rdr, pending, pendingBank,
                 queued, scanout>>

-----------------------------------------------------------------------------
(* The session                                                             *)

\* The console's reset empties the framebuffer and scan-out.  A burst that
\* the DDR owes is still received.
ResetVideo ==
  /\ pending' = FALSE /\ pendingBank' = 0 /\ queued' = None
  /\ offered' = FALSE /\ valid' = FALSE /\ request' = None
  /\ UNCHANGED <<reading, activeBank>>

\* A cartridge load resets the console before the release is withdrawn.
ConsoleReset ==
  /\ phase = "running" /\ phase' = "resetting" /\ ResetVideo
  /\ UNCHANGED <<bank, header, session, quiesce, answered, accepted, deaths,
                 replay, hps, rdr, cleared>>

\* Without the release everything of the console and the reader is in reset.
WithdrawRelease ==
  /\ phase # "ending" /\ phase' = "ending" /\ ResetVideo
  /\ reader' = "idle" /\ candidate' = NoDescriptor /\ current' = 0
  /\ UNCHANGED <<bank, header, session, quiesce, answered, accepted, deaths,
                 replay, hps, cleared>>

AskQuiesce ==
  /\ phase = "ending" /\ ~quiesce /\ quiesce' = TRUE
  /\ UNCHANGED <<bank, header, session, phase, answered, accepted, deaths,
                 replay, hps, fpga>>

VideoQuiescent == cleared /\ reading = None /\ queued = None

NewSession ==
  /\ answered /\ VideoQuiescent /\ session < MaxSessions
  /\ session' = session + 1 /\ phase' = "starting"
  /\ quiesce' = FALSE /\ answered' = FALSE /\ accepted' = FALSE
  /\ published' = 0 /\ acknowledged' = 0 /\ descriptor' = NoDescriptor
  /\ opened' = drawn
  /\ UNCHANGED <<bank, deaths, drawn, buffer, filling, queue, notify, hps, fpga>>

\* A fresh session gets a service of its own, with the replay and publication
\* workers.
StartService ==
  /\ phase = "starting" /\ ~accepted /\ service = "off"
  /\ service' = "on" /\ accepted' = TRUE
  /\ faulted' = FALSE /\ stop' = FALSE
  /\ buffer' = [i \in Buffers |-> 0]
  /\ filling' = None /\ queue' = <<>> /\ notify' = FALSE
  /\ worker' = "wait" /\ active' = None /\ nextBank' = 1
  /\ UNCHANGED <<bank, header, session, phase, quiesce, answered, deaths,
                 drawn, opened, fpga>>

ReleaseConsole ==
  /\ phase = "starting" /\ accepted /\ phase' = "running" /\ cleared' = FALSE
  /\ UNCHANGED <<bank, header, session, quiesce, answered, accepted, deaths,
                 replay, hps, rdr, fb, offered, activeBank, valid, request>>

\* stop_replay_worker and stop_publication_worker.
StopService ==
  /\ service = "on" /\ (faulted \/ quiesce) /\ service' = "stopping"
  /\ stop' = TRUE /\ queue' = <<>> /\ worker' = Woken
  /\ filling' = None /\ notify' = FALSE
  /\ UNCHANGED <<bank, header, control, drawn, opened, buffer, faulted, active,
                 nextBank, fpga>>

Joined == worker \in {"stopped", "failed"}

ServiceGone ==
  /\ service = "stopping" /\ Joined /\ service' = "off"
  /\ UNCHANGED <<bank, header, control, replay, faulted, stop, worker, active,
                 nextBank, fpga>>

\* The main loop, or that of a new process.
AnswerQuiesce ==
  /\ service = "off" /\ quiesce /\ ~answered /\ answered' = TRUE
  /\ UNCHANGED <<bank, header, session, phase, quiesce, accepted, deaths,
                 replay, hps, fpga>>

\* What the process had written stays.
Die ==
  /\ service # "off" /\ deaths < MaxDeaths /\ deaths' = deaths + 1
  /\ service' = "off" /\ worker' = "stopped" /\ active' = None
  /\ filling' = None /\ queue' = <<>> /\ notify' = FALSE
  /\ UNCHANGED <<bank, header, session, phase, quiesce, answered, accepted,
                 drawn, opened, buffer, faulted, stop, nextBank, fpga>>

-----------------------------------------------------------------------------
Next ==
  \/ BeginDraw \/ FinishDraw \/ Notify
  \/ WorkerWaits \/ AwaitAck \/ ClaimBuffer \/ CheckFence \/ CopyScreen
  \/ Recheck \/ Commit \/ LetGo \/ WorkerStops
  \/ PollSequence \/ ReadBody \/ ReadAgain \/ Activate \/ Acknowledge
  \/ FrameEnd \/ Prefetch \/ TakePrefetch \/ StartRead \/ EndRead
  \/ ConsoleReset \/ WithdrawRelease \/ AskQuiesce \/ NewSession
  \/ StartService \/ ReleaseConsole \/ StopService \/ ServiceGone
  \/ AnswerQuiesce \/ Die

Spec == Init /\ [][Next]_vars

\* The two threads run, and a frame once begun ends, as the console's lines
\* never stop; the reader polls, the raster goes on and every burst ends.
FairSpec ==
  /\ Spec
  /\ WF_vars(FinishDraw) /\ WF_vars(Notify) /\ WF_vars(Worker)
  /\ WF_vars(PollSequence) /\ WF_vars(ReadBody) /\ WF_vars(ReadAgain)
  /\ WF_vars(Activate) /\ WF_vars(Acknowledge)
  /\ WF_vars(FrameEnd) /\ WF_vars(Prefetch) /\ WF_vars(TakePrefetch)
  /\ WF_vars(EndRead)

-----------------------------------------------------------------------------
(* Properties                                                              *)

\* Every variable holds a value of its kind.
TypeOK ==
  /\ bank \in [Banks -> [top : Picture, bottom : Picture]]
  /\ published \in 0 .. 2 * MaxPictures /\ acknowledged \in 0 .. 2 * MaxPictures
  /\ descriptor \in [sequence : 0 .. 2 * MaxPictures, session : 0 .. MaxSessions,
                     bank : Banks]
  /\ session \in 1 .. MaxSessions /\ deaths \in 0 .. MaxDeaths
  /\ phase \in {"starting", "running", "resetting", "ending"}
  /\ {quiesce, answered, accepted} \subseteq BOOLEAN
  /\ service \in {"off", "on", "stopping"} /\ {faulted, stop} \subseteq BOOLEAN
  /\ drawn \in Picture /\ opened \in Picture /\ buffer \in [Buffers -> Picture]
  /\ filling \in Buffers \cup {None} /\ active \in Buffers \cup {None}
  /\ queue \in {<<>>} \cup {<<i>> : i \in Buffers} /\ notify \in BOOLEAN
  /\ worker \in {"asleep", "wait", "fence", "claim", "check", "top", "bottom",
                 "recheck", "odd", "name", "place", "even", "done", "stopped",
                 "failed"}
  /\ nextBank \in Banks
  /\ reader \in {"idle", "name", "place", "again", "staged", "waiting", "adopted"}
  /\ candidate \in [sequence : 0 .. 2 * MaxPictures, session : 0 .. MaxSessions,
                    bank : Banks]
  /\ current \in 0 .. 2 * MaxPictures
  /\ {pending, offered, valid, cleared} \subseteq BOOLEAN
  /\ pendingBank \in Banks /\ activeBank \in Banks
  /\ {request, queued, reading} \subseteq Banks \cup {None}

\* The banks that scan-out shows lines of, or has asked or the DDR owes lines
\* of.
Scanned ==
  (IF valid THEN {activeBank} ELSE {})
    \cup ({request, queued, reading} \ {None})

Whole(b) == bank[b].top # 0 /\ bank[b].top = bank[b].bottom

\* A bank that scan-out shows or reads, a burst left over from an earlier
\* session included, holds one complete picture, and the HPS is not writing to
\* it: acknowledgement only after adoption, the turn of the banks, and the
\* quiescence that a new session waits for.
ScannedBankWhole ==
  \A b \in Scanned :
    Whole(b) /\ ~(worker \in {"top", "bottom"} /\ nextBank = b)

\* The publication worker and the reservation of a buffer fail only once the
\* session is asked to end: in a session that lives, the fence between HPS and
\* FPGA always holds, the queue that the worker found filled is still filled
\* when it has waited for the fence, and a buffer is always free to be drawn to.
FaultsOnlyAtEnd == faulted /\ service = "on" => quiesce

\* The picture on the screens; a torn one is none of those that were drawn.
Shown ==
  IF ~valid THEN 0
  ELSE IF Whole(activeBank) THEN bank[activeBank].top
  ELSE MaxPictures + 1

Show == INSTANCE PictureShow
          WITH open <- phase \in {"starting", "running"}, shown <- Shown

\* The screens show complete pictures of the current session only, and never
\* go back to an earlier one (PictureShow).
ImplementsPictureShow == Show!Spec

\* While the session and its service live, the screens catch up with what was
\* drawn as soon as drawing pauses: no wake-up, adoption or acknowledgement is
\* lost, wherever it crosses another step.
Behind == drawn > opened /\ Shown < drawn /\ ConsoleUp /\ service = "on"
PictureReachesScreen == Behind ~> ~Behind
=============================================================================
