--------------------------- MODULE SessionControl ---------------------------
(***************************************************************************)
(* The session handshake of the hybrid core.                               *)
(*                                                                         *)
(* nds_h3d_control_init, in the FPGA, makes a new session of the shared    *)
(* control header: it publishes a fresh token and the quiesce magic, waits *)
(* for the exact acknowledgement of the HPS, clears and rewrites the       *)
(* header, publishes the active magic last, and then polls the header for  *)
(* as long as the session lives.  Only while the polls say so is the       *)
(* console released.  The main loop of Hybrid3DService, on the HPS, runs   *)
(* at most one renderer service, acknowledges the quiesce request once the *)
(* service is gone, and starts a new one on a fresh header.                *)
(*                                                                         *)
(* A step of the HPS makes one access to the header.  A command of the     *)
(* FPGA is issued, then taken by the DDR fabric, and a read is answered    *)
(* later still.  The DDR and what the fabric has queued outlive a reset of *)
(* the FPGA and the death of the HPS process.  Words of the header that    *)
(* only one side writes and that no step tests are left out.               *)
(***************************************************************************)
EXTENDS Naturals, Sequences

CONSTANTS
  MaxToken,      \* the largest token, 2^32 - 1 in the code
  MaxTriggers,   \* bound: cartridge loads and user resets
  MaxMishaps     \* bound: kills, resets, external faults and service failures

ASSUME SessionAssumption ==
  /\ MaxTriggers \in Nat /\ MaxMishaps \in Nat
  /\ MaxToken \in Nat /\ MaxToken > 2 * (MaxTriggers + MaxMishaps)

Tokens == 1 .. MaxToken
Flags  == BOOLEAN                  \* Engine B pixels off or on
NoPolicy == [session |-> 0, flag |-> FALSE]
Policy(s, f) == [session |-> s, flag |-> f]

\* The words of the header in the order they are cleared and polled.
ClearWords == <<"session", "faults", "service", "beat">>
PollWords  == <<"service", "faults", "header", "beatOut", "beatIn", "quiesce">>

VARIABLES
  ddr,              \* the shared control page
  queue,            \* the FPGA's command in the fabric
  \* nds_h3d_control_init
  state, word,      \* the state machine and its word index
  phase,            \* its command is to be presented, issued or being answered
  session,          \* active_session
  fault,            \* fault_bits # 0
  serviceReady, startupComplete, policyAcked,
  restartPending, serviceRestart,
  policy,           \* policy_engine_b
  option,           \* engine_b_applied of nds_h3d_session_policy_latch
  video,            \* scan-out reads of the shared banks are under way
  \* Hybrid3DService
  pc, after,        \* the next access, and what a session check is for
  good,             \* the first half of that check succeeded
  magic, token,     \* what was read of the header: phase, or policy epoch
  service,          \* the main loop holds a service
  mine,             \* session_ of the service or the candidate
  flag,             \* policy_ of the service or the candidate
  purpose,          \* why the header is inspected
  \* bounds and history
  triggers, mishaps,
  everReleased,     \* the console was released in this session
  instances         \* how many services became Ready in each session

fpgaVars == <<state, word, phase, session, fault, serviceReady,
              startupComplete, policyAcked, restartPending, serviceRestart,
              policy>>
faultVars == <<fault, serviceReady, startupComplete>>
hpsVars  == <<pc, after, good, magic, token, service, mine, flag, purpose>>
vars == <<ddr, queue, fpgaVars, option, video, hpsVars, triggers, mishaps,
          everReleased, instances>>

NoCommand == [cmd |-> "none", word |-> 0, session |-> 0, flag |-> FALSE,
              answered |-> FALSE, data |-> <<>>]

Init ==
  /\ \E old \in {0, MaxToken} :      \* the token of an earlier power-on
       ddr = [magic |-> "none", session |-> 0, fpgaFault |-> FALSE,
              hpsFault |-> FALSE, service |-> "Offline", accepted |-> 0,
              beat |-> FALSE, request |-> old, ack |-> old,
              policy |-> NoPolicy, policyAck |-> NoPolicy]
  /\ queue = NoCommand
  /\ state = "wait" /\ word = 1 /\ phase = "ready" /\ session = 0
  /\ fault = FALSE /\ serviceReady = FALSE /\ startupComplete = FALSE
  /\ policyAcked = FALSE /\ restartPending = FALSE /\ serviceRestart = FALSE
  /\ policy = FALSE /\ option = FALSE /\ video = FALSE
  /\ pc = "down" /\ after = "none" /\ good = FALSE /\ magic = "none"
  /\ token = 0 /\ service = FALSE /\ mine = 0 /\ flag = FALSE
  /\ purpose = "loop"
  /\ triggers = 0 /\ mishaps = 0
  /\ everReleased = FALSE /\ instances = [s \in Tokens |-> 0]

-----------------------------------------------------------------------------
(* The FPGA's control initializer                                          *)

Initialized == state \in {"poll", "policyAck", "writeFault", "faultHold"}

\* console_release
Released ==
  /\ Initialized /\ ~fault
  /\ startupComplete /\ serviceReady /\ policyAcked
  /\ session # 0
  /\ ~restartPending /\ ~serviceRestart

Reads  == {"readCounter", "readAck", "poll", "policyAck"}
Reinit == {"clear", "config", "clearPolicyAck", "clearPolicyCommit",
           "writePolicy", "writeMagic"}

\* One of the header's words is cleared.
Cleared(w) ==
  CASE w = "session" -> [ddr EXCEPT !.session = 0]
    [] w = "faults"  -> [ddr EXCEPT !.fpgaFault = FALSE, !.hpsFault = FALSE]
    [] w = "service" -> [ddr EXCEPT !.service = "Offline", !.accepted = 0]
    [] w = "beat"    -> [ddr EXCEPT !.beat = FALSE]

\* What the command of each state does to the header.
Effect(q) ==
  CASE q.cmd = "writeRequest" -> [ddr EXCEPT !.request = q.session]
    [] q.cmd = "writeQuiesce" -> [ddr EXCEPT !.magic = "H3DQ"]
    [] q.cmd = "clear" -> Cleared(ClearWords[q.word])
    [] q.cmd = "config" -> [ddr EXCEPT !.session = q.session]
    [] q.cmd = "clearPolicyAck" -> [ddr EXCEPT !.policyAck = NoPolicy]
    [] q.cmd = "clearPolicyCommit" -> [ddr EXCEPT !.policy = NoPolicy]
    [] q.cmd = "writePolicy" ->
         [ddr EXCEPT !.policy = Policy(q.session, q.flag)]
    [] q.cmd = "writeMagic" -> [ddr EXCEPT !.magic = "H3D1"]
    [] q.cmd = "writeFault" -> [ddr EXCEPT !.fpgaFault = TRUE]
    [] q.cmd = "poll" /\ PollWords[q.word] = "beatIn" ->
         [ddr EXCEPT !.beat = FALSE]       \* a heartbeat counts once
    [] OTHER -> ddr

\* What a read brings back.
Data(q) ==
  CASE q.cmd = "readCounter" -> <<ddr.request>>
    [] q.cmd = "readAck"     -> <<ddr.ack>>
    [] q.cmd = "policyAck"   -> <<ddr.policyAck>>
    [] q.cmd = "poll" ->
         CASE PollWords[q.word] = "service" -> <<ddr.service, ddr.accepted>>
           [] PollWords[q.word] = "faults"  -> <<ddr.fpgaFault, ddr.hpsFault>>
           [] PollWords[q.word] = "header"  -> <<ddr.magic, ddr.session>>
           [] PollWords[q.word] = "quiesce" -> <<ddr.request, ddr.ack>>
           [] OTHER -> <<>>

IsRead(q) ==
  \/ q.cmd \in Reads \ {"poll"}
  \/ q.cmd = "poll" /\ PollWords[q.word] # "beatOut"

Restarting == restartPending \/ serviceRestart

\* A state presents its command when the fabric is free.
Issue ==
  /\ state \notin {"wait", "faultHold"}
  /\ queue = NoCommand /\ phase = "ready"
  /\ state \in {"poll", "policyAck"} => ~Restarting
  /\ phase' = "issued"
  /\ queue' = [cmd |-> state, word |-> word, session |-> session,
               flag |-> policy, answered |-> FALSE, data |-> <<>>]
  /\ UNCHANGED <<ddr, state, word, policyAcked, faultVars, restartPending,
                 serviceRestart, session, policy>>

\* The state after a write, by the state that waited for its acceptance.
NextState ==
  [writeRequest |-> "writeQuiesce", writeQuiesce |-> "readAck",
   config |-> "clearPolicyAck", clearPolicyAck |-> "clearPolicyCommit",
   clearPolicyCommit |-> "writePolicy", writePolicy |-> "writeMagic",
   writeMagic |-> "poll", writeFault |-> "faultHold"]

Advance ==
  CASE state = "clear" /\ word < Len(ClearWords) ->
         word' = word + 1 /\ UNCHANGED state
    [] state = "clear" /\ word = Len(ClearWords) ->
         state' = "config" /\ UNCHANGED word
    [] state = "poll" -> word' = word + 1 /\ UNCHANGED state
    [] OTHER -> state' = NextState[state] /\ word' = 1

\* The fabric takes the command.  One from before a reset moves no state.
Accept ==
  /\ queue # NoCommand /\ ~queue.answered
  /\ ddr' = Effect(queue)
  /\ queue' = IF IsRead(queue)
              THEN [queue EXCEPT !.answered = TRUE, !.data = Data(queue)]
              ELSE NoCommand
  /\ IF phase # "issued" THEN UNCHANGED <<phase, state, word>>
     ELSE IF IsRead(queue)
     THEN /\ phase' = IF state = queue.cmd THEN "waiting" ELSE "ready"
          /\ UNCHANGED <<state, word>>
     ELSE phase' = "ready" /\ Advance
  /\ UNCHANGED <<session, policyAcked, faultVars, restartPending, serviceRestart,
                 policy>>

\* Seeded fault: the token wraps to zero.
WrapsToZero(c) == IF c = MaxToken THEN 0 ELSE c + 1

\* The token of the next session; zero is no token.
NextToken(c) == IF c = MaxToken THEN 1 ELSE c + 1

CounterAnswer ==
  /\ queue.cmd = "readCounter"
  /\ session' = NextToken(queue.data[1])
  /\ state' = "writeRequest"
  /\ UNCHANGED <<word, policyAcked, faultVars, serviceRestart>>

\* Seeded fault: the banks are reused under a scan-out read.
AckAlone == queue.data[1] = session

\* The permission to overwrite what the HPS owns.
Quiesced == queue.data[1] = session /\ ~video

AckAnswer ==
  /\ queue.cmd = "readAck"
  /\ state' = IF Quiesced THEN "clear" ELSE "readAck"
  /\ word' = 1
  /\ UNCHANGED <<session, policyAcked, faultVars, serviceRestart>>

TakeFault ==
  /\ fault' = TRUE /\ state' = "writeFault"
  /\ serviceReady' = FALSE /\ startupComplete' = FALSE

PolicyMatches == queue.data[1] = Policy(session, policy)

\* An acknowledgement is waited for once; losing it later is a fault.
PolicyAnswer ==
  /\ queue.cmd = "policyAck"
  /\ policyAcked' = PolicyMatches
  /\ word' = 1
  /\ IF policyAcked /\ ~PolicyMatches
     THEN TakeFault
     ELSE state' = "poll" /\ UNCHANGED faultVars
  /\ UNCHANGED <<session, serviceRestart>>

\* Seeded fault: a restart request is ignored by the poll.
NeverAsked == FALSE

\* The HPS asks for a fresh session.
AsksRestart ==
  /\ PollWords[word] = "service"
  /\ queue.data[1] = "RestartRequested" /\ queue.data[2] \in {0, session}

PollFaults ==
  CASE PollWords[word] = "service" ->
         LET s == queue.data[1]
             a == queue.data[2]
         IN \/ s = "Fault" \/ a \notin {0, session}
            \/ s = "Ready" /\ a # session
    [] PollWords[word] = "faults"  -> queue.data # <<FALSE, FALSE>>
    [] PollWords[word] = "header"  -> queue.data # <<"H3D1", session>>
    [] PollWords[word] = "quiesce" -> queue.data # <<session, session>>
    [] OTHER -> FALSE

\* Seeded fault: Ready is taken without the session it was given for.
ReadyAlone == queue.data[1] \in {"Initializing", "Ready"}

ServesSession == queue.data = <<"Ready", session>>

PollAnswer ==
  /\ queue.cmd = "poll"
  /\ IF PollFaults THEN TakeFault /\ UNCHANGED <<word, serviceRestart>>
     ELSE IF AsksRestart
     THEN /\ serviceRestart' = TRUE
          /\ serviceReady' = FALSE /\ startupComplete' = FALSE
          /\ UNCHANGED <<state, word, fault>>
     ELSE /\ serviceReady' = IF PollWords[word] = "service"
                             THEN ServesSession ELSE serviceReady
          /\ IF word = Len(PollWords)
             THEN /\ word' = 1 /\ state' = "policyAck"
                  /\ startupComplete' = (startupComplete \/ serviceReady)
             ELSE word' = word + 1 /\ UNCHANGED <<state, startupComplete>>
          /\ UNCHANGED <<fault, serviceRestart>>
  /\ UNCHANGED <<session, policyAcked>>

\* The answer of a read arrives; nobody waits for one from before a fault or a
\* reset.
Answer ==
  /\ queue.answered
  /\ queue' = NoCommand
  /\ IF phase = "waiting"
     THEN /\ phase' = "ready"
          /\ CounterAnswer \/ AckAnswer \/ PolicyAnswer \/ PollAnswer
     ELSE UNCHANGED <<phase, state, word, session, policyAcked, faultVars,
                      serviceRestart>>
  /\ UNCHANGED <<ddr, restartPending, policy>>

\* Seeded fault: the choice of the last session is kept.
KeepsPolicy == policy' = policy

\* The choice is fixed for the session; the menu may change meanwhile.
LatchPolicy == policy' = option

\* A requested session begins once nothing of the last one is in flight.
Start ==
  /\ Restarting /\ phase = "ready"
  /\ state \in {"wait", "poll", "policyAck", "faultHold"}
  /\ state' = "readCounter" /\ word' = 1
  /\ fault' = FALSE /\ serviceReady' = FALSE /\ startupComplete' = FALSE
  /\ policyAcked' = FALSE
  /\ restartPending' = FALSE /\ serviceRestart' = FALSE
  /\ LatchPolicy
  /\ UNCHANGED <<ddr, queue, phase, session>>

\* Seeded fault: nobody counts the heartbeats.
NeverStale == FALSE

\* No new heartbeat for a second while the console is released.
HeartbeatStale == Released /\ ~ddr.beat

HeartbeatTimeout ==
  /\ HeartbeatStale
  /\ TakeFault
  /\ phase' = IF phase = "waiting" THEN "ready" ELSE phase
  /\ UNCHANGED <<ddr, queue, word, session, policyAcked, restartPending,
                 serviceRestart, policy>>

\* A sticky fault of the packet path, the readback or the fabric.
ExternalFault ==
  /\ state \notin {"writeFault", "faultHold"}
  /\ TakeFault
  /\ phase' = IF phase = "waiting" THEN "ready" ELSE phase
  /\ UNCHANGED <<ddr, queue, word, session, policyAcked, restartPending,
                 serviceRestart, policy>>

Fpga == Issue \/ Accept \/ Answer \/ Start

-----------------------------------------------------------------------------
(* The HPS service                                                         *)

\* Go on at label p and keep the rest of what the loop knows.
Goto(p) ==
  pc' = p /\ UNCHANGED <<after, good, magic, token, service, mine, flag, purpose>>

\* Check that the header still belongs to mine, for the reason a.
Check(a) ==
  /\ pc' = "check" /\ after' = a
  /\ UNCHANGED <<good, magic, token, service, mine, flag, purpose>>

\* Look at the header afresh: in the main loop, or to ask for a new session.
Inspect(p) ==
  /\ pc' = "magic" /\ after' = "none" /\ good' = FALSE /\ magic' = "none"
  /\ token' = 0 /\ service' = FALSE /\ mine' = 0 /\ flag' = FALSE
  /\ purpose' = p

\* inspect_shared_phase
ReadMagic ==
  /\ pc = "magic"
  /\ magic' = ddr.magic
  /\ pc' = "request"
  /\ UNCHANGED <<ddr, after, good, token, service, mine, flag, purpose>>

ReadRequest ==
  /\ pc = "request"
  /\ token' = ddr.request
  /\ pc' = CASE ddr.request = 0 -> "magic"
             [] ddr.request # 0 /\ magic = "H3DQ" ->
                  IF purpose = "loop" THEN "ackMagic" ELSE "magic"
             [] OTHER -> "owner"
  /\ purpose' = IF ddr.request = 0 \/ magic = "H3DQ" THEN "loop" ELSE purpose
  /\ UNCHANGED <<ddr, after, good, magic, service, mine, flag>>

ReadOwner ==
  /\ pc = "owner"
  /\ IF magic = "H3D1" /\ ddr.ack = token /\ ddr.session # 0
     THEN Goto("state") ELSE Inspect("loop")
  /\ UNCHANGED ddr

ReadState ==
  /\ pc = "state"
  /\ good' = (ddr.service = "Offline")
  /\ pc' = "accepted"
  /\ UNCHANGED <<ddr, after, magic, token, service, mine, flag, purpose>>

\* Seeded fault: a header that another service served is served again.
ResumesSession == ddr.service # "Fault"

\* Only a header no service has touched is served.
FreshSession == good /\ ddr.accepted = 0

ReadAccepted ==
  /\ pc = "accepted"
  /\ CASE FreshSession /\ purpose = "loop"     -> Goto("initSession")
       [] FreshSession /\ purpose = "restart"  -> Inspect("loop")
       [] ~FreshSession /\ purpose = "loop"    -> Inspect("restart")
       [] ~FreshSession /\ purpose = "restart" -> Goto("askState")
  /\ UNCHANGED ddr

\* acknowledge_quiesce
AckMagic ==
  /\ pc = "ackMagic"
  /\ IF ddr.magic = "H3DQ" THEN Goto("ackRequest") ELSE Inspect("loop")
  /\ UNCHANGED ddr

AlreadyAcked == ddr.ack = ddr.request

AckRequest ==
  /\ pc = "ackRequest"
  /\ IF ddr.request = 0 \/ AlreadyAcked THEN Inspect("loop")
     ELSE /\ token' = ddr.request /\ pc' = "ackStore"
          /\ UNCHANGED <<after, good, magic, service, mine, flag, purpose>>
  /\ UNCHANGED ddr

AckStore ==
  /\ pc = "ackStore"
  /\ ddr' = [ddr EXCEPT !.ack = token]
  /\ Inspect("loop")

\* request_fresh_session
AskState ==
  /\ pc = "askState"
  /\ IF ddr.service = "RestartRequested" THEN Inspect("loop") ELSE Goto("askStore")
  /\ UNCHANGED ddr

AskStore ==
  /\ pc = "askStore"
  /\ ddr' = [ddr EXCEPT !.service = "RestartRequested"]
  /\ Inspect("loop")

\* active_session_current: the header is read between two reads of its magic.
Accepted == after \in {"poll", "beat", "fail"} => ddr.accepted = mine

CheckBegin ==
  /\ pc = "check"
  /\ good' = (ddr.magic = "H3D1" /\ mine # 0 /\ ddr.session = mine /\ Accepted)
  /\ pc' = "checkEnd"
  /\ UNCHANGED <<ddr, after, magic, token, service, mine, flag, purpose>>

Current ==
  /\ good /\ ddr.magic = "H3D1"
  /\ ddr.request # 0 /\ ddr.ack = ddr.request

WhenCurrent ==
  [session |-> "readEpoch", policy |-> "checkPolicy",
   commit |-> "checkPolicy", poll |-> "polled", beat |-> "storeBeat",
   fail |-> "storeFault"]

\* A fault that finds the header gone is not reported.
CheckEnd ==
  /\ pc = "checkEnd"
  /\ CASE Current /\ after = "consumer" -> Check("policy")
       [] Current /\ after # "consumer" -> Goto(WhenCurrent[after])
       [] ~Current /\ after = "beat" -> Check("poll")
       [] ~Current /\ after = "fail" ->
            Inspect(IF service THEN "loop" ELSE "restart")
       [] OTHER -> Check("fail")
  /\ UNCHANGED ddr

\* initialize
InitSession ==
  /\ pc = "initSession"
  /\ mine' = ddr.session
  /\ pc' = "check" /\ after' = "session"
  /\ UNCHANGED <<ddr, good, magic, token, service, flag, purpose>>

\* The policy epoch.
ReadEpoch ==
  /\ pc = "readEpoch"
  /\ token' = ddr.request
  /\ pc' = "readPolicy"
  /\ UNCHANGED <<ddr, after, good, magic, service, mine, flag, purpose>>

\* Seeded fault: the policy is not tied to the quiesce request.
AnyEpoch == ddr.policy.session = mine

PolicyOfEpoch == ddr.policy.session = mine /\ mine = token

ReadPolicy ==
  /\ pc = "readPolicy"
  /\ IF PolicyOfEpoch
     THEN /\ flag' = ddr.policy.flag /\ pc' = "storeInit"
          /\ UNCHANGED <<after, good, magic, token, service, mine, purpose>>
     ELSE Check("fail")
  /\ UNCHANGED ddr

StoreInitializing ==
  /\ pc = "storeInit"
  /\ ddr' = [ddr EXCEPT !.service = "Initializing"]
  /\ Goto("initConsumer")

InitConsumer ==
  /\ pc = "initConsumer"
  /\ Check("consumer")
  /\ UNCHANGED ddr

\* Before each half of its acknowledgement: is it the policy that was read?
PolicyStands == ddr.request = token /\ ddr.policy = Policy(mine, flag)

CheckPolicy ==
  /\ pc = "checkPolicy"
  /\ IF PolicyStands
     THEN Goto(IF after = "policy" THEN "clearAck" ELSE "commitAck")
     ELSE Check("fail")
  /\ UNCHANGED ddr

ClearPolicyAck ==
  /\ pc = "clearAck"
  /\ ddr' = [ddr EXCEPT !.policyAck = NoPolicy]
  /\ Check("commit")

CommitPolicyAck ==
  /\ pc = "commitAck"
  /\ ddr' = [ddr EXCEPT !.policyAck = Policy(mine, flag)]
  /\ Goto("storeAccepted")

StoreAccepted ==
  /\ pc = "storeAccepted"
  /\ ddr' = [ddr EXCEPT !.accepted = mine]
  /\ Goto("storeReady")

StoreReady ==
  /\ pc = "storeReady"
  /\ ddr' = [ddr EXCEPT !.service = "Ready"]
  /\ service' = TRUE
  /\ pc' = "check" /\ after' = "beat"
  /\ UNCHANGED <<good, magic, token, mine, flag, purpose>>

\* poll: packets are left to other modules; the heartbeat is not due each time.
Polled ==
  /\ pc = "polled"
  /\ Check("beat") \/ Check("poll")
  /\ UNCHANGED ddr

StoreBeat ==
  /\ pc = "storeBeat"
  /\ ddr' = [ddr EXCEPT !.beat = TRUE]
  /\ Check("poll")

\* fail: both words, and the service is given up.
StoreFault ==
  /\ pc = "storeFault"
  /\ ddr' = [ddr EXCEPT !.hpsFault = TRUE]
  /\ Goto("storeFaultState")

StoreFaultState ==
  /\ pc = "storeFaultState"
  /\ ddr' = [ddr EXCEPT !.service = "Fault"]
  /\ Inspect("loop")

Hps ==
  \/ ReadMagic \/ ReadRequest \/ ReadOwner \/ ReadState \/ ReadAccepted
  \/ AckMagic \/ AckRequest \/ AckStore \/ AskState \/ AskStore
  \/ CheckBegin \/ CheckEnd
  \/ InitSession \/ ReadEpoch \/ ReadPolicy \/ StoreInitializing \/ InitConsumer
  \/ CheckPolicy \/ ClearPolicyAck \/ CommitPolicyAck \/ StoreAccepted \/ StoreReady
  \/ Polled \/ StoreBeat \/ StoreFault \/ StoreFaultState

\* The service, or a candidate for it, meets a fault of its own.
ServiceFails ==
  /\ pc \in {"polled", "initConsumer"}
  /\ Check("fail")

HpsStarts ==
  /\ pc = "down"
  /\ Inspect("loop")

HpsDies ==
  /\ pc # "down"
  /\ pc' = "down" /\ after' = "none" /\ good' = FALSE /\ magic' = "none"
  /\ token' = 0 /\ service' = FALSE /\ mine' = 0 /\ flag' = FALSE
  /\ purpose' = "loop"

-----------------------------------------------------------------------------
(* The surroundings                                                        *)

\* A cartridge is loaded or the user resets: the menu's choice is latched.
Trigger ==
  /\ triggers < MaxTriggers
  /\ triggers' = triggers + 1
  /\ option' \in Flags
  /\ restartPending' = TRUE
  /\ UNCHANGED <<ddr, queue, state, word, phase, session, faultVars,
                 policyAcked, serviceRestart, policy, video, hpsVars, mishaps>>

\* A reset of the shell, or a reload of the core.  The fabric keeps its queue.
BridgeReset ==
  /\ state' = "wait" /\ word' = 1 /\ phase' = "ready" /\ session' = 0
  /\ fault' = FALSE /\ serviceReady' = FALSE /\ startupComplete' = FALSE
  /\ policyAcked' = FALSE /\ restartPending' = FALSE
  /\ serviceRestart' = FALSE /\ policy' = FALSE /\ option' = FALSE

\* Scan-out reads the shared banks while the console runs, and drains after.
Scanout ==
  /\ video' = Released
  /\ video' # video
  /\ UNCHANGED <<ddr, queue, fpgaVars, option, hpsVars, triggers, mishaps>>

Mishap ==
  /\ mishaps < MaxMishaps
  /\ mishaps' = mishaps + 1
  /\ \/ ExternalFault /\ UNCHANGED <<option, hpsVars>>
     \/ BridgeReset /\ UNCHANGED <<ddr, queue, hpsVars>>
     \/ (ServiceFails \/ HpsDies) /\ UNCHANGED <<ddr, queue, fpgaVars, option>>
  /\ UNCHANGED <<video, triggers>>

FpgaStep == Fpga /\ UNCHANGED <<option, video, hpsVars, triggers, mishaps>>
TimeoutStep ==
  HeartbeatTimeout /\ UNCHANGED <<option, video, hpsVars, triggers, mishaps>>
HpsStep ==
  Hps /\ UNCHANGED <<queue, fpgaVars, option, video, triggers, mishaps>>
StartStep ==
  /\ HpsStarts
  /\ UNCHANGED <<ddr, queue, fpgaVars, option, video, triggers, mishaps>>

\* What the properties remember of a session.
History ==
  /\ everReleased' = IF state' \in {"wait", "readCounter"} THEN FALSE
                     ELSE everReleased \/ Released'
  /\ instances' = IF pc = "storeReady" /\ pc' = "check"
                  THEN [instances EXCEPT ![mine] = @ + 1] ELSE instances

Next ==
  /\ \/ FpgaStep \/ TimeoutStep \/ HpsStep \/ StartStep
     \/ Trigger \/ Mishap \/ Scanout
  /\ History

\* The fabric serves the FPGA, the HPS process is scheduled while it lives, and
\* scan-out drains.  Nobody need start the process again.
Fairness ==
  /\ WF_vars(FpgaStep /\ History)
  /\ WF_vars(TimeoutStep /\ History)
  /\ WF_vars(HpsStep /\ History)
  /\ WF_vars(Scanout /\ History)

Spec == Init /\ [][Next]_vars
FairSpec == Spec /\ Fairness

-----------------------------------------------------------------------------
(* Properties                                                              *)

States == {"wait", "writeRequest", "writeQuiesce", "writeFault", "faultHold"}
            \cup Reads \cup Reinit
ServiceStates ==
  {"Offline", "Initializing", "Ready", "Fault", "RestartRequested"}
Magics == {"none", "H3DQ", "H3D1"}
Stores ==
  {"ackStore", "askStore", "storeInit", "clearAck", "commitAck",
   "storeAccepted", "storeReady", "storeBeat", "storeFault", "storeFaultState"}
Labels == Stores \cup
  {"down", "magic", "request", "owner", "state", "accepted", "ackMagic",
   "ackRequest", "askState", "check", "checkEnd", "initSession", "readPolicy",
   "initConsumer", "polled", "readEpoch", "checkPolicy"}
Reasons == {"none", "session", "consumer", "policy", "commit", "poll", "beat",
            "fail"}
Policies == [session : 0 .. MaxToken, flag : Flags]

\* The registers, the header and the loop's variables stay in their ranges; in
\* particular no session has the number zero.
TypeOK ==
  /\ ddr \in [magic : Magics, session : 0 .. MaxToken, fpgaFault : BOOLEAN,
              hpsFault : BOOLEAN, service : ServiceStates,
              accepted : 0 .. MaxToken, beat : BOOLEAN,
              request : 0 .. MaxToken, ack : 0 .. MaxToken,
              policy : Policies, policyAck : Policies]
  /\ state \in States /\ word \in 1 .. Len(PollWords)
  /\ phase \in {"ready", "issued", "waiting"}
  /\ session \in 0 .. MaxToken /\ policy \in Flags /\ option \in Flags
  /\ state \notin {"wait", "readCounter", "writeFault", "faultHold"} =>
       session \in Tokens
  /\ pc \in Labels /\ after \in Reasons /\ purpose \in {"loop", "restart"}
  /\ magic \in Magics /\ token \in 0 .. MaxToken /\ mine \in 0 .. MaxToken
  /\ instances \in [Tokens -> Nat]

\* Between the acknowledgement and the new magic the FPGA overwrites what the
\* HPS owns.  No store of the HPS, decided on the old header, is still to come.
HpsQuietWhileReinit ==
  state \in Reinit \/ queue.cmd \in Reinit => pc \notin Stores

\* Nor does scan-out still read the shared banks.
ScanoutQuietWhileReinit == state \in Reinit => ~video

\* A helper that was restarted never resumes a session: at most one service
\* becomes Ready in it, and the console runs only in a session that one did.
OneServicePerSession ==
  /\ \A s \in Tokens : instances[s] <= 1
  /\ Released => instances[session] = 1

\* While the console runs, the service it runs against renders what the menu had
\* selected at the last load or reset.  A restart of the helper samples nothing.
MenuChoiceApplied ==
  Released => policy = option /\ (service => mine = session /\ flag = option)

\* The console is released once in a session: guest CPUs never start again
\* against a renderer that has seen the session before.
ReleasedOnce == [][Released' /\ ~Released => ~everReleased]_vars

\* A faulted control client has told the HPS so: the fault word is written
\* before it rests.
FaultPublished == state = "faultHold" => ddr.fpgaFault

\* An exchange ends with the console running, with a fault or in a reset, unless
\* the helper dies.
Settled ==
  Released \/ fault \/ pc = "down" \/ (state = "wait" /\ ~restartPending)

\* Every cartridge load and every reset by the user ends settled, and so does
\* the request of a restarted helper for a session of its own.
AllAnswered ==
  /\ restartPending ~> Settled
  /\ ddr.service = "RestartRequested" /\ state = "poll" ~> Settled

\* The console does not run on without its service.
DeadServiceStopsConsole == Released /\ pc = "down" ~> ~Released
=============================================================================
