------------------------ MODULE SessionControlProofs ------------------------
(***************************************************************************)
(* Proofs about SessionControl, for every number of triggers and mishaps   *)
(* and for tokens of every size that SessionAssumption allows.  While the  *)
(* FPGA rewrites the header, no store of the HPS is to come, and scan-out  *)
(* does not read the shared banks: QuietInv and TokenInv are inductive     *)
(* together.  On top of them, ServiceInv: a session has one service at     *)
(* most, the console runs only against it and with the menu's choice, and  *)
(* is released once.                                                       *)
(***************************************************************************)
EXTENDS SessionControl, TLAPS

\* Neither the header nor the HPS still has the token t.
Free(t) ==
  /\ t \notin {ddr.request, ddr.ack, ddr.session}
  /\ pc = "ackStore" => token # t

\* The token that the FPGA is about to take.
NextTokenFree == state = "readCounter" => Free(NextToken(ddr.request))

-----------------------------------------------------------------------------
(* The invariant                                                           *)

\* The commands of the FPGA: reads and writes of the header.
Commands ==
  {"none", "writeRequest", "writeQuiesce", "writeFault"} \cup Reads \cup Reinit

Kinds ==
  /\ ddr \in [magic : Magics, session : Nat, fpgaFault : BOOLEAN, hpsFault : BOOLEAN,
              service : ServiceStates, accepted : Nat, beat : BOOLEAN,
              request : Nat, ack : Nat, policy : {ddr.policy},
              policyAck : {ddr.policyAck}]
  /\ queue \in [cmd : Commands, word : Nat, session : Nat, flag : {queue.flag},
                answered : BOOLEAN, data : {queue.data}]
  /\ state \in States /\ word \in Nat /\ session \in Nat
  /\ state = "clear" => word \in 1 .. 4
  /\ queue.cmd = "clear" => queue.word \in 1 .. 4
  /\ token \in Nat /\ mine \in Nat
  /\ after \in Reasons /\ purpose \in {"loop", "restart"}
  /\ pc \in {"check", "checkEnd"} => after # "none"

\* A command in the fabric is that of the state that waits for it, or a fault or a
\* reset has come between.
Own ==
  /\ phase \in {"ready", "issued", "waiting"}
  /\ queue.cmd = "none" => queue = NoCommand
  /\ phase = "issued" => queue.cmd # "none" /\ ~queue.answered
  /\ phase = "waiting" => queue.answered
  /\ phase # "ready" =>
       \/ state = "writeFault" /\ phase = "issued"
       \/ queue.cmd = state /\ queue.word = word /\ queue.session = session
  /\ phase = "ready" /\ queue.cmd # "none" =>
       state \in {"wait", "readCounter", "writeFault", "faultHold"}

\* The header shows no trace of a service.
Untouched == ddr.service = "Offline" /\ ddr.accepted = 0

\* What has been done to the header when the state s, or its command, with the word w
\* and the session t, is reached.
Reached(s, w, t) ==
  /\ s = "writeRequest" => Free(t)
  /\ s \in {"writeQuiesce", "readAck"} => ddr.request = t /\ ddr.session # t
  /\ s = "readAck" => ddr.magic = "H3DQ"
  /\ s \in Reinit => ddr.request = t /\ ddr.ack = t /\ ddr.magic = "H3DQ"
  /\ s \in Reinit \ {"clear"} \/ (s = "clear" /\ w > 3) => Untouched
  /\ s \in Reinit \ {"clear", "config"} => ddr.session = t

\* A read that is answered has brought what still holds.
AnswerTrue ==
  queue.answered =>
    /\ queue.cmd = "readCounter" => queue.data[1] = ddr.request
    /\ queue.cmd = "readAck" =>
         (queue.data[1] = ddr.request => ddr.ack = ddr.request)

\* The HPS has acknowledged the newest request, and the header is not yet that of
\* the new session.
Granted ==
  /\ ddr.ack = ddr.request
  /\ ddr.magic # "H3D1" \/ ddr.session # ddr.request

\* The HPS has not seen the active magic.
Unaware ==
  \/ pc \in {"down", "magic", "ackMagic", "ackRequest"}
  \/ pc \in {"request", "owner"} /\ magic # "H3D1"

\* The HPS takes a header for the new session's that is the old one's, and that no
\* service has touched: it gets no further than to read the policy.
Misled ==
  /\ Untouched
  /\ pc \in {"down", "magic", "ackMagic", "ackRequest", "request", "owner", "state",
             "accepted", "initSession", "check", "checkEnd", "readEpoch", "readPolicy"}
  /\ pc = "accepted" => good
  /\ pc \in {"check", "checkEnd"} => after \in {"session", "fail"}
  /\ pc = "checkEnd" /\ good => after = "session" /\ mine # ddr.request
  /\ pc \in {"readEpoch", "readPolicy"} => mine # ddr.request
  /\ pc = "readPolicy" => token = ddr.request

\* No store of the HPS is to come once it has acknowledged.
Calm == Granted => (ddr.magic # "H3D1" /\ Unaware) \/ Misled

\* An acknowledgement that the HPS decided on before the last session began finds a
\* header that no service has touched.
LateAck == pc \in {"ackRequest", "ackStore"} /\ ddr.magic = "H3D1" => Untouched

\* The sessions that are due: requested, or begun with a token that the header does
\* not have yet.
IsDue(d) ==
  d = (IF Restarting THEN 1 ELSE 0)
        + (IF state = "readCounter" \/ (state = "writeRequest" /\ phase = "ready")
           THEN 1 ELSE 0)
        + (IF queue.cmd = "writeRequest" THEN 1 ELSE 0)

\* How many requests a token x is behind the request r.
Behind(r, x) == IF r >= x THEN r - x ELSE r + MaxToken - x

\* An old token that the header or the HPS still has.
InUse(x) ==
  \/ x \in {ddr.ack, ddr.session} \ {0}
  \/ pc = "ackStore" /\ x = token

Numbers ==
  /\ restartPending \in BOOLEAN /\ serviceRestart \in BOOLEAN
  /\ triggers \in 0 .. MaxTriggers
  /\ ddr.request \in 0 .. MaxToken /\ ddr.ack \in 0 .. MaxToken
  /\ ddr.session \in 0 .. MaxToken
  /\ pc = "ackStore" => token \in Tokens /\ ddr.ack # ddr.request
  /\ ddr.request = 0 => ddr.ack = 0 /\ ddr.session = 0 /\ pc # "ackStore"

\* A new token is the next one, and while the FPGA polls, everything has the newest.
Newest ==
  /\ state = "writeRequest" => session = NextToken(ddr.request)
  /\ queue.cmd = "writeRequest" => queue.session = NextToken(ddr.request)
  /\ state \in {"poll", "policyAck"} =>
       ddr.ack = ddr.request /\ ddr.session = ddr.request
  /\ state \notin {"wait", "readCounter", "writeRequest", "writeFault", "faultHold"} =>
       ddr.request # 0

\* A token falls behind only by sessions that a load or a reset has asked for: the HPS
\* asks for one only when everything has the newest.
Counted ==
  /\ state \notin {"wait", "writeFault", "faultHold"} => triggers > 0
  /\ \E d \in 0 .. 3 :
       /\ IsDue(d) /\ d <= triggers
       /\ \A x \in Tokens : InUse(x) => Behind(ddr.request, x) + d <= triggers

TokenInv == Numbers /\ Newest /\ Counted

QuietInv ==
  /\ Kinds /\ Own /\ Reached(state, word, session)
  /\ Reached(queue.cmd, queue.word, queue.session)
  /\ AnswerTrue /\ Calm /\ LateAck /\ ScanoutQuietWhileReinit

-----------------------------------------------------------------------------
(* The HPS                                                                 *)

\* The steps of the HPS that only read the header, and those that write it.
Looks ==
  \/ ReadMagic \/ ReadRequest \/ ReadOwner \/ ReadState \/ ReadAccepted
  \/ AckMagic \/ AckRequest \/ AskState \/ CheckBegin \/ CheckEnd
  \/ InitSession \/ ReadEpoch \/ ReadPolicy \/ InitConsumer \/ CheckPolicy \/ Polled

Writes ==
  \/ AskStore \/ StoreInitializing \/ ClearPolicyAck \/ CommitPolicyAck
  \/ StoreAccepted \/ StoreReady \/ StoreBeat \/ StoreFault \/ StoreFaultState

\* The steps that leave the header alone, those of a mishap and of a start included.
Quiet == (Looks \/ ServiceFails \/ HpsStarts \/ HpsDies) /\ UNCHANGED ddr

\* A look of the HPS changes nothing of the header.
LEMMA LooksFrame ==
  ASSUME Kinds, Looks
  PROVE  /\ UNCHANGED ddr
         /\ pc' = "ackStore" =>
              pc = "ackRequest" /\ token' = ddr.request /\ ddr.ack # ddr.request
         /\ pc' = "ackRequest" => ddr.magic = "H3DQ"
<1>1. CASE ReadMagic \/ ReadOwner \/ ReadState
  BY <1>1 DEF ReadMagic, ReadOwner, ReadState, Goto, Inspect
<1>2. CASE ReadRequest
  <2>1. UNCHANGED ddr /\ pc' \in {"magic", "ackMagic", "owner"}
    BY <1>2 DEF ReadRequest
  <2> QED
    BY <2>1
<1>3. CASE ReadAccepted
  <2>1. /\ UNCHANGED ddr
        /\ \/ Goto("initSession") \/ Inspect("loop") \/ Inspect("restart")
           \/ Goto("askState") \/ purpose \notin {"loop", "restart"}
    BY <1>3 DEF ReadAccepted
  <2> QED
    BY <2>1 DEF Goto, Inspect, Kinds
<1>4. CASE AckMagic \/ AckRequest \/ AskState
  BY <1>4 DEF AckMagic, AckRequest, AskState, AlreadyAcked, Goto, Inspect
<1>5. CASE CheckEnd
  <2>1. after \in {"session", "policy", "commit", "poll", "beat", "fail", "consumer"}
    BY <1>5 DEF CheckEnd, Kinds, Reasons
  <2>2. after # "consumer" => WhenCurrent[after] \notin {"ackStore", "ackRequest"}
    BY <2>1 DEF WhenCurrent
  <2>3. /\ UNCHANGED ddr
        /\ \/ Check("policy") \/ Check("poll") \/ Check("fail")
           \/ after # "consumer" /\ Goto(WhenCurrent[after])
           \/ Inspect("loop") \/ Inspect("restart")
    BY <1>5, <2>1 DEF CheckEnd
  <2> QED
    BY <2>2, <2>3 DEF Check, Goto, Inspect
<1>6. CASE CheckBegin \/ InitSession \/ ReadEpoch \/ ReadPolicy
  BY <1>6 DEF CheckBegin, InitSession, ReadEpoch, ReadPolicy, Check
<1>7. CASE InitConsumer \/ CheckPolicy \/ Polled
  BY <1>7 DEF InitConsumer, CheckPolicy, Polled, Check, Goto
<1> QED
  BY <1>1, <1>2, <1>3, <1>4, <1>5, <1>6, <1>7 DEF Looks

\* A store other than the acknowledgement's leaves magic and request alone.
LEMMA WritesFrame ==
  ASSUME Kinds, Writes
  PROVE  /\ pc \in Stores \ {"ackStore"}
         /\ pc' \notin {"ackRequest", "ackStore"}
         /\ ddr'.magic = ddr.magic /\ ddr'.request = ddr.request
         /\ ddr'.session = ddr.session /\ ddr'.ack = ddr.ack
  BY DEF Kinds, Writes, AskStore, StoreInitializing, ClearPolicyAck, CommitPolicyAck,
         StoreAccepted, StoreReady, StoreBeat, StoreFault, StoreFaultState, Goto, Check,
         Inspect, Stores

\* Once the HPS has acknowledged, it is at no store.
LEMMA CalmNow ==
  ASSUME Calm, Granted
  PROVE  pc \notin Stores
  BY DEF Calm, Granted, Unaware, Misled, Stores

\* An acknowledgement of the HPS.
LEMMA AckFrame ==
  ASSUME Kinds, AckStore
  PROVE  /\ pc = "ackStore" /\ pc' = "magic"
         /\ ddr'.magic = ddr.magic /\ ddr'.request = ddr.request
         /\ ddr'.session = ddr.session /\ ddr'.ack = token
         /\ ddr'.service = ddr.service /\ ddr'.accepted = ddr.accepted
  BY DEF Kinds, AckStore, Inspect

\* Whatever the FPGA has reached, the HPS lets it stand.
LEMMA HpsReached ==
  ASSUME Kinds, Calm, Quiet \/ Writes \/ AckStore
  PROVE  \A s, w, t : Reached(s, w, t) => Reached(s, w, t)'
<1> SUFFICES ASSUME NEW s, NEW w, NEW t, Reached(s, w, t)
             PROVE  Reached(s, w, t)'
  OBVIOUS
<1>1. pc' = "ackStore" =>
        \/ pc = "ackStore" /\ UNCHANGED token
        \/ token' = ddr.request
  <2>1. CASE Looks
    BY <2>1, LooksFrame
  <2>2. CASE ServiceFails \/ HpsStarts \/ HpsDies
    BY <2>2 DEF ServiceFails, HpsStarts, HpsDies, Check, Inspect
  <2> QED
    BY <2>1, <2>2, WritesFrame, AckFrame DEF Quiet
<1>2. /\ ddr'.magic = ddr.magic /\ ddr'.request = ddr.request
      /\ ddr'.session = ddr.session
      /\ ddr'.ack = ddr.ack \/ (pc = "ackStore" /\ ddr'.ack = token)
      /\ pc \notin Stores => UNCHANGED ddr
  BY WritesFrame, AckFrame DEF Quiet, Stores
<1>3. CASE s \in Reinit
  <2>1. Granted
    BY <1>3 DEF Reached, Granted
  <2>2. UNCHANGED ddr
    BY <1>2, <2>1, CalmNow
  <2> QED
    BY <1>3, <2>2 DEF Reached, Untouched, Reinit
<1>4. CASE s \notin Reinit
  <2>1. s = "writeRequest" => Free(t)'
    BY <1>1, <1>2 DEF Reached, Free
  <2> QED
    BY <1>2, <1>4, <2>1 DEF Reached, Untouched, Reinit
<1> QED
  BY <1>3, <1>4

\* A step of the HPS leaves an answer on its way as true as it was.
LEMMA HpsAnswer ==
  ASSUME Kinds, Calm, Quiet \/ Writes \/ AckStore,
         UNCHANGED queue, AnswerTrue, Reached(queue.cmd, queue.word, queue.session)
  PROVE  AnswerTrue'
<1>1. ddr'.request = ddr.request
  BY WritesFrame, AckFrame DEF Quiet
<1>2. ASSUME queue.cmd = "readAck", queue.answered, ddr.ack = ddr.request
      PROVE  ddr'.ack = ddr.ack
  <2>1. Granted
    BY <1>2 DEF Reached, Granted
  <2> QED
    BY <2>1, CalmNow, WritesFrame, AckFrame DEF Quiet, Stores
<1> QED
  BY <1>1, <1>2 DEF AnswerTrue

\* The HPS stays calm.
LEMMA HpsCalm ==
  ASSUME Kinds, Calm, LateAck, Quiet \/ Writes \/ AckStore
  PROVE  Calm' /\ LateAck'
<1>1. CASE AckStore
  BY <1>1, AckFrame DEF Calm, LateAck, Granted, Unaware, Misled, Untouched
<1>2. CASE Writes
  <2>1. ~Granted /\ ~Granted'
    BY <1>2, WritesFrame, CalmNow DEF Granted
  <2> QED
    BY <1>2, <2>1, WritesFrame DEF Calm, LateAck
<1>3. CASE HpsDies /\ UNCHANGED ddr
  BY <1>3 DEF HpsDies, Calm, LateAck, Granted, Unaware, Misled, Untouched
<1>4. CASE (ServiceFails \/ HpsStarts) /\ UNCHANGED ddr
  BY <1>4 DEF ServiceFails, HpsStarts, Check, Inspect, Calm, LateAck, Granted,
              Unaware, Misled, Untouched
<1>5. CASE Looks
  <2>1. UNCHANGED ddr
    BY <1>5, LooksFrame
  <2>2. LateAck'
    BY <1>5, <2>1, LooksFrame DEF LateAck, Untouched
  <2>3. ASSUME Granted, ddr.magic # "H3D1", Unaware PROVE Unaware'
    BY <1>5, <2>3 DEF Looks, Unaware, ReadMagic, ReadRequest, ReadOwner, ReadState,
      ReadAccepted, AckMagic, AckRequest, AskState, CheckBegin, CheckEnd, InitSession,
      ReadEpoch, ReadPolicy, InitConsumer, CheckPolicy, Polled, Goto, Inspect, Granted,
      AlreadyAcked
  <2>4. ASSUME Granted, Misled PROVE Misled'
    <3>1. CASE ReadMagic \/ ReadOwner \/ ReadState \/ AckMagic \/ AckRequest
      BY <2>1, <2>4, <3>1 DEF Granted, Misled, Untouched, ReadMagic, ReadOwner,
        ReadState, AckMagic, AckRequest, AlreadyAcked, Goto, Inspect
    <3>2. CASE ReadRequest
      <4>1. pc' \in {"magic", "ackMagic", "owner"}
        BY <3>2 DEF ReadRequest
      <4> QED
        BY <2>1, <2>4, <4>1 DEF Misled, Untouched
    <3>3. CASE ReadAccepted
      <4>1. FreshSession
        BY <2>4, <3>3 DEF ReadAccepted, Misled, Untouched, FreshSession
      <4>2. Goto("initSession") \/ Inspect("loop")
        BY <3>3, <4>1 DEF ReadAccepted, Kinds
      <4> QED
        BY <2>1, <2>4, <4>2 DEF Misled, Untouched, Goto, Inspect
    <3>4. CASE InitSession \/ ReadEpoch
      BY <2>1, <2>4, <3>4 DEF Misled, Untouched, InitSession, ReadEpoch
    <3>5. CASE ReadPolicy
      BY <2>1, <2>4, <3>5 DEF Misled, Untouched, ReadPolicy, PolicyOfEpoch, Check
    <3>6. CASE CheckBegin
      BY <2>1, <2>4, <3>6 DEF Granted, Misled, Untouched, CheckBegin, Accepted
    <3>7. CASE CheckEnd
      <4>1. after \in {"session", "fail"} /\ (Current => after = "session")
        BY <2>4, <3>7 DEF Misled, CheckEnd, Current
      <4>2. \/ Check("fail") \/ Inspect("loop") \/ Inspect("restart")
            \/ Current /\ Goto("readEpoch")
        BY <3>7, <4>1 DEF CheckEnd, WhenCurrent
      <4> QED
        BY <2>1, <2>4, <3>7, <4>2
        DEF Misled, Untouched, Check, Goto, Inspect, Current, CheckEnd
    <3>8. pc \notin {"askState", "initConsumer", "checkPolicy", "polled"}
      BY <2>4 DEF Misled
    <3> QED
      BY <1>5, <3>1, <3>2, <3>3, <3>4, <3>5, <3>6, <3>7, <3>8
      DEF Looks, AskState, InitConsumer, CheckPolicy, Polled
  <2> QED
    BY <2>1, <2>2, <2>3, <2>4 DEF Calm, Granted
<1> QED
  BY <1>1, <1>2, <1>3, <1>4, <1>5 DEF Quiet

\* The HPS keeps the types.
LEMMA HpsKinds ==
  ASSUME Kinds, Quiet \/ Writes \/ AckStore,
         UNCHANGED <<queue, state, word, session>>
  PROVE  Kinds'
<1>1. /\ ddr.request \in Nat /\ ddr.session \in Nat /\ 0 \in Nat
      /\ token \in Nat /\ mine \in Nat
  BY DEF Kinds
<1>2. /\ token' \in Nat /\ mine' \in Nat
      /\ after' \in Reasons /\ purpose' \in {"loop", "restart"}
      /\ pc' \in {"check", "checkEnd"} => after' # "none"
  <2>1. CASE ReadMagic \/ ReadOwner \/ ReadState \/ AckMagic \/ AckRequest \/ AskState
    BY <1>1, <2>1 DEF Kinds, ReadMagic, ReadOwner, ReadState, AckMagic, AckRequest,
      AskState, Goto, Inspect, Reasons
  <2>2. CASE ReadRequest
    <3>1. /\ pc' \in {"magic", "ackMagic", "owner"} /\ token' = ddr.request
          /\ UNCHANGED <<after, mine>>
          /\ purpose' \in {"loop", purpose}
      BY <2>2 DEF ReadRequest
    <3> QED
      BY <1>1, <3>1 DEF Kinds
  <2>3. CASE ReadAccepted
    <3>1. \/ Goto("initSession") \/ Inspect("loop") \/ Inspect("restart")
          \/ Goto("askState")
      BY <2>3 DEF ReadAccepted, Kinds
    <3> QED
      BY <1>1, <3>1 DEF Kinds, Goto, Inspect, Reasons
  <2>4. CASE CheckEnd
    <3>1. after \in {"session", "policy", "commit", "poll", "beat", "fail", "consumer"}
      BY <2>4 DEF CheckEnd, Kinds, Reasons
    <3>2. \/ Check("policy") \/ Check("poll") \/ Check("fail")
          \/ Goto("readEpoch") \/ Goto("checkPolicy") \/ Goto("polled")
          \/ Goto("storeBeat") \/ Goto("storeFault")
          \/ Inspect("loop") \/ Inspect("restart")
      BY <2>4, <3>1 DEF CheckEnd, WhenCurrent
    <3> QED
      BY <1>1, <3>2 DEF Kinds, Check, Goto, Inspect, Reasons
  <2>5. CASE CheckBegin \/ InitSession \/ ReadEpoch \/ ReadPolicy
    BY <1>1, <2>5 DEF Kinds, CheckBegin, InitSession, ReadEpoch, ReadPolicy, Check,
      Reasons
  <2>6. CASE InitConsumer \/ CheckPolicy \/ Polled
    BY <1>1, <2>6 DEF Kinds, InitConsumer, CheckPolicy, Polled, Check, Goto, Reasons
  <2>7. CASE ServiceFails \/ HpsStarts \/ HpsDies
    BY <1>1, <2>7 DEF Kinds, ServiceFails, HpsStarts, HpsDies, Check, Inspect, Reasons
  <2>8. CASE Writes
    BY <1>1, <2>8 DEF Kinds, Writes, AskStore, StoreInitializing, ClearPolicyAck,
      CommitPolicyAck, StoreAccepted, StoreReady, StoreBeat, StoreFault,
      StoreFaultState, Goto, Check, Inspect, Reasons
  <2>9. CASE AckStore
    BY <1>1, <2>9 DEF Kinds, AckStore, Inspect, Reasons
  <2> QED
    BY <2>1, <2>2, <2>3, <2>4, <2>5, <2>6, <2>7, <2>8, <2>9 DEF Quiet, Looks
<1>3. ddr' \in [magic : Magics, session : Nat, fpgaFault : BOOLEAN, hpsFault : BOOLEAN,
                service : ServiceStates, accepted : Nat, beat : BOOLEAN,
                request : Nat, ack : Nat, policy : {ddr'.policy},
                policyAck : {ddr'.policyAck}]
  <2>1. CASE UNCHANGED ddr
    BY <2>1 DEF Kinds
  <2>2. CASE AckStore
    BY <1>1, <2>2 DEF Kinds, AckStore
  <2>3. CASE AskStore \/ StoreInitializing \/ StoreReady \/ StoreFaultState
    <3>1. {"RestartRequested", "Initializing", "Ready", "Fault"} \subseteq ServiceStates
      BY DEF ServiceStates
    <3>2. PICK v \in ServiceStates : ddr' = [ddr EXCEPT !.service = v]
      BY <2>3, <3>1 DEF AskStore, StoreInitializing, StoreReady, StoreFaultState
    <3> QED
      BY <3>2 DEF Kinds
  <2>4. CASE ClearPolicyAck \/ CommitPolicyAck
    <3>1. PICK v : ddr' = [ddr EXCEPT !.policyAck = v]
      BY <2>4 DEF ClearPolicyAck, CommitPolicyAck
    <3> QED
      BY <3>1 DEF Kinds
  <2>5. CASE StoreAccepted
    BY <1>1, <2>5 DEF Kinds, StoreAccepted
  <2>6. CASE StoreBeat
    BY <2>6 DEF Kinds, StoreBeat
  <2>7. CASE StoreFault
    BY <2>7 DEF Kinds, StoreFault
  <2> QED
    BY <2>1, <2>2, <2>3, <2>4, <2>5, <2>6, <2>7 DEF Quiet, Writes
<1> QED
  BY <1>2, <1>3 DEF Kinds

-----------------------------------------------------------------------------
(* The FPGA                                                                *)

\* The words that the FPGA clears and polls.
LEMMA WordsThere ==
  /\ Len(ClearWords) = 4 /\ Len(PollWords) = 6
  /\ ClearWords[1] = "session" /\ ClearWords[2] = "faults"
  /\ ClearWords[3] = "service" /\ ClearWords[4] = "beat"
  BY DEF ClearWords, PollWords

\* What of the header the invariant speaks of.
Seen == <<ddr.magic, ddr.request, ddr.ack, ddr.session, ddr.service, ddr.accepted>>

\* What a command does to it.
LEMMA EffectIs ==
  ASSUME Kinds, ddr' = Effect(queue)
  PROVE  /\ queue.cmd = "writeRequest" => ddr' = [ddr EXCEPT !.request = queue.session]
         /\ queue.cmd = "writeQuiesce" => ddr' = [ddr EXCEPT !.magic = "H3DQ"]
         /\ queue.cmd = "clear" => ddr' = Cleared(ClearWords[queue.word])
         /\ queue.cmd = "config" => ddr' = [ddr EXCEPT !.session = queue.session]
         /\ queue.cmd = "writeMagic" => ddr' = [ddr EXCEPT !.magic = "H3D1"]
         /\ queue.cmd \in {"readCounter", "readAck"} => UNCHANGED ddr
         /\ queue.cmd \notin {"writeRequest", "writeQuiesce", "clear", "config",
                              "writeMagic"} => UNCHANGED Seen
<1>1. CASE queue.cmd \in {"writeRequest", "writeQuiesce", "clear", "config",
                          "writeMagic"}
  BY <1>1 DEF Effect
<1>2. CASE queue.cmd \in {"readCounter", "readAck"}
  BY <1>2 DEF Effect, Seen
<1>3. CASE queue.cmd \in {"clearPolicyAck", "clearPolicyCommit", "writePolicy",
                          "writeFault"}
  BY <1>3 DEF Effect, Seen, Kinds
<1>4. CASE queue.cmd = "poll"
  <2>1. ddr' = ddr \/ ddr' = [ddr EXCEPT !.beat = FALSE]
    BY <1>4 DEF Effect
  <2> QED
    BY <1>4, <2>1 DEF Kinds, Seen
<1>5. CASE queue.cmd \in {"none", "policyAck"}
  BY <1>5 DEF Effect, Seen
<1> QED
  BY <1>1, <1>2, <1>3, <1>4, <1>5 DEF Kinds, Commands, Reads, Reinit

\* A command that is not the preparation of a session.
Plain(s) == s \notin {"writeRequest", "writeQuiesce", "readAck"} \cup Reinit

\* Plain states ask nothing of the header.
LEMMA PlainReached ==
  ASSUME NEW s, Plain(s)
  PROVE  \A w, t : Reached(s, w, t) /\ Reached(s, w, t)'
  BY DEF Plain, Reached, Reinit

\* With the header as it was, everything reached stands.
LEMMA SeenReached ==
  ASSUME UNCHANGED Seen, UNCHANGED hpsVars
  PROVE  /\ \A s, w, t : Reached(s, w, t) => Reached(s, w, t)'
         /\ Calm => Calm'
         /\ LateAck => LateAck'
  BY DEF Seen, hpsVars, Reached, Free, Untouched, Calm, Granted, Unaware, Misled,
         LateAck

\* The header after a write that prepares a session, by its command.
LEMMA Prepared ==
  ASSUME Kinds, Calm, LateAck, NEW t, t = queue.session, NEW w, w = queue.word,
         Reached(queue.cmd, w, t),
         ~Plain(queue.cmd), queue.cmd # "readAck", ddr' = Effect(queue),
         UNCHANGED hpsVars
  PROVE  /\ Calm' /\ LateAck'
         /\ queue.cmd = "writeRequest" => Reached("writeQuiesce", 1, t)'
         /\ queue.cmd = "writeQuiesce" => Reached("readAck", 1, t)'
         /\ queue.cmd = "clear" =>
              /\ Reached("clear", w + 1, t)'
              /\ w = 4 => Reached("config", 4, t)'
         /\ queue.cmd = "config" => Reached("clearPolicyAck", 1, t)'
         /\ queue.cmd = "clearPolicyAck" =>
              Reached("clearPolicyCommit", 1, t)'
         /\ queue.cmd = "clearPolicyCommit" => Reached("writePolicy", 1, t)'
         /\ queue.cmd = "writePolicy" => Reached("writeMagic", 1, t)'
<1>1. CASE queue.cmd = "writeRequest"
  <2>1. ddr' = [ddr EXCEPT !.request = t] /\ Free(t)
    BY <1>1, EffectIs DEF Reached
  <2>2. /\ ddr'.request = t /\ ddr'.ack = ddr.ack /\ ddr'.session = ddr.session
        /\ ddr'.magic = ddr.magic /\ ddr'.service = ddr.service
        /\ ddr'.accepted = ddr.accepted
    BY <2>1 DEF Kinds
  <2>3. Calm' /\ LateAck'
    BY <2>1, <2>2 DEF Free, Calm, Granted, LateAck, Untouched, hpsVars
  <2>4. Reached("writeQuiesce", 1, t)'
    BY <2>1, <2>2 DEF Free, Reached, Reinit
  <2> QED
    BY <1>1, <2>3, <2>4
<1>2. CASE queue.cmd = "writeQuiesce"
  <2>1. ddr' = [ddr EXCEPT !.magic = "H3DQ"] /\ ddr.request = t /\ ddr.session # t
    BY <1>2, EffectIs DEF Reached
  <2>2. /\ ddr'.request = ddr.request /\ ddr'.ack = ddr.ack
        /\ ddr'.session = ddr.session /\ ddr'.magic = "H3DQ"
        /\ ddr'.service = ddr.service /\ ddr'.accepted = ddr.accepted
    BY <2>1 DEF Kinds
  <2>3. Calm' /\ LateAck'
    BY <2>1, <2>2 DEF Calm, Granted, LateAck, Unaware, Misled, Untouched, hpsVars
  <2>4. Reached("readAck", 1, t)'
    BY <2>1, <2>2 DEF Reached, Reinit
  <2> QED
    BY <1>2, <2>3, <2>4
<1>3. CASE queue.cmd \in Reinit
  <2>1. /\ ddr.request = t /\ ddr.ack = t /\ ddr.magic = "H3DQ"
        /\ queue.cmd # "clear" => Untouched
        /\ queue.cmd = "clear" /\ w > 3 => Untouched
        /\ queue.cmd \notin {"clear", "config"} => ddr.session = t
        /\ Granted
    BY <1>3 DEF Reached, Granted
  <2>2. CASE queue.cmd = "clear"
    <3>1. w \in 1 .. 4 /\ ddr' = Cleared(ClearWords[w])
      BY <2>2, EffectIs DEF Kinds
    <3>2. /\ ddr'.request = t /\ ddr'.ack = t /\ ddr'.magic = "H3DQ"
          /\ Untouched => Untouched'
          /\ w = 3 => Untouched'
      <4>1. CASE w = 1
        <5>1. ddr' = [ddr EXCEPT !.session = 0]
          BY <3>1, <4>1, WordsThere DEF Cleared
        <5> QED
          BY <2>1, <4>1, <5>1 DEF Kinds, Untouched
      <4>2. CASE w = 2
        <5>1. ddr' = [ddr EXCEPT !.fpgaFault = FALSE, !.hpsFault = FALSE]
          BY <3>1, <4>2, WordsThere DEF Cleared
        <5> QED
          BY <2>1, <4>2, <5>1 DEF Kinds, Untouched
      <4>3. CASE w = 3
        <5>1. ddr' = [ddr EXCEPT !.service = "Offline", !.accepted = 0]
          BY <3>1, <4>3, WordsThere DEF Cleared
        <5> QED
          BY <2>1, <4>3, <5>1 DEF Kinds, Untouched
      <4>4. CASE w = 4
        <5>1. ddr' = [ddr EXCEPT !.beat = FALSE]
          BY <3>1, <4>4, WordsThere DEF Cleared
        <5> QED
          BY <2>1, <4>4, <5>1 DEF Kinds, Untouched
      <4> QED
        BY <3>1, <4>1, <4>2, <4>3, <4>4
    <3>3. Calm' /\ LateAck'
      BY <2>1, <3>2 DEF Calm, Granted, LateAck, Unaware, Misled, hpsVars
    <3>4. w + 1 > 3 => Untouched'
      BY <2>1, <2>2, <3>1, <3>2
    <3>5. Reached("clear", w + 1, t)'
      BY <3>2, <3>4 DEF Reached, Reinit
    <3>6. w = 4 => Reached("config", 4, t)'
      BY <2>1, <2>2, <3>2 DEF Reached, Reinit
    <3> QED
      BY <2>2, <3>3, <3>5, <3>6
  <2>3. CASE queue.cmd = "config"
    <3>1. /\ ddr'.request = t /\ ddr'.ack = t /\ ddr'.magic = "H3DQ"
          /\ ddr'.session = t /\ Untouched'
      BY <2>1, <2>3, EffectIs DEF Kinds, Untouched
    <3>2. Calm' /\ LateAck'
      BY <2>1, <3>1 DEF Calm, Granted, LateAck, Unaware, Misled, hpsVars
    <3>3. Reached("clearPolicyAck", 1, t)'
      BY <3>1 DEF Reached, Reinit
    <3> QED
      BY <2>3, <3>2, <3>3
  <2>4. CASE queue.cmd \in {"clearPolicyAck", "clearPolicyCommit", "writePolicy"}
    <3>1. UNCHANGED Seen
      BY <2>4, EffectIs
    <3>2. Calm' /\ LateAck'
      BY <3>1, SeenReached
    <3>3. /\ Reached("clearPolicyCommit", 1, t)' /\ Reached("writePolicy", 1, t)'
          /\ Reached("writeMagic", 1, t)'
      BY <2>1, <2>4, <3>1 DEF Reached, Reinit, Seen, Untouched
    <3> QED
      BY <2>4, <3>2, <3>3
  <2>5. CASE queue.cmd = "writeMagic"
    <3>1. /\ ddr'.request = t /\ ddr'.ack = t /\ ddr'.magic = "H3D1"
          /\ ddr'.session = t /\ Untouched'
      BY <2>1, <2>5, EffectIs DEF Kinds, Untouched
    <3> QED
      BY <2>5, <3>1 DEF Calm, Granted, LateAck
  <2> QED
    BY <1>3, <2>2, <2>3, <2>4, <2>5 DEF Reinit
<1> QED
  BY <1>1, <1>2, <1>3 DEF Plain

\* The state that follows a command of its own that the fabric has taken.
LEMMA Advances ==
  ASSUME Kinds, Advance, state \notin {"wait", "readCounter", "readAck", "policyAck",
                                       "faultHold"}
  PROVE  /\ state = "writeRequest" => state' = "writeQuiesce" /\ word' = 1
         /\ state = "writeQuiesce" => state' = "readAck" /\ word' = 1
         /\ state = "clear" =>
              \/ word < 4 /\ state' = "clear" /\ word' = word + 1
              \/ word = 4 /\ state' = "config" /\ word' = 4
         /\ state = "config" => state' = "clearPolicyAck" /\ word' = 1
         /\ state = "clearPolicyAck" => state' = "clearPolicyCommit" /\ word' = 1
         /\ state = "clearPolicyCommit" => state' = "writePolicy" /\ word' = 1
         /\ state = "writePolicy" => state' = "writeMagic" /\ word' = 1
         /\ state = "writeMagic" => state' = "poll" /\ word' = 1
         /\ state = "writeFault" => state' = "faultHold" /\ word' = 1
         /\ state = "poll" => state' = "poll" /\ word' = word + 1
<1>1. Len(ClearWords) = 4
  BY WordsThere
<1>2. CASE state = "clear"
  <2>1. word \in 1 .. 4
    BY <1>2 DEF Kinds
  <2>2. CASE word < 4
    BY <1>1, <1>2, <2>1, <2>2 DEF Advance
  <2>3. CASE word = 4
    BY <1>1, <1>2, <2>1, <2>3 DEF Advance
  <2> QED
    BY <1>2, <2>1, <2>2, <2>3
<1>3. CASE state = "poll"
  BY <1>3 DEF Advance
<1>4. CASE state \notin {"clear", "poll"}
  <2>1. state' = NextState[state] /\ word' = 1
    BY <1>4 DEF Advance
  <2> QED
    BY <1>4, <2>1 DEF NextState
<1> QED
  BY <1>2, <1>3, <1>4

\* A state whose own command has been taken.
LEMMA AcceptMoves ==
  ASSUME Kinds, Own, Accept
  PROVE  /\ IsRead(queue) =>
              /\ state' = state /\ word' = word
              /\ queue' = [queue EXCEPT !.answered = TRUE, !.data = Data(queue)]
         /\ ~IsRead(queue) => queue' = NoCommand /\ phase' = "ready"
         /\ queue.cmd # "none" /\ ~queue.answered /\ ddr' = Effect(queue)
         /\ UNCHANGED <<session, serviceRestart>>
         /\ \/ Plain(state) /\ Plain(state')
            \/ IsRead(queue) /\ state = queue.cmd
            \/ /\ ~IsRead(queue) /\ state = queue.cmd /\ word = queue.word
               /\ session = queue.session /\ Advance
<1>1. queue.cmd # "none" /\ ~queue.answered /\ ddr' = Effect(queue)
  BY DEF Accept, Own
<1>2. phase \in {"ready", "issued"}
  BY <1>1 DEF Own
<1>3. CASE phase = "ready"
  BY <1>1, <1>3 DEF Accept, Own, Plain, Reinit
<1>4. CASE phase = "issued" /\ IsRead(queue)
  BY <1>1, <1>4 DEF Accept, Own, Plain, Reinit
<1>5. CASE phase = "issued" /\ ~IsRead(queue)
  <2>1. Advance /\ phase' = "ready" /\ queue' = NoCommand
    BY <1>5 DEF Accept
  <2>2. CASE state = "writeFault"
    <3>1. state' = "faultHold"
      BY <2>1, <2>2, Advances
    <3> QED
      BY <1>1, <1>5, <2>1, <2>2, <3>1 DEF Accept, Plain, Reinit
  <2>3. CASE state # "writeFault"
    BY <1>1, <1>5, <2>1, <2>3 DEF Accept, Own
  <2> QED
    BY <2>2, <2>3
<1> QED
  BY <1>2, <1>3, <1>4, <1>5

\* When an answer is taken, the next state has been reached.
LEMMA AcceptReached ==
  ASSUME Kinds, Own, Calm, LateAck, Reached(state, word, session),
         Reached(queue.cmd, queue.word, queue.session), Accept, UNCHANGED hpsVars
  PROVE  /\ Calm' /\ LateAck' /\ Reached(state, word, session)'
         /\ state' \in Reinit => state \in Reinit
<1>1. ddr' = Effect(queue)
  BY AcceptMoves
<1>2. CASE Plain(queue.cmd) \/ queue.cmd = "readAck"
  <2>1. UNCHANGED Seen
    BY <1>1, <1>2, EffectIs DEF Plain, Reinit, Seen
  <2>2. Calm' /\ LateAck'
    BY <2>1, SeenReached
  <2>3. Plain(state') \/ (UNCHANGED <<state, word, session>>)
    <3>1. CASE ~IsRead(queue) /\ state = queue.cmd /\ Advance
      <4>1. state \in {"poll", "writeFault"}
        <5>1. state # "none" /\ state \notin Reads \ {"poll"}
          BY <3>1 DEF IsRead, Kinds, States, Reads, Reinit
        <5> QED
          BY <1>2, <3>1, <5>1 DEF Kinds, Commands, Plain, Reads
      <4>2. state' \in {"poll", "faultHold"}
        BY <3>1, <4>1, Advances
      <4> QED
        BY <4>2 DEF Plain, Reinit
    <3> QED
      BY <3>1, AcceptMoves
  <2>4. Reached(state, word, session)'
    <3>1. CASE Plain(state')
      BY <3>1, PlainReached DEF Plain
    <3>2. CASE UNCHANGED <<state, word, session>>
      <4>1. PICK s, w, t : s = state /\ w = word /\ t = session
        OBVIOUS
      <4>2. Reached(s, w, t)'
        BY <2>1, <4>1, SeenReached
      <4> QED
        BY <3>2, <4>1, <4>2 DEF Reached, Free, Untouched
    <3> QED
      BY <2>3, <3>1, <3>2
  <2>5. state' \in Reinit => state \in Reinit
    BY <2>3 DEF Plain
  <2> QED
    BY <2>2, <2>4, <2>5
<1>3. CASE ~Plain(queue.cmd) /\ queue.cmd # "readAck"
  <2>1. ~IsRead(queue)
    BY <1>3 DEF IsRead, Plain, Reads, Reinit
  <2>2. Calm' /\ LateAck'
    BY <1>1, <1>3, Prepared
  <2>3. CASE Plain(state')
    BY <2>2, <2>3, PlainReached DEF Plain
  <2>4. CASE /\ state = queue.cmd /\ word = queue.word /\ session = queue.session
             /\ Advance
    <3>1. PICK t, w : t = queue.session /\ w = queue.word
      OBVIOUS
    <3>2. session' = t /\ w \in Nat
      BY <2>4, <3>1, AcceptMoves DEF Kinds
    <3>3. CASE queue.cmd \in {"writeRequest", "writeQuiesce", "config",
                             "clearPolicyAck", "clearPolicyCommit", "writePolicy"}
      <4>1. \E s : state' = s /\ word' = 1 /\ Reached(s, 1, t)'
        <5>1. CASE queue.cmd = "writeRequest"
          <6>1. Reached("writeQuiesce", 1, t)'
            BY <1>1, <1>3, <3>1, <5>1, Prepared
          <6> QED
            BY <2>4, <5>1, <6>1, Advances
        <5>2. CASE queue.cmd = "writeQuiesce"
          <6>1. Reached("readAck", 1, t)'
            BY <1>1, <1>3, <3>1, <5>2, Prepared
          <6> QED
            BY <2>4, <5>2, <6>1, Advances
        <5>3. CASE queue.cmd = "config"
          <6>1. Reached("clearPolicyAck", 1, t)'
            BY <1>1, <1>3, <3>1, <5>3, Prepared
          <6> QED
            BY <2>4, <5>3, <6>1, Advances
        <5>4. CASE queue.cmd = "clearPolicyAck"
          <6>1. Reached("clearPolicyCommit", 1, t)'
            BY <1>1, <1>3, <3>1, <5>4, Prepared
          <6> QED
            BY <2>4, <5>4, <6>1, Advances
        <5>5. CASE queue.cmd = "clearPolicyCommit"
          <6>1. Reached("writePolicy", 1, t)'
            BY <1>1, <1>3, <3>1, <5>5, Prepared
          <6> QED
            BY <2>4, <5>5, <6>1, Advances
        <5>6. CASE queue.cmd = "writePolicy"
          <6>1. Reached("writeMagic", 1, t)'
            BY <1>1, <1>3, <3>1, <5>6, Prepared
          <6> QED
            BY <2>4, <5>6, <6>1, Advances
        <5> QED
          BY <3>3, <5>1, <5>2, <5>3, <5>4, <5>5, <5>6
      <4>2. state \in Reinit \/ state' \notin Reinit
        BY <2>4, <3>3, Advances DEF Reinit
      <4> QED
        BY <2>2, <3>2, <4>1, <4>2 DEF Reached, Free, Untouched
    <3>4. CASE queue.cmd = "clear"
      <4>1. Reached("clear", w + 1, t)' /\ (w = 4 => Reached("config", 4, t)')
        BY <1>1, <1>3, <3>1, <3>4, Prepared
      <4>2. \/ state' = "clear" /\ word' = w + 1
            \/ state' = "config" /\ word' = 4 /\ w = 4
        BY <2>4, <3>1, <3>4, Advances
      <4>3. Reached(state, word, session)'
        BY <3>2, <4>1, <4>2 DEF Reached, Free, Untouched
      <4> QED
        BY <2>2, <2>4, <3>4, <4>3 DEF Reinit
    <3>5. CASE queue.cmd = "writeMagic"
      <4>1. state' = "poll"
        BY <2>4, <3>5, Advances
      <4> QED
        BY <2>3, <4>1 DEF Plain, Reinit
    <3> QED
      BY <1>3, <3>3, <3>4, <3>5 DEF Plain, Reinit
  <2> QED
    BY <2>1, <2>3, <2>4, AcceptMoves
<1> QED
  BY <1>2, <1>3

\* The types of the header, after any command.
LEMMA EffectKinds ==
  ASSUME Kinds, ddr' = Effect(queue)
  PROVE  ddr' \in [magic : Magics, session : Nat, fpgaFault : BOOLEAN,
                   hpsFault : BOOLEAN, service : ServiceStates, accepted : Nat,
                   beat : BOOLEAN, request : Nat, ack : Nat, policy : {ddr'.policy},
                   policyAck : {ddr'.policyAck}]
<1>1. CASE queue.cmd \in {"writeRequest", "writeQuiesce", "config", "writeMagic"}
  BY <1>1, EffectIs DEF Kinds, Magics
<1>2. CASE queue.cmd = "clear"
  <2>1. queue.word \in 1 .. 4 /\ ddr' = Cleared(ClearWords[queue.word])
    BY <1>2, EffectIs DEF Kinds
  <2>2. ClearWords[queue.word] \in {"session", "faults", "service", "beat"}
    BY <2>1, WordsThere
  <2>3. CASE ddr' = [ddr EXCEPT !.session = 0]
    BY <2>3 DEF Kinds
  <2>4. CASE ddr' = [ddr EXCEPT !.fpgaFault = FALSE, !.hpsFault = FALSE]
    BY <2>4 DEF Kinds
  <2>5. CASE ddr' = [ddr EXCEPT !.service = "Offline", !.accepted = 0]
    <3>1. "Offline" \in ServiceStates /\ 0 \in Nat
      BY DEF ServiceStates
    <3> QED
      BY <2>5, <3>1 DEF Kinds
  <2>6. CASE ddr' = [ddr EXCEPT !.beat = FALSE]
    BY <2>6 DEF Kinds
  <2> QED
    BY <2>1, <2>2, <2>3, <2>4, <2>5, <2>6 DEF Cleared
<1>3. CASE queue.cmd \in {"readCounter", "readAck", "none", "policyAck"}
  BY <1>3 DEF Kinds, Effect
<1>4. CASE queue.cmd = "poll"
  <2>1. ddr' = ddr \/ ddr' = [ddr EXCEPT !.beat = FALSE]
    BY <1>4 DEF Effect
  <2> QED
    BY <2>1 DEF Kinds
<1>5. CASE queue.cmd \in {"clearPolicyAck", "clearPolicyCommit", "writePolicy",
                          "writeFault"}
  BY <1>5 DEF Kinds, Effect
<1> QED
  BY <1>1, <1>2, <1>3, <1>4, <1>5 DEF Kinds, Commands, Reads, Reinit

\* An answer that is taken keeps QuietInv.
LEMMA AcceptKeeps ==
  ASSUME QuietInv, Accept, UNCHANGED hpsVars, UNCHANGED video
  PROVE  QuietInv'
<1> USE DEF QuietInv
<1>1. Calm' /\ LateAck' /\ Reached(state, word, session)' /\ ScanoutQuietWhileReinit'
  BY AcceptReached DEF ScanoutQuietWhileReinit
<1>2. /\ (queue' = NoCommand /\ phase' = "ready") \/ IsRead(queue)
      /\ IsRead(queue) => queue.cmd \in Reads
  BY AcceptMoves DEF IsRead, Reads
<1>3. AnswerTrue' /\ Reached(queue.cmd, queue.word, queue.session)'
  <2>1. CASE queue' = NoCommand
    BY <2>1 DEF NoCommand, AnswerTrue, Reached, Reinit
  <2>2. CASE IsRead(queue)
    <3>1. /\ queue'.cmd = queue.cmd /\ queue'.data = Data(queue)
          /\ queue'.session = queue.session /\ queue'.word = queue.word
      BY <2>2, AcceptMoves DEF Kinds
    <3>2. UNCHANGED Seen
      BY <1>2, <2>2, AcceptMoves, EffectIs DEF Reads, Seen
    <3>3. AnswerTrue'
      <4>1. queue.cmd = "readCounter" => Data(queue)[1] = ddr.request
        BY DEF Data
      <4>2. queue.cmd = "readAck" => Data(queue)[1] = ddr.ack
        BY DEF Data
      <4> QED
        BY <3>1, <3>2, <4>1, <4>2 DEF AnswerTrue, Seen
    <3> QED
      BY <3>1, <3>2, <3>3, SeenReached DEF Reached, Free, Untouched
  <2> QED
    BY <1>2, <2>1, <2>2
<1>4. Kinds'
  <2>1. state' \in States /\ word' \in Nat /\ (state' = "clear" => word' \in 1 .. 4)
    <3>1. CASE Advance /\ state = queue.cmd /\ ~IsRead(queue)
      <4>1. state \notin {"wait", "readCounter", "readAck", "policyAck", "faultHold"}
        BY <3>1 DEF Kinds, Commands, IsRead, Reads, Reinit
      <4>2. state \in {"writeRequest", "writeQuiesce", "clear", "config",
                       "clearPolicyAck", "clearPolicyCommit", "writePolicy",
                       "writeMagic", "writeFault", "poll"}
        BY <4>1 DEF Kinds, States, Reads, Reinit
      <4>3. word \in Nat /\ (state = "clear" => word \in 1 .. 4)
        BY DEF Kinds
      <4>4. CASE state = "clear"
        BY <3>1, <4>3, <4>4, Advances DEF States, Reinit
      <4>5. CASE state # "clear"
        BY <3>1, <4>1, <4>2, <4>3, <4>5, Advances DEF States, Reads, Reinit
      <4> QED
        BY <4>4, <4>5
    <3>2. CASE UNCHANGED <<state, word>>
      BY <3>2 DEF Kinds
    <3>3. CASE /\ Plain(state) /\ ~UNCHANGED <<state, word>>
               /\ ~(Advance /\ state = queue.cmd /\ ~IsRead(queue))
      <4>1. Advance /\ state = "writeFault"
        BY <3>3, AcceptMoves DEF Accept, Own
      <4>2. state' = "faultHold" /\ word' = 1
        BY <4>1, Advances
      <4> QED
        BY <4>2 DEF States
    <3> QED
      BY <3>1, <3>2, <3>3, AcceptMoves
  <2>2. queue' \in [cmd : Commands, word : Nat, session : Nat, flag : {queue'.flag},
                    answered : BOOLEAN, data : {queue'.data}]
        /\ (queue'.cmd = "clear" => queue'.word \in 1 .. 4)
    <3>1. CASE queue' = NoCommand
      BY <3>1 DEF NoCommand, Commands
    <3>2. CASE IsRead(queue)
      BY <3>2, AcceptMoves DEF Kinds
    <3> QED
      BY <1>2, <3>1, <3>2
  <2> QED
    BY <2>1, <2>2, EffectKinds, AcceptMoves DEF Kinds, hpsVars
<1>5. Own'
  <2>1. CASE queue' = NoCommand /\ phase' = "ready"
    BY <2>1 DEF Own, NoCommand
  <2>2. CASE IsRead(queue)
    <3>1. /\ queue'.cmd = queue.cmd /\ queue'.answered /\ queue'.word = queue.word
          /\ queue'.session = queue.session /\ queue.cmd # "none"
      BY <2>2, AcceptMoves DEF Kinds
    <3>2. UNCHANGED <<state, word, session>>
      BY <2>2, AcceptMoves
    <3>3. CASE phase = "issued"
      <4>1. phase' = IF state = queue.cmd THEN "waiting" ELSE "ready"
        BY <2>2, <3>3 DEF Accept
      <4> QED
        BY <1>2, <2>2, <3>1, <3>2, <3>3, <4>1 DEF Own, Reads
    <3>4. CASE phase # "issued"
      BY <3>1, <3>2, <3>4, AcceptMoves DEF Accept, Own
    <3> QED
      BY <3>3, <3>4
  <2> QED
    BY <1>2, <2>1, <2>2
<1> QED
  BY <1>1, <1>3, <1>4, <1>5

\* A command that is sent keeps QuietInv.
LEMMA IssueKeeps ==
  ASSUME QuietInv, Issue, UNCHANGED hpsVars, UNCHANGED video
  PROVE  QuietInv'
<1> USE DEF QuietInv
<1>1. /\ queue = NoCommand /\ phase = "ready" /\ state \notin {"wait", "faultHold"}
      /\ phase' = "issued" /\ UNCHANGED <<ddr, state, word, session>>
      /\ queue' = [cmd |-> state, word |-> word, session |-> session, flag |-> policy,
                   answered |-> FALSE, data |-> <<>>]
  BY DEF Issue
<1>2. /\ queue'.cmd = state /\ queue'.word = word /\ queue'.session = session
      /\ ~queue'.answered
  BY <1>1
<1>3. /\ Calm' /\ LateAck' /\ Reached(state, word, session)'
      /\ Reached(queue.cmd, queue.word, queue.session)'
  BY <1>1, <1>2, SeenReached DEF Seen, Reached, Free, Untouched
<1>4. state \in Commands /\ state # "none"
  BY <1>1 DEF Kinds, States, Commands, Reads, Reinit
<1>5. Kinds'
  BY <1>1, <1>4 DEF Kinds, hpsVars
<1>6. Own' /\ AnswerTrue' /\ ScanoutQuietWhileReinit'
  BY <1>1, <1>2, <1>4 DEF Own, AnswerTrue, ScanoutQuietWhileReinit
<1> QED
  BY <1>3, <1>5, <1>6

\* The counter stays a number.
LEMMA NextTokenNat == ASSUME NEW c \in Nat PROVE NextToken(c) \in Nat
  BY DEF NextToken

\* A command that is executed keeps QuietInv.
LEMMA AnswerKeeps ==
  ASSUME QuietInv, NextTokenFree, Answer, UNCHANGED hpsVars, UNCHANGED video
  PROVE  QuietInv'
<1> USE DEF QuietInv
<1>1. queue.answered /\ queue' = NoCommand /\ UNCHANGED ddr
  BY DEF Answer
<1>2. Calm' /\ LateAck'
  BY <1>1, SeenReached DEF Seen
<1>3. AnswerTrue' /\ Reached(queue.cmd, queue.word, queue.session)'
  BY <1>1 DEF NoCommand, AnswerTrue, Reached, Reinit
<1>4. phase' = "ready"
  BY <1>1 DEF Answer, Own
<1>5. Own'
  BY <1>1, <1>4 DEF Own, NoCommand
<1>6. /\ Reached(state, word, session)' /\ ScanoutQuietWhileReinit'
      /\ state' \in States /\ word' \in Nat /\ session' \in Nat
      /\ state' = "clear" => word' \in 1 .. 4
  <2>1. CASE phase # "waiting"
    <3>1. UNCHANGED <<state, word, session>>
      BY <2>1 DEF Answer
    <3> QED
      BY <1>1, <3>1, SeenReached
      DEF Seen, Kinds, ScanoutQuietWhileReinit, Reached, Free, Untouched
  <2>2. CASE phase = "waiting"
    <3>1. /\ queue.cmd = state /\ queue.session = session
          /\ CounterAnswer \/ AckAnswer \/ PolicyAnswer \/ PollAnswer
      BY <2>2 DEF Answer, Own
    <3>2. CASE CounterAnswer
      <4>1. session' = NextToken(ddr.request) /\ state' = "writeRequest"
        BY <1>1, <3>2 DEF CounterAnswer, AnswerTrue
      <4>2. PICK t : t = session'
        OBVIOUS
      <4>3. Free(t)'
        BY <1>1, <3>1, <3>2, <4>1, <4>2 DEF NextTokenFree, Free, hpsVars, CounterAnswer
      <4>4. session' \in Nat /\ word' \in Nat
        BY <3>2, <4>1, NextTokenNat DEF Kinds, CounterAnswer
      <4>5. Reached(state, word, session)'
        BY <4>1, <4>2, <4>3 DEF Reached, Reinit, Free
      <4> QED
        BY <4>1, <4>4, <4>5 DEF Reinit, States, ScanoutQuietWhileReinit
    <3>3. CASE AckAnswer
      <4>1. /\ state = "readAck" /\ word' = 1 /\ session' = session
            /\ state' = "readAck" \/ (state' = "clear" /\ Quiesced)
        BY <3>1, <3>3 DEF AckAnswer
      <4>2. ddr.request = session /\ ddr.session # session /\ ddr.magic = "H3DQ"
        BY <4>1 DEF Reached
      <4>3. CASE state' = "readAck"
        BY <1>1, <4>1, <4>2, <4>3
        DEF Kinds, Reached, Reinit, States, Reads, ScanoutQuietWhileReinit
      <4>4. CASE state' = "clear" /\ Quiesced
        <5>1. ddr.ack = session /\ ~video
          BY <1>1, <3>1, <4>1, <4>2, <4>4 DEF Quiesced, AnswerTrue
        <5>2. Reached(state, word, session)'
          BY <1>1, <4>1, <4>2, <4>4, <5>1 DEF Reached, Reinit
        <5> QED
          BY <4>1, <4>4, <5>1, <5>2
          DEF Kinds, States, Reinit, ScanoutQuietWhileReinit
      <4> QED
        BY <4>1, <4>3, <4>4
    <3>4. CASE PolicyAnswer \/ PollAnswer
      <4>1. state' \in {"poll", "writeFault", "policyAck"} /\ session' = session
        BY <3>1, <3>4 DEF PolicyAnswer, PollAnswer, TakeFault
      <4>2. word' \in Nat
        BY <3>4 DEF PolicyAnswer, PollAnswer, TakeFault, Kinds
      <4> QED
        BY <4>1, <4>2
        DEF Kinds, Reached, Reinit, States, Reads, ScanoutQuietWhileReinit
    <3> QED
      BY <3>1, <3>2, <3>3, <3>4
  <2> QED
    BY <2>1, <2>2
<1>7. Kinds'
  <2>1. queue' \in [cmd : Commands, word : Nat, session : Nat, flag : {queue'.flag},
                    answered : BOOLEAN, data : {queue'.data}]
        /\ queue'.cmd # "clear"
    BY <1>1 DEF NoCommand, Commands
  <2> QED
    BY <1>1, <1>6, <2>1 DEF Kinds, hpsVars
<1> QED
  BY <1>2, <1>3, <1>5, <1>6, <1>7

\* A start, a fault or a reset: the fabric keeps the command, the state machine
\* forgets it.
LEMMA TurnKeeps ==
  ASSUME QuietInv, UNCHANGED <<ddr, queue>>, UNCHANGED hpsVars,
         \/ state' = "wait" /\ phase' = "ready"
         \/ state' = "readCounter" /\ phase = "ready" /\ phase' = "ready"
         \/ /\ state' = "writeFault"
            /\ phase' = IF phase = "waiting" THEN "ready" ELSE phase,
         word' \in Nat, session' \in Nat
  PROVE  QuietInv'
<1> USE DEF QuietInv
<1>1. state' \in {"wait", "readCounter", "writeFault"}
  OBVIOUS
<1>2. Calm' /\ LateAck' /\ Reached(queue.cmd, queue.word, queue.session)'
  BY SeenReached DEF Seen, Reached, Free, Untouched
<1>3. Reached(state, word, session)' /\ ScanoutQuietWhileReinit'
  BY <1>1 DEF Reached, Reinit, ScanoutQuietWhileReinit
<1>4. Kinds' /\ AnswerTrue'
  BY <1>1 DEF Kinds, States, Reads, AnswerTrue, hpsVars
<1>5. Own'
  BY DEF Own
<1> QED
  BY <1>2, <1>3, <1>4, <1>5

\* A step that changes none of what the invariant speaks of, scan-out apart.
LEMMA IdleKeeps ==
  ASSUME QuietInv, UNCHANGED <<ddr, queue, state, word, phase, session>>,
         UNCHANGED hpsVars, state \in Reinit => video' = video \/ ~video'
  PROVE  QuietInv'
<1> USE DEF QuietInv
<1>1. /\ Calm' /\ LateAck' /\ Reached(state, word, session)'
      /\ Reached(queue.cmd, queue.word, queue.session)'
  BY SeenReached DEF Seen, Reached, Free, Untouched
<1>2. Kinds' /\ AnswerTrue' /\ Own' /\ ScanoutQuietWhileReinit'
  BY DEF Kinds, AnswerTrue, Own, ScanoutQuietWhileReinit, hpsVars
<1> QED
  BY <1>1, <1>2

\* A step of the HPS keeps QuietInv.
LEMMA HpsKeeps ==
  ASSUME QuietInv, Quiet \/ Writes \/ AckStore,
         UNCHANGED <<queue, state, word, phase, session, video>>
  PROVE  QuietInv'
<1> USE DEF QuietInv
<1>1. Kinds' /\ AnswerTrue' /\ Calm' /\ LateAck'
  BY HpsKinds, HpsAnswer, HpsCalm
<1>2. Reached(state, word, session)'
  <2>1. PICK s, w, t : s = state /\ w = word /\ t = session
    OBVIOUS
  <2>2. Reached(s, w, t)'
    BY <2>1, HpsReached
  <2> QED
    BY <2>1, <2>2 DEF Reached, Free, Untouched
<1>3. Reached(queue.cmd, queue.word, queue.session)'
  <2>1. PICK s, w, t : s = queue.cmd /\ w = queue.word /\ t = queue.session
    OBVIOUS
  <2>2. Reached(s, w, t)'
    BY <2>1, HpsReached
  <2> QED
    BY <2>1, <2>2 DEF Reached, Free, Untouched
<1>4. Own' /\ ScanoutQuietWhileReinit'
  BY DEF Own, ScanoutQuietWhileReinit
<1> QED
  BY <1>1, <1>2, <1>3, <1>4


-----------------------------------------------------------------------------
(* Tokens                                                                  *)

\* What SessionAssumption says of the numbers.
LEMMA Enough ==
  /\ MaxToken \in Nat /\ MaxTriggers \in Nat /\ MaxToken >= 1
  /\ MaxToken > 2 * MaxTriggers
  BY SessionAssumption

\* The next request puts a token one further behind, unless it comes round.
LEMMA BehindNext ==
  ASSUME NEW r \in Tokens, NEW x \in Tokens, Behind(r, x) + 1 < MaxToken
  PROVE  Behind(NextToken(r), x) = Behind(r, x) + 1 /\ NextToken(r) # x
  BY Enough DEF Tokens, Behind, NextToken

\* A token is not behind itself.
LEMMA BehindNone == ASSUME NEW r \in Tokens PROVE Behind(r, r) = 0
  BY Enough DEF Tokens, Behind

\* The distance is a number.
LEMMA BehindInt == ASSUME NEW r \in Tokens, NEW x \in Tokens PROVE Behind(r, x) \in Nat
  BY Enough DEF Tokens, Behind

\* The next token is another one.
LEMMA NextIsToken ==
  ASSUME NEW r \in 0 .. MaxToken
  PROVE  NextToken(r) \in Tokens /\ (MaxToken > 1 => NextToken(r) # r)
  BY Enough DEF Tokens, NextToken

\* There is one number of sessions due.
LEMMA DueUnique == ASSUME NEW d, NEW e, IsDue(d), IsDue(e) PROVE d = e
  BY DEF IsDue

\* There are three reasons at most for a session.
LEMMA DueAtLeast ==
  ASSUME NEW d, IsDue(d)
  PROVE  d \in 0 .. 3 /\ (state = "readCounter" \/ queue.cmd = "writeRequest" => d >= 1)
  BY DEF IsDue

\* An old token is not the next one.
LEMMA NotTheNext ==
  ASSUME Numbers, Counted, NEW d, IsDue(d), d >= 1, NEW x \in Tokens, InUse(x)
  PROVE  /\ NextToken(ddr.request) # x
         /\ Behind(NextToken(ddr.request), x) = Behind(ddr.request, x) + 1
<1>1. ddr.request \in Tokens
  BY DEF Numbers, InUse, Tokens
<1>2. Behind(ddr.request, x) \in Nat /\ Behind(ddr.request, x) + d <= triggers
  BY <1>1, BehindInt, DueUnique DEF Counted
<1>3. Behind(ddr.request, x) + 1 < MaxToken
  BY <1>2, Enough, DueAtLeast DEF Numbers
<1> QED
  BY <1>1, <1>3, BehindNext

\* Tokens that are counted do not come round.
LEMMA NextIsFree ==
  ASSUME Numbers, Counted
  PROVE  NextTokenFree
<1> SUFFICES ASSUME state = "readCounter" PROVE Free(NextToken(ddr.request))
  BY DEF NextTokenFree
<1>1. PICK d \in 0 .. 3 : IsDue(d) /\ d <= triggers
  BY DEF Counted
<1>2. d >= 1 /\ MaxToken > 1
  BY <1>1, DueAtLeast, Enough DEF Numbers
<1>3. NextToken(ddr.request) \in Tokens /\ NextToken(ddr.request) # ddr.request
  BY <1>2, NextIsToken DEF Numbers
<1>4. \A x \in Tokens : InUse(x) => NextToken(ddr.request) # x
  BY <1>1, <1>2, NotTheNext
<1>5. 0 \notin Tokens /\ \A x \in 0 .. MaxToken : x = 0 \/ x \in Tokens
  BY Enough DEF Tokens
<1> QED
  BY <1>3, <1>4, <1>5 DEF Free, InUse, Numbers

\* Arithmetic of the count.
LEMMA StillFits ==
  ASSUME NEW b \in Nat, NEW d \in Nat, NEW e \in Nat, NEW t \in Nat, NEW u \in Nat,
         e + t <= d + u, b + d <= t
  PROVE  b + e <= u
  OBVIOUS

\* While the header keeps its tokens and no session more is due than is asked for.
LEMMA SameTokens ==
  ASSUME Numbers, Counted, NEW d, IsDue(d), NEW e \in 0 .. 3, IsDue(e)',
         triggers' \in 0 .. MaxTriggers, e + triggers <= d + triggers',
         ddr'.request = ddr.request, ddr'.ack = ddr.ack, ddr'.session = ddr.session,
         pc' = pc, token' = token, restartPending' \in BOOLEAN,
         serviceRestart' \in BOOLEAN,
         state' \notin {"wait", "writeFault", "faultHold"} => triggers' > 0
  PROVE  Numbers' /\ Counted'
<1>1. Numbers'
  BY DEF Numbers
<1>2. d \in Nat /\ e \in Nat /\ triggers \in Nat /\ triggers' \in Nat
  BY DueAtLeast, Enough DEF Numbers
<1>3. \A b \in Nat : b + d <= triggers => b + e <= triggers'
  BY <1>2, StillFits
<1>4. d <= triggers /\ e <= triggers'
  BY <1>2, DueUnique DEF Counted
<1>5. ASSUME NEW x \in Tokens, InUse(x)'
      PROVE  Behind(ddr'.request, x) + e <= triggers'
  <2>1. InUse(x)
    BY <1>5 DEF InUse
  <2>2. ddr.request \in Tokens
    BY <2>1 DEF Numbers, InUse, Tokens
  <2>3. Behind(ddr.request, x) \in Nat /\ Behind(ddr.request, x) + d <= triggers
    BY <2>1, <2>2, BehindInt, DueUnique DEF Counted
  <2> QED
    BY <1>3, <2>3
<1> QED
  BY <1>1, <1>4, <1>5 DEF Counted

\* A command that is sent keeps TokenInv.
LEMMA IssueTokens ==
  ASSUME QuietInv, TokenInv, Issue, UNCHANGED hpsVars, UNCHANGED triggers
  PROVE  TokenInv'
<1> USE DEF TokenInv
<1>1. /\ queue.cmd = "none" /\ queue'.cmd = state /\ queue'.session = session
      /\ phase = "ready" /\ phase' = "issued" /\ state \notin {"wait", "faultHold"}
      /\ UNCHANGED <<ddr, state, session, restartPending, serviceRestart>>
  BY DEF Issue, NoCommand
<1>2. PICK d \in 0 .. 3 : IsDue(d) /\ d <= triggers
  BY DEF Counted
<1>3. IsDue(d)'
  BY <1>1, <1>2 DEF IsDue, Restarting
<1>4. Numbers' /\ Counted'
  BY <1>1, <1>2, <1>3, SameTokens DEF Numbers, Counted, hpsVars
<1>5. Newest'
  BY <1>1 DEF Newest
<1> QED
  BY <1>4, <1>5

\* A start is due no longer, but begun.
LEMMA StartTokens ==
  ASSUME QuietInv, TokenInv, Start, UNCHANGED hpsVars, UNCHANGED triggers
  PROVE  TokenInv'
<1> USE DEF TokenInv
<1>1. /\ Restarting /\ ~restartPending' /\ ~serviceRestart' /\ phase = "ready"
      /\ phase' = "ready" /\ state \in {"wait", "poll", "policyAck", "faultHold"}
      /\ state' = "readCounter" /\ UNCHANGED <<ddr, queue, session>>
      /\ restartPending' \in BOOLEAN /\ serviceRestart' \in BOOLEAN
  BY DEF Start
<1>2. PICK d \in 0 .. 3 : IsDue(d) /\ d <= triggers
  BY DEF Counted
<1>3. IsDue(d)'
  BY <1>1, <1>2 DEF IsDue, Restarting
<1>4. d >= 1
  BY <1>1, <1>2 DEF IsDue
<1>5. triggers > 0
  BY <1>2, <1>4 DEF Numbers
<1>6. Numbers' /\ Counted'
  BY <1>1, <1>2, <1>3, <1>5, SameTokens DEF Numbers, hpsVars
<1>7. Newest'
  BY <1>1 DEF Newest
<1> QED
  BY <1>6, <1>7

\* A fault or a reset.
LEMMA DropTokens ==
  ASSUME QuietInv, TokenInv, UNCHANGED <<ddr, queue>>, UNCHANGED hpsVars,
         UNCHANGED triggers, state' \in {"wait", "writeFault"},
         restartPending' \in BOOLEAN /\ (restartPending' => restartPending),
         serviceRestart' \in BOOLEAN /\ (serviceRestart' => serviceRestart)
  PROVE  TokenInv'
<1> USE DEF TokenInv
<1>1. PICK d \in 0 .. 3 : IsDue(d) /\ d <= triggers
  BY DEF Counted
<1>2. PICK e \in 0 .. 3 :
        e = (IF restartPending' \/ serviceRestart' THEN 1 ELSE 0)
              + (IF queue.cmd = "writeRequest" THEN 1 ELSE 0)
  OBVIOUS
<1>3. IsDue(e)'
  BY <1>2 DEF IsDue, Restarting
<1>4. e <= d
  BY <1>1, <1>2 DEF IsDue, Restarting
<1>5. e + triggers <= d + triggers /\ triggers \in 0 .. MaxTriggers
  BY <1>1, <1>4, Enough DEF Numbers
<1>6. Numbers' /\ Counted'
  BY <1>1, <1>3, <1>5, SameTokens DEF hpsVars
<1>7. Newest'
  BY DEF Newest
<1> QED
  BY <1>6, <1>7

\* A load or reset keeps TokenInv.
LEMMA TriggerTokens ==
  ASSUME QuietInv, TokenInv, Trigger
  PROVE  TokenInv'
<1> USE DEF TokenInv
<1>1. /\ triggers' = triggers + 1 /\ triggers < MaxTriggers /\ restartPending' = TRUE
      /\ UNCHANGED <<ddr, queue, state, phase, session, serviceRestart, hpsVars>>
  BY DEF Trigger
<1>2. PICK d \in 0 .. 3 : IsDue(d) /\ d <= triggers
  BY DEF Counted
<1>3. PICK e \in 0 .. 3 :
        e = 1 + (IF \/ state = "readCounter"
                    \/ state = "writeRequest" /\ phase = "ready" THEN 1 ELSE 0)
              + (IF queue.cmd = "writeRequest" THEN 1 ELSE 0)
  OBVIOUS
<1>4. IsDue(e)'
  BY <1>1, <1>3 DEF IsDue, Restarting
<1>5. e <= d + 1
  BY <1>2, <1>3 DEF IsDue
<1>6. triggers' \in 0 .. MaxTriggers /\ triggers' > 0 /\ e + triggers <= d + triggers'
  BY <1>1, <1>2, <1>3, <1>5, Enough DEF Numbers
<1>7. Numbers' /\ Counted'
  BY <1>1, <1>2, <1>4, <1>6, SameTokens DEF Numbers, hpsVars
<1>8. Newest'
  BY <1>1 DEF Newest
<1> QED
  BY <1>7, <1>8

\* What leaves FPGA, header and triggers alone keeps TokenInv.
LEMMA IdleTokens ==
  ASSUME QuietInv, TokenInv,
         UNCHANGED <<ddr, queue, state, phase, session>>,
         UNCHANGED <<restartPending, serviceRestart, triggers>>, UNCHANGED hpsVars
  PROVE  TokenInv'
  BY DEF TokenInv, Numbers, Newest, Counted, IsDue, Restarting, InUse, hpsVars

\* The HPS makes a token out of date by acknowledging a newer one, and takes no token
\* but the newest.
LEMMA HpsTokens ==
  ASSUME QuietInv, TokenInv, Quiet \/ Writes \/ AckStore,
         UNCHANGED <<queue, state, phase, session, restartPending, serviceRestart,
                     triggers>>
  PROVE  TokenInv'
<1> USE DEF TokenInv
<1>1. ddr'.request = ddr.request /\ ddr'.session = ddr.session
  BY WritesFrame, AckFrame DEF Quiet, QuietInv
<1>2. /\ \/ ddr'.ack = ddr.ack
         \/ pc = "ackStore" /\ pc' = "magic" /\ ddr'.ack = token
      /\ pc' = "ackStore" =>
           /\ pc = "ackRequest" /\ token' = ddr.request /\ ddr.ack # ddr.request
           /\ ddr.request # 0 /\ UNCHANGED ddr
  <2>1. CASE Looks
    <3>1. pc' = "ackStore" => AckRequest /\ ddr.request # 0
      <4>1. pc' = "ackStore" => pc = "ackRequest"
        BY <2>1, LooksFrame DEF QuietInv
      <4>2. pc = "ackRequest" => AckRequest
        BY <2>1 DEF Looks, ReadMagic, ReadRequest, ReadOwner, ReadState, ReadAccepted,
          AckMagic, AskState, CheckBegin, CheckEnd, InitSession, ReadEpoch, ReadPolicy,
          InitConsumer, CheckPolicy, Polled
      <4>3. AckRequest /\ pc' = "ackStore" => ddr.request # 0
        BY DEF AckRequest, Inspect
      <4> QED
        BY <4>1, <4>2, <4>3
    <3> QED
      BY <2>1, <3>1, LooksFrame DEF QuietInv
  <2>2. CASE (ServiceFails \/ HpsStarts \/ HpsDies) /\ UNCHANGED ddr
    BY <2>2 DEF ServiceFails, HpsStarts, HpsDies, Check, Inspect
  <2> QED
    BY <2>1, <2>2, WritesFrame, AckFrame DEF Quiet, QuietInv
<1>3. \A d : IsDue(d) => IsDue(d)'
  BY DEF IsDue, Restarting
<1>4. Numbers'
  BY <1>1, <1>2, Enough DEF Numbers, Tokens
<1>5. Newest'
  BY <1>1, <1>2 DEF Newest, Numbers
<1>6. \A x \in Tokens : InUse(x)' => InUse(x) \/ x = ddr.request
  BY <1>1, <1>2 DEF InUse
<1>7. PICK d \in 0 .. 3 :
        /\ IsDue(d) /\ d <= triggers
        /\ \A x \in Tokens : InUse(x) => Behind(ddr.request, x) + d <= triggers
  BY DEF Counted
<1>8. \A x \in Tokens : InUse(x)' => Behind(ddr'.request, x) + d <= triggers'
  <2>1. ASSUME NEW x \in Tokens, x = ddr.request
        PROVE  Behind(ddr.request, x) + d <= triggers
    BY <1>7, <2>1, BehindNone
  <2> QED
    BY <1>1, <1>6, <1>7, <2>1
<1> QED
  BY <1>3, <1>4, <1>5, <1>7, <1>8 DEF Counted

\* A command that is executed keeps TokenInv.
LEMMA AnswerTokens ==
  ASSUME QuietInv, TokenInv, Answer, UNCHANGED hpsVars, UNCHANGED triggers
  PROVE  TokenInv'
<1> USE DEF TokenInv
<1>1. /\ queue.answered /\ queue'.cmd = "none" /\ UNCHANGED <<ddr, restartPending>>
      /\ phase' = "ready"
  BY DEF Answer, NoCommand, QuietInv, Own
<1>2. PICK d \in 0 .. 3 : IsDue(d) /\ d <= triggers
  BY DEF Counted
<1>3. triggers \in Nat /\ triggers \in 0 .. MaxTriggers
  BY Enough DEF Numbers
<1>4. CASE phase # "waiting" \/ CounterAnswer \/ AckAnswer
  <2>1. /\ UNCHANGED serviceRestart
        /\ \/ UNCHANGED <<state, session>> /\ phase = "ready"
           \/ /\ state = "readCounter" /\ state' = "writeRequest"
              /\ session' = NextToken(ddr.request)
           \/ state = "readAck" /\ state' \in {"readAck", "clear"} /\ UNCHANGED session
    BY <1>1, <1>4
    DEF Answer, CounterAnswer, AckAnswer, QuietInv, Own, AnswerTrue, PolicyAnswer,
        PollAnswer
  <2>2. PICK e \in 0 .. 3 :
          e = (IF Restarting THEN 1 ELSE 0)
                + (IF \/ state = "readCounter"
                      \/ state = "writeRequest" /\ phase = "ready" THEN 1 ELSE 0)
    OBVIOUS
  <2>3. IsDue(e)' /\ e <= d
    BY <1>1, <1>2, <2>1, <2>2 DEF IsDue, Restarting
  <2>4. e + triggers <= d + triggers
    BY <1>3, <2>3
  <2>5. state' \notin {"wait", "writeFault", "faultHold"} => triggers > 0
    BY <2>1 DEF Counted
  <2>6. Numbers' /\ Counted'
    BY <1>1, <1>2, <1>3, <2>1, <2>3, <2>4, <2>5, SameTokens DEF Numbers, hpsVars
  <2>7. Newest'
    BY <1>1, <2>1 DEF Newest
  <2> QED
    BY <2>6, <2>7
<1>5. CASE phase = "waiting" /\ (PolicyAnswer \/ PollAnswer)
  <2>1. /\ state \in {"poll", "policyAck"} /\ session' = session
        /\ state' \in {"poll", "writeFault", "policyAck"}
    BY <1>1, <1>5 DEF QuietInv, Own, PolicyAnswer, PollAnswer, TakeFault
  <2>2. serviceRestart' \in BOOLEAN
    BY <1>5 DEF PolicyAnswer, PollAnswer, Numbers
  <2>3. /\ ddr.ack = ddr.request /\ ddr.session = ddr.request /\ pc # "ackStore"
        /\ triggers > 0 /\ ddr.request \in Tokens
    BY <2>1, Enough DEF Newest, Numbers, Counted, Tokens
  <2>4. PICK e \in 0 .. 1 : e = IF restartPending' \/ serviceRestart' THEN 1 ELSE 0
    OBVIOUS
  <2>5. IsDue(e)'
    BY <1>1, <2>1, <2>4 DEF IsDue, Restarting
  <2>6. Numbers' /\ Newest'
    BY <1>1, <2>1, <2>2, <2>3 DEF Numbers, Newest, hpsVars
  <2>7. \A x \in Tokens : InUse(x)' => Behind(ddr'.request, x) + e <= triggers'
    <3>1. e <= triggers
      BY <1>3, <2>3, <2>4
    <3>2. \A x \in Tokens : InUse(x)' => x = ddr.request
      BY <1>1, <2>3 DEF InUse, hpsVars
    <3>3. Behind(ddr.request, ddr.request) + e <= triggers
      BY <1>3, <2>3, <3>1, BehindNone
    <3> QED
      BY <1>1, <3>2, <3>3
  <2>8. e \in 0 .. 3 /\ e <= triggers'
    BY <1>3, <2>3, <2>4
  <2> QED
    BY <2>3, <2>5, <2>6, <2>7, <2>8 DEF Counted
<1> QED
  BY <1>4, <1>5 DEF Answer

\* Where the state machine goes when the fabric takes a command: on, if it waited for
\* that, and nowhere if it did not or if it waits for an answer.
LEMMA AcceptTurns ==
  ASSUME QuietInv, Accept
  PROVE  \/ /\ state' = state
            /\ state \in {"wait", "readCounter", "writeFault", "faultHold"} \cup Reads
         \/ state = "writeFault" /\ state' = "faultHold"
         \/ /\ state = queue.cmd /\ ~IsRead(queue) /\ phase = "issued"
            /\ state = "writeRequest" => state' = "writeQuiesce"
            /\ state = "writeQuiesce" => state' = "readAck"
            /\ state \in Reinit =>
                 state' \in Reinit \/ (state = "writeMagic" /\ state' = "poll")
            /\ state \in {"writeRequest", "writeQuiesce", "poll"} \cup Reinit
            /\ state = "poll" => state' = "poll"
<1> USE DEF QuietInv
<1>1. queue.cmd # "none" /\ queue.cmd \in Commands
  BY AcceptMoves DEF Kinds
<1>2. CASE phase # "issued"
  BY <1>1, <1>2, AcceptMoves DEF Own, Accept
<1>3. CASE phase = "issued" /\ IsRead(queue)
  BY <1>3, AcceptMoves DEF Own, IsRead, Reads
<1>4. CASE phase = "issued" /\ ~IsRead(queue)
  <2>1. Advance
    BY <1>4 DEF Accept
  <2>2. CASE state = "writeFault"
    BY <2>1, <2>2, Advances
  <2>3. CASE state # "writeFault"
    <3>1. state = queue.cmd
      BY <1>4, <2>3 DEF Own
    <3>2. state \in {"writeRequest", "writeQuiesce", "poll"} \cup Reinit
      BY <1>1, <1>4, <2>3, <3>1 DEF Commands, IsRead, Reads
    <3>3. state \notin {"wait", "readCounter", "readAck", "policyAck", "faultHold"}
      BY <3>2 DEF Reinit
    <3>4. state \in Reinit =>
            state' \in Reinit \/ (state = "writeMagic" /\ state' = "poll")
      BY <2>1, <3>3, Advances DEF Reinit
    <3> QED
      BY <1>4, <2>1, <3>1, <3>2, <3>3, <3>4, Advances
  <2> QED
    BY <2>2, <2>3
<1> QED
  BY <1>2, <1>3, <1>4

\* An answer that is taken keeps TokenInv.
LEMMA AcceptTokens ==
  ASSUME QuietInv, TokenInv, Accept, UNCHANGED hpsVars, UNCHANGED triggers
  PROVE  TokenInv'
<1> USE DEF TokenInv
<1>1. /\ queue.cmd # "none" /\ ddr' = Effect(queue)
      /\ UNCHANGED <<session, restartPending, serviceRestart>>
      /\ phase \in {"ready", "issued"}
  BY AcceptMoves DEF Accept, QuietInv, Own
<1>2. queue'.cmd = "none" \/ (queue'.cmd = queue.cmd /\ IsRead(queue))
  <2>1. CASE IsRead(queue)
    BY <2>1, AcceptMoves DEF QuietInv, Kinds
  <2>2. CASE ~IsRead(queue)
    BY <2>2, AcceptMoves DEF QuietInv, NoCommand
  <2> QED
    BY <2>1, <2>2
<1>3. queue'.cmd # "writeRequest"
  BY <1>2 DEF IsRead, Reads
<1>4. /\ state = "readCounter" <=> state' = "readCounter"
      /\ state = "writeRequest" =>
           queue.cmd = "writeRequest" /\ phase = "issued" /\ state' = "writeQuiesce"
      /\ state' # "writeRequest"
      /\ state' \notin {"wait", "writeFault", "faultHold"} =>
           state \notin {"wait", "writeFault", "faultHold"}
      /\ state' \in {"poll", "policyAck"} =>
           \/ state' = state
           \/ state = "writeMagic" /\ queue.cmd = state
      /\ state' \notin {"wait", "readCounter", "writeRequest", "writeFault",
                         "faultHold"} =>
           state \notin {"wait", "readCounter", "writeFault", "faultHold"}
  BY AcceptTurns DEF Reads, Reinit
<1>5. PICK d \in 0 .. 3 :
        /\ IsDue(d) /\ d <= triggers
        /\ \A x \in Tokens : InUse(x) => Behind(ddr.request, x) + d <= triggers
  BY DEF Counted
<1>6. triggers \in Nat /\ triggers \in 0 .. MaxTriggers
  BY Enough DEF Numbers
<1>7. CASE queue.cmd = "writeRequest"
  <2>1. /\ ddr'.request = NextToken(ddr.request) /\ ddr'.ack = ddr.ack
        /\ ddr'.session = ddr.session
    BY <1>1, <1>7, EffectIs DEF QuietInv, Kinds, Newest
  <2>2. d >= 1
    BY <1>5, <1>7, DueAtLeast
  <2>3. PICK e \in 0 .. 3 : d = e + 1
    BY <2>2
  <2>4. IsDue(e)'
    BY <1>1, <1>3, <1>4, <1>5, <1>7, <2>3 DEF IsDue, Restarting, QuietInv, Own
  <2>5. NextToken(ddr.request) \in Tokens /\ 0 \notin Tokens
        /\ NextToken(ddr.request) \in 0 .. MaxToken
    BY NextIsToken, Enough DEF Numbers, Tokens
  <2>6. \A x \in Tokens : InUse(x)' <=> InUse(x)
    BY <2>1 DEF InUse, hpsVars
  <2>7. ASSUME NEW x \in Tokens, InUse(x)
        PROVE  /\ Behind(ddr'.request, x) + e <= triggers
               /\ ddr'.request # x
    <3>1. /\ ddr'.request # x
          /\ Behind(ddr'.request, x) = Behind(ddr.request, x) + 1
      BY <1>5, <2>1, <2>2, <2>7, NotTheNext
    <3>2. Behind(ddr.request, x) \in Nat /\ Behind(ddr.request, x) + d <= triggers
      <4>1. ddr.request \in Tokens
        BY <2>7 DEF Numbers, InUse, Tokens
      <4> QED
        BY <1>5, <2>7, <4>1, BehindInt
    <3> QED
      BY <1>6, <2>3, <3>1, <3>2
  <2>8. Numbers'
    <3>1. pc = "ackStore" => ddr.ack # NextToken(ddr.request)
      BY <2>1, <2>5, <2>7 DEF InUse, Numbers, Tokens
    <3> QED
      BY <1>1, <2>1, <2>5, <3>1 DEF Numbers, hpsVars
  <2>9. Newest'
    <3>1. state' \notin {"poll", "policyAck"}
      <4>1. CASE phase = "issued"
        BY <1>3, <1>7, <4>1, AcceptTurns DEF QuietInv, Own, Reinit
      <4>2. CASE phase = "ready"
        BY <1>7, <4>2, AcceptTurns DEF QuietInv, Own, IsRead, Reads
      <4> QED
        BY <1>1, <4>1, <4>2
    <3>2. ddr'.request # 0
      BY <2>1, <2>5
    <3> QED
      BY <1>3, <1>4, <3>1, <3>2 DEF Newest
  <2>10. e <= triggers
    BY <1>5, <1>6, <2>3
  <2> QED
    BY <1>4, <2>4, <2>6, <2>7, <2>8, <2>9, <2>10 DEF Counted
<1>8. CASE queue.cmd # "writeRequest"
  <2>1. IsDue(d)'
    BY <1>1, <1>3, <1>4, <1>5, <1>8 DEF IsDue, Restarting
  <2>2. /\ ddr'.request = ddr.request /\ ddr'.ack = ddr.ack
        /\ ddr'.session \in {ddr.session, ddr.request, 0}
        /\ queue.cmd \notin Reinit => ddr'.session = ddr.session
    <3>1. CASE queue.cmd = "config"
      BY <1>1, <3>1, EffectIs DEF QuietInv, Kinds, Reached, Reinit
    <3>2. CASE queue.cmd = "clear"
      <4>1. queue.word \in 1 .. 4 /\ ddr' = Cleared(ClearWords[queue.word])
        BY <1>1, <3>2, EffectIs DEF QuietInv, Kinds
      <4>2. ClearWords[queue.word] \in {"session", "faults", "service", "beat"}
        BY <4>1, WordsThere
      <4> QED
        BY <3>2, <4>1, <4>2 DEF Cleared, QuietInv, Kinds, Reinit
    <3>3. CASE queue.cmd \in {"writeQuiesce", "writeMagic"}
      BY <1>1, <3>3, EffectIs DEF QuietInv, Kinds
    <3>4. CASE queue.cmd \notin {"config", "clear", "writeQuiesce", "writeMagic"}
      BY <1>1, <1>8, <3>4, EffectIs DEF QuietInv, Seen
    <3> QED
      BY <3>1, <3>2, <3>3, <3>4
  <2>3. Numbers'
    BY <1>1, <2>2, Enough DEF Numbers, hpsVars
  <2>4. Newest'
    <3>1. state' \in {"poll", "policyAck"} =>
            ddr'.ack = ddr'.request /\ ddr'.session = ddr'.request
      <4> SUFFICES ASSUME state' \in {"poll", "policyAck"}
                   PROVE  ddr'.ack = ddr'.request /\ ddr'.session = ddr'.request
        OBVIOUS
      <4>1. CASE state' = state
        <5>1. ddr.ack = ddr.request /\ ddr.session = ddr.request
          BY <4>1 DEF Newest
        <5> QED
          BY <1>1, <4>1, <5>1, <2>2 DEF QuietInv, Own, Reinit
      <4>2. CASE state = "writeMagic" /\ queue.cmd = "writeMagic"
        <5>1. /\ ddr.request = session /\ ddr.ack = session /\ ddr.session = session
          BY <4>2 DEF QuietInv, Reached, Reinit
        <5> QED
          BY <1>1, <4>2, <5>1, EffectIs DEF QuietInv, Kinds
      <4> QED
        BY <1>4, <4>1, <4>2
    <3> QED
      BY <1>3, <1>4, <1>8, <2>2, <3>1 DEF Newest
  <2>5. \A x \in Tokens : InUse(x)' => InUse(x) \/ x = ddr.request
    BY <2>2 DEF InUse, hpsVars
  <2>6. ASSUME NEW x \in Tokens, x = ddr.request
        PROVE  Behind(ddr.request, x) + d <= triggers
    BY <1>5, <1>6, <2>6, BehindNone
  <2>7. \A x \in Tokens : InUse(x)' => Behind(ddr'.request, x) + d <= triggers'
    BY <1>5, <2>2, <2>5, <2>6
  <2> QED
    BY <1>4, <1>5, <2>1, <2>3, <2>4, <2>7 DEF Counted
<1> QED
  BY <1>7, <1>8
-----------------------------------------------------------------------------
(* The theorems                                                            *)

\* Every step keeps QuietInv, provided that the next token is free.
LEMMA StepKeeps ==
  ASSUME QuietInv, NextTokenFree, [Next]_vars
  PROVE  QuietInv'
<1>1. CASE FpgaStep
  <2>1. CASE Start
    <3>1. /\ state' = "readCounter" /\ phase = "ready" /\ phase' = "ready" /\ word' = 1
          /\ UNCHANGED <<ddr, queue, session, hpsVars>>
      BY <1>1, <2>1 DEF FpgaStep, Start
    <3>2. session' \in Nat
      BY <3>1 DEF QuietInv, Kinds
    <3> QED
      BY <3>1, <3>2, TurnKeeps
  <2> QED
    BY <1>1, <2>1, IssueKeeps, AcceptKeeps, AnswerKeeps DEF FpgaStep, Fpga
<1>2. CASE TimeoutStep \/ (Mishap /\ ExternalFault /\ UNCHANGED hpsVars)
  <2>1. /\ UNCHANGED <<ddr, queue, word, session, hpsVars>> /\ state' = "writeFault"
        /\ phase' = IF phase = "waiting" THEN "ready" ELSE phase
    BY <1>2 DEF TimeoutStep, HeartbeatTimeout, ExternalFault, TakeFault
  <2>2. word' \in Nat /\ session' \in Nat
    BY <2>1 DEF QuietInv, Kinds
  <2> QED
    BY <2>1, <2>2, TurnKeeps
<1>3. CASE Mishap /\ BridgeReset /\ UNCHANGED <<ddr, queue, hpsVars>>
  BY <1>3, TurnKeeps DEF BridgeReset
<1>4. CASE HpsStep \/ StartStep
           \/ /\ Mishap /\ (ServiceFails \/ HpsDies)
              /\ UNCHANGED <<ddr, queue, fpgaVars>>
  <2>1. UNCHANGED <<queue, state, word, phase, session, video>>
    BY <1>4 DEF HpsStep, StartStep, Mishap, fpgaVars
  <2>2. Hps => Quiet \/ Writes \/ AckStore
    BY QuietInv, LooksFrame DEF QuietInv, Hps, Quiet, Looks, Writes
  <2>3. Quiet \/ Writes \/ AckStore
    <3>1. CASE HpsStep
      BY <2>2, <3>1 DEF HpsStep
    <3>2. CASE StartStep
      BY <3>2 DEF StartStep, Quiet
    <3>3. CASE (ServiceFails \/ HpsDies) /\ UNCHANGED ddr
      BY <3>3 DEF Quiet
    <3> QED
      BY <1>4, <3>1, <3>2, <3>3
  <2> QED
    BY <2>1, <2>3, HpsKeeps
<1>5. CASE Trigger \/ Scanout \/ UNCHANGED vars
  <2>1. UNCHANGED <<ddr, queue, state, word, phase, session, hpsVars>>
    BY <1>5 DEF Trigger, Scanout, vars, fpgaVars
  <2>2. state \in Reinit => video' = video \/ ~video'
    BY <1>5 DEF Trigger, Scanout, vars, Released, Initialized, Reinit
  <2> QED
    BY <2>1, <2>2, IdleKeeps
<1> QED
  BY <1>1, <1>2, <1>3, <1>4, <1>5 DEF Next, Mishap

\* Every step keeps TokenInv.
LEMMA StepTokens ==
  ASSUME QuietInv, TokenInv, [Next]_vars
  PROVE  TokenInv'
<1>1. CASE FpgaStep
  BY <1>1, IssueTokens, AcceptTokens, AnswerTokens, StartTokens DEF FpgaStep, Fpga
<1>2. CASE TimeoutStep \/ (Mishap /\ ExternalFault /\ UNCHANGED hpsVars)
  <2>1. /\ UNCHANGED <<ddr, queue, restartPending, serviceRestart, triggers, hpsVars>>
        /\ state' = "writeFault"
    BY <1>2 DEF TimeoutStep, HeartbeatTimeout, Mishap, ExternalFault, TakeFault
  <2>2. restartPending \in BOOLEAN /\ serviceRestart \in BOOLEAN
    BY DEF TokenInv, Numbers
  <2> QED
    BY <2>1, <2>2, DropTokens
<1>3. CASE Mishap /\ BridgeReset /\ UNCHANGED <<ddr, queue, hpsVars>>
  BY <1>3, DropTokens DEF BridgeReset, Mishap
<1>4. CASE HpsStep \/ StartStep
           \/ /\ Mishap /\ (ServiceFails \/ HpsDies)
              /\ UNCHANGED <<ddr, queue, fpgaVars>>
  <2>1. UNCHANGED <<queue, state, phase, session, restartPending, serviceRestart,
                    triggers>>
    BY <1>4 DEF HpsStep, StartStep, Mishap, fpgaVars
  <2>2. Hps => Quiet \/ Writes \/ AckStore
    BY LooksFrame DEF QuietInv, Hps, Quiet, Looks, Writes
  <2>3. Quiet \/ Writes \/ AckStore
    <3>1. CASE HpsStep
      BY <2>2, <3>1 DEF HpsStep
    <3>2. CASE StartStep
      BY <3>2 DEF StartStep, Quiet
    <3>3. CASE (ServiceFails \/ HpsDies) /\ UNCHANGED ddr
      BY <3>3 DEF Quiet
    <3> QED
      BY <1>4, <3>1, <3>2, <3>3
  <2> QED
    BY <2>1, <2>3, HpsTokens
<1>5. CASE Trigger
  BY <1>5, TriggerTokens
<1>6. CASE Scanout \/ UNCHANGED vars
  BY <1>6, IdleTokens DEF Scanout, vars, fpgaVars
<1> QED
  BY <1>1, <1>2, <1>3, <1>4, <1>5, <1>6 DEF Next, Mishap

\* QuietInv holds at first.
LEMMA InitQuiet ==
  ASSUME Init
  PROVE  QuietInv
<1>1. MaxToken \in Nat
  BY SessionAssumption
<1>2. Kinds
  BY <1>1 DEF Init, Kinds, NoCommand, Commands, States, Magics, ServiceStates, Reasons,
              Reads, Reinit
<1>3. Own /\ AnswerTrue /\ ScanoutQuietWhileReinit
  BY DEF Init, Own, NoCommand, AnswerTrue, ScanoutQuietWhileReinit, Reinit
<1>4. /\ Reached(state, word, session)
      /\ Reached(queue.cmd, queue.word, queue.session)
  BY DEF Init, Reached, NoCommand, Reinit
<1>5. Calm /\ LateAck
  BY DEF Init, Calm, LateAck, Granted, Unaware
<1> QED
  BY <1>2, <1>3, <1>4, <1>5 DEF QuietInv

\* TokenInv holds at first.
LEMMA InitTokens ==
  ASSUME Init
  PROVE  TokenInv
<1>1. PICK old \in {0, MaxToken} :
        ddr.request = old /\ ddr.ack = old /\ ddr.session = 0
  BY DEF Init
<1>2. Numbers
  <2>1. 0 \in 0 .. MaxTriggers /\ 0 \in 0 .. MaxToken /\ MaxToken \in 0 .. MaxToken
    BY Enough
  <2>2. triggers = 0 /\ pc = "down" /\ restartPending = FALSE /\ serviceRestart = FALSE
    BY DEF Init
  <2> QED
    BY <1>1, <2>1, <2>2 DEF Numbers
<1>3. Newest
  BY DEF Init, Newest, NoCommand
<1>4. IsDue(0)
  BY DEF Init, IsDue, Restarting, NoCommand
<1>5. \A x \in Tokens : InUse(x) => x \in Tokens /\ x = ddr.request
  BY <1>1 DEF Init, InUse
<1>6. \A x \in Tokens : InUse(x) => Behind(ddr.request, x) + 0 <= triggers
  <2>1. triggers = 0
    BY DEF Init
  <2> QED
    BY <1>5, <2>1, BehindNone
<1>7. Counted
  BY <1>4, <1>6 DEF Init, Counted
<1> QED
  BY <1>2, <1>3, <1>7 DEF TokenInv

\* QuietInv and TokenInv hold together: that the next token is free is what TokenInv
\* is for.
THEOREM QuietInvariant == Spec => [](QuietInv /\ TokenInv)
<1>1. Init => QuietInv /\ TokenInv
  BY InitQuiet, InitTokens
<1>2. QuietInv /\ TokenInv /\ [Next]_vars => (QuietInv /\ TokenInv)'
  <2> SUFFICES ASSUME QuietInv, TokenInv, [Next]_vars
               PROVE  QuietInv' /\ TokenInv'
    OBVIOUS
  <2>1. NextTokenFree
    BY NextIsFree DEF TokenInv
  <2> QED
    BY <2>1, StepKeeps, StepTokens
<1> QED
  BY <1>1, <1>2, PTL DEF Spec

\* Between the acknowledgement and the new magic no store of the HPS, decided on the
\* old header, is still to come, whoever is reset or dies when, and even if the HPS
\* takes the old header for the new one.
THEOREM QuietWhileReinit == Spec => []HpsQuietWhileReinit
<1>1. QuietInv => HpsQuietWhileReinit
  <2> SUFFICES ASSUME QuietInv, state \in Reinit \/ queue.cmd \in Reinit
               PROVE  pc \notin Stores
    BY DEF HpsQuietWhileReinit
  <2>1. Granted
    BY DEF QuietInv, Reached, Granted
  <2> QED
    BY <2>1, CalmNow DEF QuietInv
<1> QED
  BY <1>1, QuietInvariant, PTL

\* Scan-out reads none of the shared banks while their header is rewritten.
THEOREM ScanoutQuiet == Spec => []ScanoutQuietWhileReinit
<1>1. QuietInv => ScanoutQuietWhileReinit
  BY DEF QuietInv
<1> QED
  BY <1>1, QuietInvariant, PTL

-----------------------------------------------------------------------------
(* One service for each session                                            *)

\* The HPS runs a service or a candidate for one: it has taken the policy.
Serving ==
  \/ pc \in {"storeInit", "initConsumer", "checkPolicy", "clearAck", "commitAck",
             "storeAccepted", "storeReady", "polled", "storeBeat"}
  \/ pc \in {"check", "checkEnd"} /\ after \notin {"session", "fail"}

\* The HPS has found the header fresh, and its service is not yet ready.
Candidate ==
  \/ pc \in {"initSession", "readEpoch", "readPolicy", "storeInit", "initConsumer",
             "checkPolicy", "clearAck", "commitAck", "storeAccepted", "storeReady"}
  \/ /\ pc \in {"check", "checkEnd"}
     /\ after \in {"session", "consumer", "policy", "commit"}

\* It has not yet stored to the header.
Early ==
  \/ pc \in {"initSession", "readEpoch", "readPolicy", "storeInit"}
  \/ pc \in {"check", "checkEnd"} /\ after = "session"

\* How many tokens were taken; MaxToken is that of an earlier power-on.
Used == IF ddr.request = MaxToken THEN 0 ELSE ddr.request

\* A session has begun with a token of its own.
Begun(s) == s \in {"writeQuiesce", "readAck", "poll", "policyAck"} \cup Reinit

\* The old session is not the new one, and is cleared before anything else.
Emptied(s, w) ==
  /\ s = "clear" => ddr.session # ddr.request
  /\ s = "config" \/ (s = "clear" /\ w > 1) => ddr.session = 0

\* Tokens come one after the other, and one that is not used has had no service.
UsedInv ==
  /\ instances \in [Tokens -> 0 .. 1]
  /\ ddr.session <= Used /\ ddr.accepted <= Used /\ mine <= Used
  /\ \A s \in Tokens : instances[s] # 0 => s <= Used
  /\ Begun(state) \/ Begun(queue.cmd) => ddr.request \in 1 .. MaxToken - 1
  /\ Emptied(state, word) /\ Emptied(queue.cmd, queue.word)
  /\ ddr.request # 0 /\ ddr.session # ddr.request => instances[ddr.request] = 0

\* The HPS stays with the session that it serves; a candidate that was misled about
\* it finds the policy of another.
OwnerInv ==
  /\ Serving \/ service =>
       mine # 0 /\ mine = ddr.session /\ ddr.policy = Policy(mine, flag) /\ ~Granted
  /\ Serving /\ Candidate => token = mine /\ ~service
  /\ Serving /\ ~Candidate => service
  /\ service => \/ pc \in {"polled", "storeBeat", "storeFault", "storeFaultState"}
                \/ pc \in {"check", "checkEnd"} /\ after \in {"poll", "beat", "fail"}
  /\ (pc = "checkEnd" /\ good /\ after = "session") \/ pc = "readEpoch" =>
       mine # 0 /\ (mine = ddr.session \/ mine # ddr.request)
  /\ pc = "readPolicy" => mine # 0 /\ (mine = ddr.session \/ mine # token)

\* What the header tells of a session's service, and what the HPS made of it.
HeaderInv ==
  /\ ddr.policy = Policy(ddr.policy.session, ddr.policy.flag)
  /\ pc = "accepted" /\ good => ddr.service = "Offline"
  /\ Early => Untouched
  /\ Candidate /\ pc # "storeReady" => ddr.accepted = 0
  /\ pc = "storeReady" => ddr.accepted = mine /\ instances[mine] = 0
  /\ Serving /\ Candidate /\ pc # "storeInit" => ddr.service = "Initializing"
  /\ Serving /\ ~Candidate => ddr.service = "Ready" /\ ddr.accepted = mine
  /\ ddr.service = "Ready" => ddr.accepted # 0 /\ instances[ddr.accepted] # 0
  /\ ddr.session # 0 =>
       (instances[ddr.session] # 0 =>
          /\ ddr.accepted = ddr.session
          /\ ddr.service \in {"Ready", "Fault", "RestartRequested"})

\* What the FPGA knows of its session.
PollInv ==
  /\ state \in {"poll", "policyAck"} =>
       ddr.magic = "H3D1" /\ session = ddr.request
  /\ state \in {"writeFault", "faultHold"} => fault
  /\ state \in {"writeMagic", "poll", "policyAck"} =>
       ddr.policy = Policy(session, policy)
  /\ phase # "ready" => queue.flag = policy
  /\ restartPending \/ policy = option
  /\ state = "poll" => word \in 1 .. 6
  /\ serviceReady => state \in {"poll", "policyAck"}
  /\ serviceReady => session # 0 /\ session <= Used /\ instances[session] # 0
  /\ everReleased => Released \/ fault \/ Restarting

\* The answer to a poll of the service is true, or was when it was given.
PollTrue ==
  queue.answered /\ queue.cmd = "poll" /\ queue.word = 1 =>
    /\ queue.data = <<queue.data[1], queue.data[2]>>
    /\ queue.data[1] = "Ready" =>
         queue.data[2] \in Tokens /\ instances[queue.data[2]] # 0
    /\ phase = "waiting" /\ serviceReady =>
         queue.data[1] \in {"Ready", "Fault", "RestartRequested"}

\* Without a mishap the HPS asks for no session: the header is fresh, or its
\* service lives.
Intact ==
  \/ Serving /\ (pc = "checkEnd" => good)
  \/ /\ Untouched
     /\ pc \notin {"askState", "askStore", "storeFault", "storeFaultState"}
     /\ pc = "accepted" => good
     /\ ~(pc = "checkEnd" /\ good /\ after = "fail")

\* The HPS may ask for a session, or has asked and the FPGA is about to hear it.
MayAsk ==
  /\ state \in {"poll", "policyAck"} /\ ~serviceRestart
  /\ \/ ~Intact
     \/ /\ phase = "waiting" /\ queue.cmd = "poll" /\ queue.word = 1
        /\ queue.data[1] = "RestartRequested"

\* A session is due to a load, a reset or a mishap, each for one.
SessionsBound ==
  /\ mishaps \in 0 .. MaxMishaps
  /\ \E d \in 0 .. 3 :
       /\ IsDue(d) /\ Used + d <= triggers + mishaps
       /\ MayAsk => Used + d + 1 <= triggers + mishaps

ServiceInv ==
  UsedInv /\ OwnerInv /\ HeaderInv /\ PollInv /\ PollTrue /\ SessionsBound

\* As many sessions fit the tokens as can be asked for.
LEMMA UsedEnough ==
  ASSUME TokenInv, SessionsBound, NEW d, IsDue(d)
  PROVE  /\ Used \in Nat /\ Used + d <= triggers + mishaps
         /\ triggers + mishaps < MaxToken
         /\ MaxToken \in Nat /\ triggers \in Nat /\ mishaps \in Nat
<1>1. /\ MaxToken \in Nat /\ MaxTriggers \in Nat /\ MaxMishaps \in Nat
      /\ MaxToken > 2 * (MaxTriggers + MaxMishaps)
  BY SessionAssumption
<1>2. triggers \in 0 .. MaxTriggers /\ ddr.request \in 0 .. MaxToken
  BY DEF TokenInv, Numbers
<1>3. mishaps \in 0 .. MaxMishaps /\ Used + d <= triggers + mishaps
  BY DueUnique DEF SessionsBound
<1> QED
  BY <1>1, <1>2, <1>3 DEF Used

\* Where the HPS is while it has no session.
Outside ==
  {"down", "magic", "request", "owner", "state", "accepted", "ackMagic", "ackRequest",
   "ackStore", "askState", "askStore", "initSession"}

\* Outside its loop the HPS serves nobody.
LEMMA OutsideIs ==
  ASSUME OwnerInv, pc \in Outside
  PROVE  ~Serving /\ ~service
  BY DEF OwnerInv, Outside, Serving

\* The steps that leave the HPS without a session.
LEMMA GoesOutside ==
  ASSUME Kinds, OwnerInv,
         \/ ReadMagic \/ ReadRequest \/ ReadOwner \/ ReadState \/ ReadAccepted
         \/ AckMagic \/ AckRequest \/ AckStore \/ AskState \/ AskStore
         \/ StoreFaultState \/ HpsStarts \/ HpsDies
  PROVE  pc' \in Outside /\ ~service' /\ mine' \in {0, mine}
<1>1. CASE ReadMagic \/ ReadOwner \/ ReadState
  BY <1>1, OutsideIs DEF ReadMagic, ReadOwner, ReadState, Goto, Inspect, Outside
<1>2. CASE ReadRequest
  <2>1. pc' \in {"magic", "ackMagic", "owner"} /\ pc = "request"
        /\ UNCHANGED <<service, mine>>
    BY <1>2 DEF ReadRequest
  <2> QED
    BY <2>1, OutsideIs DEF Outside
<1>3. CASE ReadAccepted
  <2>1. /\ pc = "accepted"
        /\ \/ Goto("initSession") \/ Inspect("loop") \/ Inspect("restart")
           \/ Goto("askState")
    BY <1>3 DEF ReadAccepted, Kinds
  <2> QED
    BY <2>1, OutsideIs DEF Outside, Goto, Inspect
<1>4. CASE AckMagic \/ AckRequest \/ AskState
  BY <1>4, OutsideIs DEF AckMagic, AckRequest, AskState, Goto, Inspect, Outside
<1>5. CASE AckStore \/ AskStore \/ StoreFaultState \/ HpsStarts \/ HpsDies
  BY <1>5 DEF AckStore, AskStore, StoreFaultState, HpsStarts, HpsDies, Inspect, Outside
<1> QED
  BY <1>1, <1>2, <1>3, <1>4, <1>5

\* What a check turns into.
LEMMA CheckTurns ==
  ASSUME Kinds, CheckEnd
  PROVE  /\ pc = "checkEnd" /\ UNCHANGED ddr
         /\ \/ Current /\ after = "session" /\ Goto("readEpoch")
            \/ Current /\ after = "consumer" /\ Check("policy")
            \/ Current /\ after \in {"policy", "commit"} /\ Goto("checkPolicy")
            \/ Current /\ after = "poll" /\ Goto("polled")
            \/ Current /\ after = "beat" /\ Goto("storeBeat")
            \/ Current /\ after = "fail" /\ Goto("storeFault")
            \/ ~Current /\ after = "beat" /\ Check("poll")
            \/ ~Current /\ after = "fail" /\ (Inspect("loop") \/ Inspect("restart"))
            \/ ~Current /\ after \notin {"beat", "fail"} /\ Check("fail")
<1>1. after \in {"session", "policy", "commit", "poll", "beat", "fail", "consumer"}
  BY DEF CheckEnd, Kinds, Reasons
<1>2. pc = "checkEnd" /\ UNCHANGED ddr
  BY DEF CheckEnd
<1>3. CASE Current
  <2>1. CASE after = "consumer"
    BY <1>2, <1>3, <2>1 DEF CheckEnd
  <2>2. CASE after # "consumer"
    <3>1. Goto(WhenCurrent[after])
      BY <1>3, <2>2 DEF CheckEnd
    <3> QED
      BY <1>1, <1>2, <1>3, <2>2, <3>1 DEF WhenCurrent
  <2> QED
    BY <2>1, <2>2
<1>4. CASE ~Current
  BY <1>1, <1>2, <1>4 DEF CheckEnd
<1> QED
  BY <1>3, <1>4

\* Nobody but the FPGA changes whom the header belongs to.
LEMMA HpsLeaves ==
  ASSUME Kinds, Quiet \/ Writes \/ AckStore
  PROVE  /\ ddr'.magic = ddr.magic /\ ddr'.request = ddr.request
         /\ ddr'.session = ddr.session /\ ddr'.policy = ddr.policy
         /\ ddr'.ack = ddr.ack \/ AckStore
<1>1. CASE Quiet
  BY <1>1 DEF Quiet
<1>2. CASE Writes
  BY <1>2 DEF Kinds, Writes, AskStore, StoreInitializing, ClearPolicyAck,
              CommitPolicyAck, StoreAccepted, StoreReady, StoreBeat, StoreFault,
              StoreFaultState
<1>3. CASE AckStore
  BY <1>3 DEF Kinds, AckStore
<1> QED
  BY <1>1, <1>2, <1>3

\* The steps of a service and of a candidate for one.
LEMMA HpsCases ==
  ASSUME Quiet \/ Writes \/ AckStore
  PROVE  \/ \/ ReadMagic \/ ReadRequest \/ ReadOwner \/ ReadState \/ ReadAccepted
            \/ AckMagic \/ AckRequest \/ AckStore \/ AskState \/ AskStore
            \/ StoreFaultState \/ HpsStarts \/ HpsDies
         \/ InitSession \/ CheckBegin \/ CheckEnd \/ ReadEpoch \/ ReadPolicy
         \/ StoreInitializing \/ InitConsumer \/ CheckPolicy \/ ClearPolicyAck
         \/ CommitPolicyAck \/ StoreAccepted \/ StoreReady \/ Polled \/ StoreBeat
         \/ StoreFault \/ ServiceFails
  BY DEF Quiet, Looks, Writes

\* The HPS stays with its session.
LEMMA HpsOwner ==
  ASSUME QuietInv, TokenInv, UsedInv, OwnerInv, HeaderInv,
         Quiet \/ Writes \/ AckStore
  PROVE  OwnerInv'
<1>0. /\ Kinds /\ Calm
      /\ ddr'.magic = ddr.magic /\ ddr'.request = ddr.request
      /\ ddr'.session = ddr.session /\ ddr'.policy = ddr.policy
      /\ ddr'.ack = ddr.ack \/ AckStore
  BY HpsLeaves DEF QuietInv
<1>1. CASE \/ ReadMagic \/ ReadRequest \/ ReadOwner \/ ReadState \/ ReadAccepted
           \/ AckMagic \/ AckRequest \/ AckStore \/ AskState \/ AskStore
           \/ StoreFaultState \/ HpsStarts \/ HpsDies
  <2>1. pc' \in Outside /\ ~service'
    BY <1>0, <1>1, GoesOutside
  <2> QED
    BY <2>1 DEF OwnerInv, Serving, Outside
<1>g. ~AckStore => Granted' = Granted
  BY <1>0 DEF Granted
<1>2. CASE InitSession
  <2>1. /\ pc = "initSession" /\ pc' = "check" /\ after' = "session"
        /\ UNCHANGED service /\ ~service
    BY <1>2, OutsideIs DEF InitSession, Outside
  <2> QED
    BY <2>1 DEF OwnerInv, Serving
<1>3. CASE CheckBegin
  <2>1. /\ pc = "check" /\ pc' = "checkEnd" /\ ~AckStore
        /\ good' => mine # 0 /\ ddr.session = mine
        /\ UNCHANGED <<after, token, service, mine, flag>>
    BY <1>3 DEF CheckBegin, AckStore
  <2>2. Serving' = Serving /\ Candidate' = Candidate
    BY <2>1 DEF Serving, Candidate
  <2> QED
    BY <1>0, <1>g, <2>1, <2>2 DEF OwnerInv
<1>4. CASE CheckEnd
  <2>1. ~AckStore /\ pc = "checkEnd"
    BY <1>4 DEF CheckEnd, AckStore
  <2>2. CASE Current /\ after = "session" /\ Goto("readEpoch")
    BY <1>0, <1>g, <2>1, <2>2 DEF OwnerInv, Serving, Goto, Current
  <2>3. CASE Current /\ after = "consumer" /\ Check("policy")
    BY <1>0, <1>g, <2>1, <2>3 DEF OwnerInv, Serving, Candidate, Check
  <2>4. CASE Current /\ after \in {"policy", "commit"} /\ Goto("checkPolicy")
    BY <1>0, <1>g, <2>1, <2>4 DEF OwnerInv, Serving, Candidate, Goto
  <2>5. CASE Current /\ after = "poll" /\ Goto("polled")
    BY <1>0, <1>g, <2>1, <2>5 DEF OwnerInv, Serving, Candidate, Goto
  <2>6. CASE Current /\ after = "beat" /\ Goto("storeBeat")
    BY <1>0, <1>g, <2>1, <2>6 DEF OwnerInv, Serving, Candidate, Goto
  <2>7. CASE Current /\ after = "fail" /\ Goto("storeFault")
    BY <1>0, <1>g, <2>1, <2>7 DEF OwnerInv, Serving, Candidate, Goto
  <2>8. CASE ~Current /\ after = "beat" /\ Check("poll")
    BY <1>0, <1>g, <2>1, <2>8 DEF OwnerInv, Serving, Candidate, Check
  <2>9. CASE ~Current /\ after = "fail" /\ (Inspect("loop") \/ Inspect("restart"))
    BY <1>0, <1>g, <2>1, <2>9 DEF OwnerInv, Serving, Candidate, Inspect
  <2>10. CASE ~Current /\ after \notin {"beat", "fail"} /\ Check("fail")
    BY <1>0, <1>g, <2>1, <2>10 DEF OwnerInv, Serving, Candidate, Check
  <2> QED
    BY <1>0, <1>4, CheckTurns, <2>2, <2>3, <2>4, <2>5, <2>6, <2>7, <2>8, <2>9, <2>10
<1>5. CASE ReadEpoch
  <2>1. /\ pc = "readEpoch" /\ pc' = "readPolicy" /\ token' = ddr.request
        /\ UNCHANGED <<service, mine>>
    BY <1>5 DEF ReadEpoch
  <2>2. ~service
    BY <2>1 DEF OwnerInv
  <2> QED
    BY <1>0, <2>1, <2>2 DEF OwnerInv, Serving
<1>6. CASE ReadPolicy
  <2>1. pc = "readPolicy" /\ ~service /\ ~AckStore
    BY <1>6 DEF ReadPolicy, OwnerInv, AckStore
  <2>2. CASE ~PolicyOfEpoch
    BY <1>0, <1>6, <2>1, <2>2 DEF ReadPolicy, Check, OwnerInv, Serving
  <2>3. CASE PolicyOfEpoch
    <3>1. /\ flag' = ddr.policy.flag /\ pc' = "storeInit"
          /\ UNCHANGED <<service, mine, token>>
          /\ ddr.policy.session = mine /\ mine = token
      BY <1>6, <2>3 DEF ReadPolicy, PolicyOfEpoch
    <3>2. mine # 0 /\ mine = ddr.session
      BY <2>1, <3>1 DEF OwnerInv
    <3>3. ~Granted
      BY <1>0, <2>1, <3>1 DEF Calm, Unaware, Misled
    <3>4. ddr'.policy = Policy(mine, flag')
      BY <1>0, <3>1 DEF HeaderInv
    <3> QED
      BY <1>0, <1>g, <2>1, <3>1, <3>2, <3>3, <3>4 DEF OwnerInv, Serving, Candidate
  <2> QED
    BY <2>2, <2>3
<1>7. CASE StoreInitializing \/ InitConsumer \/ ClearPolicyAck \/ CommitPolicyAck
           \/ StoreAccepted
  <2>1. /\ Serving /\ Candidate /\ Serving' /\ Candidate' /\ ~AckStore
        /\ pc' \notin {"readEpoch", "readPolicy", "checkEnd"}
        /\ UNCHANGED <<service, mine, token, flag>>
    BY <1>7 DEF StoreInitializing, InitConsumer, ClearPolicyAck, CommitPolicyAck,
                StoreAccepted, AckStore, Goto, Check, Serving, Candidate
  <2> QED
    BY <1>0, <1>g, <2>1 DEF OwnerInv
<1>8. CASE CheckPolicy
  <2>1. /\ Serving /\ Candidate /\ ~AckStore
        /\ pc' \notin {"readEpoch", "readPolicy", "checkEnd"}
        /\ UNCHANGED <<service, mine, token, flag>>
        /\ Serving' => Candidate'
    BY <1>8 DEF CheckPolicy, AckStore, Goto, Check, Serving, Candidate
  <2> QED
    BY <1>0, <1>g, <2>1 DEF OwnerInv
<1>9. CASE StoreReady
  <2>1. /\ Serving /\ Serving' /\ ~Candidate' /\ ~AckStore /\ service'
        /\ pc' = "check" /\ after' = "beat" /\ UNCHANGED <<mine, flag>>
    BY <1>9 DEF StoreReady, AckStore, Serving, Candidate
  <2> QED
    BY <1>0, <1>g, <2>1 DEF OwnerInv
<1>10. CASE Polled \/ StoreBeat
  <2>1. /\ Serving /\ ~Candidate /\ Serving' /\ ~Candidate' /\ ~AckStore
        /\ pc' = "check" /\ after' \in {"poll", "beat"}
        /\ UNCHANGED <<service, mine, token, flag>>
    BY <1>10 DEF Polled, StoreBeat, AckStore, Check, Serving, Candidate
  <2> QED
    BY <1>0, <1>g, <2>1 DEF OwnerInv
<1>11. CASE StoreFault
  <2>1. /\ pc' = "storeFaultState" /\ ~AckStore /\ ~Serving'
        /\ UNCHANGED <<service, mine, token, flag>>
    BY <1>11 DEF StoreFault, AckStore, Goto, Serving
  <2> QED
    BY <1>0, <1>g, <2>1 DEF OwnerInv
<1>12. CASE ServiceFails
  <2>1. /\ pc' = "check" /\ after' = "fail" /\ ~AckStore /\ ~Serving'
        /\ UNCHANGED <<service, mine, token, flag>>
    BY <1>12 DEF ServiceFails, AckStore, Check, Serving
  <2> QED
    BY <1>0, <1>g, <2>1 DEF OwnerInv
<1> QED
  BY <1>1, <1>2, <1>3, <1>4, <1>5, <1>6, <1>7, <1>8, <1>9, <1>10, <1>11, <1>12, HpsCases

\* A service is counted when it becomes ready, for a session that had none.
LEMMA HpsCounts ==
  ASSUME QuietInv, TokenInv, UsedInv, OwnerInv, HeaderInv,
         Quiet \/ Writes \/ AckStore, History
  PROVE  /\ ~StoreReady => UNCHANGED instances
         /\ StoreReady =>
              /\ mine \in Tokens /\ mine = ddr.session /\ instances[mine] = 0
              /\ instances' = [instances EXCEPT ![mine] = 1]
         /\ instances' \in [Tokens -> 0 .. 1]
         /\ \A s \in Tokens : instances[s] # 0 => instances'[s] # 0
<1>1. ~StoreReady => UNCHANGED instances
  <2>1. pc = "storeReady" => StoreReady \/ pc' # "check"
    BY HpsCases DEF ReadMagic, ReadRequest, ReadOwner, ReadState, ReadAccepted,
      AckMagic, AckRequest, AckStore, AskState, AskStore, StoreFaultState, HpsStarts,
      HpsDies, InitSession, CheckBegin, CheckEnd, ReadEpoch, ReadPolicy,
      StoreInitializing, InitConsumer, CheckPolicy, ClearPolicyAck, CommitPolicyAck,
      StoreAccepted, Polled, StoreBeat, StoreFault, ServiceFails
  <2> QED
    BY <2>1 DEF History
<1>2. ASSUME StoreReady
      PROVE  /\ mine \in Tokens /\ mine = ddr.session /\ instances[mine] = 0
             /\ instances' = [instances EXCEPT ![mine] = 1]
  <2>1. pc = "storeReady" /\ pc' = "check"
    BY <1>2 DEF StoreReady
  <2>2. mine # 0 /\ mine = ddr.session /\ instances[mine] = 0
    BY <2>1 DEF OwnerInv, HeaderInv, Serving
  <2>3. mine \in Tokens
    BY <2>2 DEF TokenInv, Numbers, Tokens
  <2>4. instances' = [instances EXCEPT ![mine] = @ + 1]
    BY <2>1 DEF History
  <2>5. instances' = [instances EXCEPT ![mine] = instances[mine] + 1]
    BY <2>4
  <2> QED
    BY <2>2, <2>3, <2>5
<1>3. instances \in [Tokens -> 0 .. 1]
  BY DEF UsedInv
<1>4. /\ instances' \in [Tokens -> 0 .. 1]
      /\ \A s \in Tokens : instances[s] # 0 => instances'[s] # 0
  <2>1. CASE StoreReady
    BY <1>2, <1>3, <2>1
  <2>2. CASE ~StoreReady
    BY <1>1, <1>3, <2>2
  <2> QED
    BY <2>1, <2>2
<1> QED
  BY <1>1, <1>2, <1>4

\* What the HPS makes of the header, and what it leaves there.
LEMMA HpsHeader ==
  ASSUME QuietInv, TokenInv, UsedInv, OwnerInv, HeaderInv,
         Quiet \/ Writes \/ AckStore, History
  PROVE  HeaderInv'
<1>0. /\ Kinds /\ ddr'.session = ddr.session /\ ddr'.policy = ddr.policy
      /\ ddr.session \in Nat /\ mine \in Nat /\ ddr.accepted \in Nat
  BY HpsLeaves DEF QuietInv, Kinds
<1>h. ~StoreReady => UNCHANGED instances
  BY HpsCounts
<1>1. CASE \/ ReadMagic \/ ReadRequest \/ ReadOwner
           \/ AckMagic \/ AckRequest \/ AskState \/ HpsStarts \/ HpsDies
  <2>1. pc' \in Outside \ {"accepted", "initSession"} /\ ~StoreReady
    <3>1. CASE ReadRequest
      BY <3>1 DEF ReadRequest, Outside, StoreReady
    <3>2. CASE \/ ReadMagic \/ ReadOwner
               \/ AckMagic \/ AckRequest \/ AskState \/ HpsStarts \/ HpsDies
      BY <3>2 DEF ReadMagic, ReadOwner, AckMagic, AckRequest, AskState,
        HpsStarts, HpsDies, Goto, Inspect, Outside, StoreReady
    <3> QED
      BY <1>1, <3>1, <3>2
  <2>2. UNCHANGED ddr
    BY <1>1 DEF Quiet, ReadMagic, ReadRequest, ReadOwner, AckMagic, AckRequest,
      AskState, HpsStarts, HpsDies, Writes, AckStore, AskStore, StoreInitializing,
      ClearPolicyAck, CommitPolicyAck, StoreAccepted, StoreReady, StoreBeat, StoreFault,
      StoreFaultState, Goto, Check, Inspect
  <2>3. ~Early' /\ ~Candidate' /\ ~Serving'
    BY <2>1 DEF Outside, Early, Candidate, Serving
  <2> QED
    BY <1>h, <2>1, <2>2, <2>3 DEF HeaderInv, Outside
<1>2. CASE ReadState
  <2>1. /\ pc' = "accepted" /\ good' = (ddr.service = "Offline") /\ UNCHANGED ddr
        /\ ~StoreReady
    BY <1>2 DEF ReadState, StoreReady
  <2>2. ~Early' /\ ~Candidate' /\ ~Serving'
    BY <2>1 DEF Early, Candidate, Serving
  <2> QED
    BY <1>h, <2>1, <2>2 DEF HeaderInv
<1>3. CASE ReadAccepted
  <2>1. pc = "accepted" /\ UNCHANGED ddr /\ ~StoreReady
    BY <1>3 DEF ReadAccepted, StoreReady
  <2>2. \/ FreshSession /\ pc' = "initSession"
        \/ pc' \in {"magic", "askState"}
    BY <1>0, <1>3 DEF ReadAccepted, Kinds, Goto, Inspect
  <2>3. ~Serving' /\ pc' # "accepted" /\ (Early' \/ Candidate' => pc' = "initSession")
    BY <2>2 DEF Early, Candidate, Serving
  <2>4. pc' = "initSession" => Untouched
    BY <2>1, <2>2 DEF FreshSession, Untouched, HeaderInv
  <2> QED
    BY <1>h, <2>1, <2>2, <2>3, <2>4 DEF HeaderInv, Untouched
<1>4. CASE InitSession \/ ReadEpoch \/ ReadPolicy
  <2>1. /\ pc \in {"initSession", "readEpoch", "readPolicy"} /\ UNCHANGED ddr
        /\ ~StoreReady /\ pc' \notin {"accepted", "storeReady"}
        /\ Serving' => pc' = "storeInit"
    BY <1>4 DEF InitSession, ReadEpoch, ReadPolicy, StoreReady, Check, Serving
  <2>2. Early
    BY <2>1 DEF Early
  <2>3. Serving' => Candidate'
    BY <2>1 DEF Candidate
  <2> QED
    BY <1>h, <2>1, <2>2, <2>3 DEF HeaderInv, Untouched
<1>5. CASE CheckBegin
  <2>1. /\ pc = "check" /\ pc' = "checkEnd" /\ UNCHANGED <<after, ddr, mine>>
        /\ ~StoreReady
    BY <1>5 DEF CheckBegin, StoreReady
  <2>2. Serving' = Serving /\ Candidate' = Candidate /\ Early' = Early
    BY <2>1 DEF Serving, Candidate, Early
  <2> QED
    BY <1>h, <2>1, <2>2 DEF HeaderInv, Untouched
<1>6. CASE CheckEnd
  <2>1. /\ pc = "checkEnd" /\ UNCHANGED ddr /\ ~StoreReady
        /\ pc' \notin {"accepted", "storeInit", "storeReady"}
        /\ Early' => Early
        /\ Candidate' => Candidate
        /\ Serving' => Serving
        /\ Serving' => mine' = mine
        /\ Candidate => ~Serving' \/ Candidate'
    BY <1>0, <1>6, CheckTurns
    DEF StoreReady, Goto, Check, Inspect, Early, Candidate, Serving
  <2>2. Serving' /\ ~Candidate' => ddr'.accepted = mine'
    BY <2>1 DEF HeaderInv
  <2> QED
    BY <1>h, <2>1, <2>2 DEF HeaderInv, Untouched
<1>7. CASE InitConsumer \/ CheckPolicy \/ Polled \/ ServiceFails
  <2>1. /\ UNCHANGED <<ddr, mine>> /\ ~StoreReady
        /\ pc' \notin {"accepted", "storeInit", "storeReady"}
        /\ pc \notin {"storeInit", "storeReady"}
        /\ ~Early'
        /\ Candidate' => Candidate
        /\ Serving' => Serving
        /\ Candidate => ~Serving' \/ Candidate'
    BY <1>7 DEF InitConsumer, CheckPolicy, Polled, ServiceFails, Quiet, Writes,
      AckStore, AskStore, StoreInitializing, ClearPolicyAck, CommitPolicyAck,
      StoreAccepted, StoreReady, StoreBeat, StoreFault, StoreFaultState, Goto, Check,
      Early, Candidate, Serving
  <2> QED
    BY <1>h, <2>1 DEF HeaderInv, Untouched
<1>8. CASE AckStore \/ ClearPolicyAck \/ CommitPolicyAck \/ StoreBeat \/ StoreFault
  <2>1. /\ ddr'.service = ddr.service /\ ddr'.accepted = ddr.accepted
        /\ ~StoreReady
    BY <1>0, <1>8 DEF Kinds, AckStore, ClearPolicyAck, CommitPolicyAck, StoreBeat,
      StoreFault, StoreReady
  <2>2. CASE AckStore \/ StoreFault
    <3>1. /\ ~Serving' /\ ~Candidate' /\ ~Early'
          /\ pc' \notin {"accepted", "storeReady"}
      BY <2>2 DEF AckStore, StoreFault, Inspect, Goto, Serving, Candidate, Early
    <3> QED
      BY <1>0, <1>h, <2>1, <3>1 DEF HeaderInv
  <2>3. CASE ClearPolicyAck \/ CommitPolicyAck
    <3>1. /\ Serving /\ Candidate /\ Serving' /\ Candidate' /\ ~Early'
          /\ pc \notin {"storeInit", "storeReady"}
          /\ pc' \notin {"accepted", "storeReady", "storeInit"}
          /\ UNCHANGED mine
      BY <2>3 DEF ClearPolicyAck, CommitPolicyAck, Check, Goto, Serving, Candidate,
        Early
    <3> QED
      BY <1>0, <1>h, <2>1, <3>1 DEF HeaderInv
  <2>4. CASE StoreBeat
    <3>1. /\ Serving /\ ~Candidate /\ ~Candidate' /\ ~Early'
          /\ pc' \notin {"accepted", "storeReady", "storeInit"}
          /\ UNCHANGED mine
      BY <2>4 DEF StoreBeat, Check, Serving, Candidate, Early
    <3> QED
      BY <1>0, <1>h, <2>1, <3>1 DEF HeaderInv
  <2> QED
    BY <1>8, <2>2, <2>3, <2>4
<1>9. CASE AskStore \/ StoreFaultState
  <2>1. /\ ddr'.service \in {"RestartRequested", "Fault"}
        /\ ddr'.accepted = ddr.accepted /\ ~StoreReady /\ pc' = "magic"
    BY <1>0, <1>9 DEF Kinds, AskStore, StoreFaultState, Inspect, StoreReady
  <2>2. ~Serving' /\ ~Candidate' /\ ~Early'
    BY <2>1 DEF Serving, Candidate, Early
  <2> QED
    BY <1>0, <1>h, <2>1, <2>2 DEF HeaderInv
<1>10. CASE StoreInitializing
  <2>1. /\ ddr'.service = "Initializing" /\ ddr'.accepted = ddr.accepted
        /\ ~StoreReady /\ pc = "storeInit" /\ pc' = "initConsumer"
        /\ UNCHANGED mine
    BY <1>0, <1>10 DEF Kinds, StoreInitializing, Goto, StoreReady
  <2>2. /\ Early /\ Candidate /\ Serving' /\ Candidate' /\ ~Early'
    BY <2>1 DEF Serving, Candidate, Early
  <2>3. ddr.accepted = 0
    BY <2>2 DEF HeaderInv, Untouched
  <2> QED
    BY <1>0, <1>h, <2>1, <2>2, <2>3 DEF HeaderInv
<1>11. CASE StoreAccepted
  <2>1. /\ ddr'.service = ddr.service /\ ddr'.accepted = mine
        /\ ~StoreReady /\ pc = "storeAccepted" /\ pc' = "storeReady"
        /\ UNCHANGED mine
    BY <1>0, <1>11 DEF Kinds, StoreAccepted, Goto, StoreReady
  <2>2. /\ Candidate /\ Serving /\ Serving' /\ Candidate' /\ ~Early'
    BY <2>1 DEF Serving, Candidate, Early
  <2>3. /\ ddr.accepted = 0 /\ ddr.service = "Initializing"
        /\ mine # 0 /\ mine = ddr.session
    BY <2>1, <2>2 DEF HeaderInv, OwnerInv
  <2>4. instances[mine] = 0
    BY <2>3 DEF HeaderInv
  <2> QED
    BY <1>0, <1>h, <2>1, <2>2, <2>3, <2>4 DEF HeaderInv
<1>12. CASE StoreReady
  <2>1. /\ ddr'.service = "Ready" /\ ddr'.accepted = ddr.accepted
        /\ pc = "storeReady" /\ pc' = "check" /\ after' = "beat"
        /\ UNCHANGED mine
    BY <1>0, <1>12 DEF Kinds, StoreReady
  <2>2. /\ Serving /\ Serving' /\ ~Candidate' /\ ~Early'
    BY <2>1 DEF Serving, Candidate, Early
  <2>3. mine # 0 /\ mine = ddr.session /\ ddr.accepted = mine
    BY <2>1, <2>2 DEF OwnerInv, HeaderInv
  <2>4. instances'[mine] # 0
    BY <1>12, HpsCounts DEF UsedInv
  <2> QED
    BY <1>0, <2>1, <2>2, <2>3, <2>4 DEF HeaderInv
<1> QED
  BY <1>1, <1>2, <1>3, <1>4, <1>5, <1>6, <1>7, <1>8, <1>9, <1>10, <1>11, <1>12, HpsCases

\* The tokens that are used are those that were.
LEMMA HpsUsed ==
  ASSUME QuietInv, TokenInv, UsedInv, OwnerInv, HeaderInv,
         Quiet \/ Writes \/ AckStore, History,
         UNCHANGED <<queue, state, word>>
  PROVE  UsedInv'
<1>1. /\ ddr'.request = ddr.request /\ ddr'.session = ddr.session /\ Used' = Used
      /\ Kinds
  BY HpsLeaves DEF QuietInv, Used
<1>2. Emptied(state, word)' /\ Emptied(queue.cmd, queue.word)'
  BY <1>1 DEF Emptied, UsedInv
<1>3. /\ ddr'.accepted \in {ddr.accepted, mine}
      /\ mine' \in {0, mine, ddr.session}
  <2>1. CASE \/ ReadMagic \/ ReadRequest \/ ReadOwner \/ ReadState \/ ReadAccepted
             \/ AckMagic \/ AckRequest \/ AskState \/ HpsStarts \/ HpsDies
    <3>1. UNCHANGED ddr
      BY <2>1 DEF Quiet, ReadMagic, ReadRequest, ReadOwner, AckMagic, AckRequest,
        ReadState, ReadAccepted, AskState, HpsStarts, HpsDies, Writes, AckStore,
        AskStore, StoreInitializing, ClearPolicyAck, CommitPolicyAck, StoreAccepted,
        StoreReady, StoreBeat, StoreFault, StoreFaultState, Goto, Check, Inspect
    <3> QED
      BY <1>1, <2>1, <3>1, GoesOutside
  <2>2. CASE InitSession \/ CheckBegin \/ ReadEpoch \/ ReadPolicy \/ InitConsumer
             \/ CheckPolicy \/ Polled \/ ServiceFails
    <3>1. UNCHANGED ddr
      BY <2>2 DEF Quiet, InitSession, CheckBegin, ReadEpoch, ReadPolicy, InitConsumer,
        CheckPolicy, Polled, ServiceFails, Writes, AckStore,
        AskStore, StoreInitializing, ClearPolicyAck, CommitPolicyAck, StoreAccepted,
        StoreReady, StoreBeat, StoreFault, StoreFaultState, Goto, Check, Inspect
    <3> QED
      BY <2>2, <3>1 DEF InitSession, CheckBegin, ReadEpoch, ReadPolicy, InitConsumer,
        CheckPolicy, Polled, ServiceFails, Goto, Check
  <2>3. CASE CheckEnd
    BY <1>1, <2>3, CheckTurns DEF Goto, Check, Inspect
  <2>4. CASE AckStore \/ AskStore \/ StoreFaultState \/ StoreInitializing
             \/ ClearPolicyAck \/ CommitPolicyAck \/ StoreAccepted \/ StoreReady
             \/ StoreBeat \/ StoreFault
    BY <1>1, <2>4 DEF Kinds, AckStore, AskStore, StoreFaultState, StoreInitializing,
      ClearPolicyAck, CommitPolicyAck, StoreAccepted, StoreReady, StoreBeat, StoreFault,
      Goto, Check, Inspect
  <2> QED
    BY <2>1, <2>2, <2>3, <2>4, HpsCases
<1>4. Used \in Nat
  BY Enough DEF TokenInv, Numbers, Used
<1>5. /\ ddr'.session <= Used' /\ ddr'.accepted <= Used' /\ mine' <= Used'
  BY <1>1, <1>3, <1>4 DEF UsedInv
<1>6. /\ \A s \in Tokens : instances'[s] # 0 => s <= Used'
      /\ ddr'.request # 0 /\ ddr'.session # ddr'.request => instances'[ddr'.request] = 0
  <2>1. CASE ~StoreReady
    BY <1>1, <2>1, HpsCounts DEF UsedInv
  <2>2. CASE StoreReady
    <3>1. /\ mine = ddr.session
          /\ instances' = [instances EXCEPT ![mine] = 1] /\ mine <= Used
      BY <2>2, HpsCounts DEF UsedInv
    <3>2. ddr.request # 0 => ddr.request \in Tokens
      BY DEF TokenInv, Numbers, Tokens
    <3>3. \A s \in Tokens : s # mine => instances'[s] = instances[s]
      BY <3>1 DEF UsedInv
    <3> QED
      BY <1>1, <3>1, <3>2, <3>3 DEF UsedInv
  <2> QED
    BY <2>1, <2>2
<1>7. instances' \in [Tokens -> 0 .. 1]
  BY HpsCounts
<1> QED
  BY <1>1, <1>2, <1>5, <1>6, <1>7 DEF UsedInv

\* Tokens that are used, and not MaxToken, are tokens.
LEMMA UsedTokens ==
  ASSUME TokenInv, SessionsBound
  PROVE  /\ Used \in Nat /\ Used < MaxToken /\ MaxToken \in Nat
         /\ \A s \in Nat : s # 0 /\ s <= Used => s \in Tokens
<1>1. PICK d \in 0 .. 3 : IsDue(d)
  BY DEF SessionsBound
<1> QED
  BY <1>1, UsedEnough DEF Tokens

\* What the FPGA knows stays true.
LEMMA HpsPoll ==
  ASSUME QuietInv, TokenInv, UsedInv, OwnerInv, HeaderInv, PollInv, PollTrue,
         SessionsBound, Quiet \/ Writes \/ AckStore, History,
         UNCHANGED <<queue, fpgaVars, option>>
  PROVE  PollInv' /\ PollTrue'
<1>1. /\ ddr'.magic = ddr.magic /\ ddr'.request = ddr.request
      /\ ddr'.policy = ddr.policy /\ Used' = Used
      /\ UNCHANGED <<state, word, phase, session, fault, serviceReady, policy>>
      /\ UNCHANGED <<restartPending, serviceRestart>>
      /\ Released' = Released
  BY HpsLeaves DEF QuietInv, Used, fpgaVars, Released, Initialized
<1>2. session # 0 /\ session <= Used /\ instances[session] # 0 =>
        instances'[session] # 0
  BY HpsCounts, UsedTokens DEF QuietInv, Kinds
<1>3. everReleased' => everReleased \/ Released
  BY <1>1 DEF History
<1>4. PollInv'
  BY <1>1, <1>2, <1>3 DEF PollInv, Restarting
<1>5. PollTrue'
  BY <1>1, HpsCounts DEF PollTrue
<1> QED
  BY <1>4, <1>5

\* While the FPGA polls, the header is that of its session.
LEMMA PollingIs ==
  ASSUME QuietInv, TokenInv, UsedInv, PollInv, SessionsBound,
         state \in {"poll", "policyAck"}
  PROVE  /\ ddr.magic = "H3D1" /\ ddr.request # 0 /\ ddr.ack = ddr.request
         /\ ddr.session = ddr.request /\ session = ddr.request
         /\ session \in Tokens /\ pc # "ackStore"
<1>1. /\ ddr.magic = "H3D1" /\ ddr.ack = ddr.request /\ ddr.session = ddr.request
      /\ session = ddr.request /\ ddr.request # 0
  BY DEF PollInv, TokenInv, Newest
<1> QED
  BY <1>1 DEF TokenInv, Numbers, Tokens

\* Without a mishap, what is intact remains so.
LEMMA HpsIntact ==
  ASSUME QuietInv, TokenInv, UsedInv, OwnerInv, HeaderInv, PollInv, SessionsBound,
         state \in {"poll", "policyAck"}, Intact, Hps \/ (HpsStarts /\ UNCHANGED ddr)
  PROVE  Intact'
<1>0. /\ Kinds /\ ddr.magic = "H3D1" /\ ddr.request # 0 /\ ddr.ack = ddr.request
      /\ ddr.session = ddr.request /\ pc # "ackStore" /\ mine \in Nat
  BY PollingIs DEF QuietInv, Kinds
<1>1. CASE Serving /\ (pc = "checkEnd" => good)
  <2>0. /\ mine # 0 /\ mine = ddr.session /\ ddr.policy = Policy(mine, flag)
        /\ Candidate => token = mine
        /\ Candidate \/ ddr.accepted = mine
    BY <1>1 DEF OwnerInv, HeaderInv
  <2>2. StoreInitializing \/ InitConsumer \/ ClearPolicyAck \/ CommitPolicyAck
          \/ StoreAccepted \/ StoreReady \/ Polled \/ StoreBeat => Intact'
    BY DEF StoreInitializing, InitConsumer, ClearPolicyAck, CommitPolicyAck,
      StoreAccepted, StoreReady, Polled, StoreBeat, Goto, Check, Intact, Serving
  <2>3. CASE CheckPolicy
    <3>1. PolicyStands
      BY <1>0, <2>0, <2>3 DEF PolicyStands, CheckPolicy, Candidate
    <3>2. pc' \in {"clearAck", "commitAck"}
      BY <2>3, <3>1 DEF CheckPolicy, Goto
    <3> QED
      BY <3>2 DEF Intact, Serving
  <2>4. CASE CheckBegin
    <3>1. after \in {"poll", "beat"} => ddr.accepted = mine
      BY <2>0, <2>4 DEF CheckBegin, Candidate
    <3>2. after # "fail" /\ pc' = "checkEnd" /\ UNCHANGED after
      BY <1>1, <2>4 DEF CheckBegin, Serving
    <3>3. good' = TRUE
      BY <1>0, <2>0, <2>4, <3>1, <3>2 DEF CheckBegin, Accepted
    <3> QED
      BY <1>1, <2>4, <3>2, <3>3 DEF Intact, Serving, CheckBegin
  <2>5. CASE CheckEnd
    <3>1. Current /\ pc = "checkEnd"
      BY <1>0, <1>1, <2>5 DEF Current, CheckEnd
    <3> QED
      BY <1>0, <1>1, <2>5, <3>1, CheckTurns DEF Intact, Serving, Goto, Check
  <2>6. pc \notin {"magic", "request", "owner", "state", "accepted", "ackMagic",
                   "ackRequest", "ackStore", "askState", "askStore", "initSession",
                   "readEpoch", "readPolicy", "storeFault", "storeFaultState", "down"}
    BY <1>1 DEF Serving
  <2> QED
    BY <2>2, <2>3, <2>4, <2>5, <2>6 DEF Hps, HpsStarts,
      ReadMagic, ReadRequest, ReadOwner, ReadState, ReadAccepted, AckMagic, AckRequest,
      AckStore, AskState, AskStore, InitSession, ReadEpoch, ReadPolicy, StoreFault,
      StoreFaultState
<1>2. CASE ~Serving
  <2>0. /\ Untouched
        /\ pc \notin {"askState", "askStore", "storeFault", "storeFaultState"}
        /\ pc = "accepted" => good
        /\ ~(pc = "checkEnd" /\ good /\ after = "fail")
    BY <1>2 DEF Intact
  <2>1. CASE ReadMagic \/ ReadRequest \/ ReadOwner \/ ReadState \/ AckMagic
             \/ AckRequest \/ InitSession \/ ReadEpoch \/ ReadPolicy
             \/ (HpsStarts /\ UNCHANGED ddr)
    <3>1. /\ UNCHANGED ddr
          /\ pc' \in {"magic", "request", "owner", "state", "accepted", "ackMagic",
                      "ackRequest", "ackStore", "check", "readPolicy", "storeInit"}
          /\ pc' = "accepted" => good'
      <4>1. CASE ReadRequest
        BY <4>1 DEF ReadRequest
      <4>2. CASE ~ReadRequest
        BY <2>0, <2>1, <4>2 DEF ReadMagic, ReadOwner, ReadState, AckMagic,
          AckRequest, InitSession, ReadEpoch, ReadPolicy, HpsStarts, Goto, Check,
          Inspect, Untouched
      <4> QED
        BY <4>1, <4>2
    <3> QED
      BY <2>0, <3>1 DEF Intact, Untouched
  <2>2. CASE ReadAccepted
    <3>1. FreshSession /\ UNCHANGED ddr
      BY <2>0, <2>2 DEF ReadAccepted, FreshSession, Untouched
    <3>2. pc' \in {"initSession", "magic"}
      BY <1>0, <2>2, <3>1 DEF ReadAccepted, Kinds, Goto, Inspect
    <3> QED
      BY <2>0, <3>1, <3>2 DEF Intact, Untouched
  <2>3. CASE CheckBegin
    <3>1. /\ pc' = "checkEnd" /\ UNCHANGED <<ddr, after>>
          /\ good' => mine # 0 /\ (after = "fail" => ddr.accepted = mine)
      BY <2>3 DEF CheckBegin, Accepted
    <3> QED
      BY <2>0, <3>1 DEF Intact, Untouched
  <2>4. CASE CheckEnd
    <3>1. /\ UNCHANGED ddr /\ pc' \in {"readEpoch", "check", "magic"}
      BY <1>0, <1>2, <2>0, <2>4, CheckTurns
      DEF Goto, Check, Inspect, Current, Serving
    <3> QED
      BY <2>0, <3>1 DEF Intact, Untouched
  <2>5. pc \notin {"storeInit", "initConsumer", "checkPolicy", "clearAck", "commitAck",
                   "storeAccepted", "storeReady", "polled", "storeBeat", "ackStore"}
    BY <1>0, <1>2 DEF Serving
  <2> QED
    BY <2>0, <2>1, <2>2, <2>3, <2>4, <2>5 DEF Hps, AckStore, AskState, AskStore,
      StoreInitializing, InitConsumer, CheckPolicy, ClearPolicyAck, CommitPolicyAck,
      StoreAccepted, StoreReady, Polled, StoreBeat, StoreFault, StoreFaultState
<1>3. Serving /\ pc = "checkEnd" => ~Untouched
  BY DEF HeaderInv, Untouched
<1> QED
  BY <1>1, <1>2, <1>3 DEF Intact

\* Arithmetic of the sessions in use.
LEMMA FitsStill ==
  ASSUME NEW u \in Nat, NEW d \in Nat, NEW e \in Nat, NEW x \in Nat, NEW y \in Nat,
         NEW v \in Nat, NEW w \in Nat, e + x + y <= d + v + w
  PROVE  /\ u + d <= x + y => u + e <= v + w
         /\ u + d + 1 <= x + y => u + e + 1 <= v + w
  OBVIOUS

\* While no more sessions are due than loads, resets and mishaps allow.
LEMMA BoundStep ==
  ASSUME TokenInv, SessionsBound, NEW d, IsDue(d), NEW e \in 0 .. 3, IsDue(e)',
         Used' = Used, triggers' \in Nat, mishaps' \in 0 .. MaxMishaps,
         e + triggers + mishaps <= d + triggers' + mishaps',
         MayAsk' => MayAsk \/ Used + e + 1 <= triggers' + mishaps'
  PROVE  SessionsBound'
<1>1. /\ Used \in Nat /\ triggers \in Nat /\ mishaps \in Nat /\ mishaps' \in Nat
      /\ d \in 0 .. 3 /\ Used + d <= triggers + mishaps
      /\ MayAsk => Used + d + 1 <= triggers + mishaps
  <2>1. mishaps' \in Nat
    BY SessionAssumption
  <2> QED
    BY <2>1, UsedEnough, DueAtLeast, DueUnique DEF SessionsBound
<1>2. d \in Nat /\ e \in Nat
  BY <1>1
<1>3. /\ Used + d <= triggers + mishaps => Used + e <= triggers' + mishaps'
      /\ Used + d + 1 <= triggers + mishaps => Used + e + 1 <= triggers' + mishaps'
  BY <1>1, <1>2, FitsStill
<1> QED
  BY <1>1, <1>3 DEF SessionsBound

\* The HPS may ask for a session that no load and no reset has asked for only after
\* a mishap.
LEMMA HpsBound ==
  ASSUME QuietInv, TokenInv, UsedInv, OwnerInv, HeaderInv, PollInv, SessionsBound,
         Quiet \/ Writes \/ AckStore,
         UNCHANGED <<queue, fpgaVars, triggers>>,
         \/ (Hps \/ (HpsStarts /\ UNCHANGED ddr)) /\ UNCHANGED mishaps
         \/ mishaps < MaxMishaps /\ mishaps' = mishaps + 1
  PROVE  SessionsBound'
<1>1. PICK d \in 0 .. 3 : IsDue(d)
  BY DEF SessionsBound
<1>2. IsDue(d)' /\ Used' = Used
  BY <1>1, HpsLeaves DEF QuietInv, Used, IsDue, Restarting, fpgaVars
<1>3. /\ triggers' \in Nat /\ triggers \in Nat /\ mishaps \in Nat /\ Used \in Nat
      /\ Used + d <= triggers + mishaps
  BY <1>1, UsedEnough
<1>4. CASE (Hps \/ (HpsStarts /\ UNCHANGED ddr)) /\ UNCHANGED mishaps
  <2>1. MayAsk' => MayAsk
    BY <1>4, HpsIntact DEF MayAsk, fpgaVars
  <2>2. mishaps' \in 0 .. MaxMishaps
    BY <1>4 DEF SessionsBound
  <2>3. d + triggers + mishaps <= d + triggers' + mishaps'
    BY <1>3, <1>4
  <2> QED
    BY <1>1, <1>2, <1>3, <2>1, <2>2, <2>3, BoundStep
<1>5. CASE mishaps < MaxMishaps /\ mishaps' = mishaps + 1
  <2>1. mishaps' \in 0 .. MaxMishaps
    BY <1>3, <1>5, SessionAssumption
  <2>2. /\ Used + d + 1 <= triggers' + mishaps'
        /\ d + triggers + mishaps <= d + triggers' + mishaps'
    BY <1>3, <1>5
  <2> QED
    BY <1>1, <1>2, <1>3, <2>1, <2>2, BoundStep
<1> QED
  BY <1>4, <1>5

\* A step of the HPS keeps the invariant.
LEMMA HpsServes ==
  ASSUME QuietInv, TokenInv, ServiceInv, Quiet \/ Writes \/ AckStore, History,
         UNCHANGED <<queue, fpgaVars, option, triggers>>,
         \/ (Hps \/ (HpsStarts /\ UNCHANGED ddr)) /\ UNCHANGED mishaps
         \/ mishaps < MaxMishaps /\ mishaps' = mishaps + 1
  PROVE  ServiceInv'
<1> USE DEF ServiceInv
<1>1. UsedInv'
  BY HpsUsed DEF fpgaVars
<1>2. OwnerInv' /\ HeaderInv'
  BY HpsOwner, HpsHeader
<1>3. PollInv' /\ PollTrue'
  BY HpsPoll
<1>4. SessionsBound'
  BY HpsBound
<1> QED
  BY <1>1, <1>2, <1>3, <1>4

-----------------------------------------------------------------------------
(* The FPGA and the rest, while the header stands                          *)

\* With the header and the HPS alone, the owner and the header stay explained.
LEMMA StillHps ==
  ASSUME QuietInv, OwnerInv, HeaderInv, UNCHANGED ddr, UNCHANGED hpsVars, History
  PROVE  /\ OwnerInv' /\ HeaderInv' /\ UNCHANGED instances
         /\ Intact' = Intact /\ Used' = Used
<1>1. UNCHANGED instances
  BY DEF History, hpsVars
<1>2. Serving' = Serving /\ Candidate' = Candidate /\ Early' = Early
  BY DEF hpsVars, Serving, Candidate, Early
<1>3. OwnerInv'
  BY <1>2 DEF OwnerInv, Granted, hpsVars
<1>4. HeaderInv'
  BY <1>1, <1>2 DEF HeaderInv, Untouched, hpsVars
<1>5. Intact' = Intact /\ Used' = Used
  BY <1>2 DEF Intact, Untouched, Used, hpsVars
<1> QED
  BY <1>1, <1>3, <1>4, <1>5

\* An answer that moves the state machine comes to the state that waits for it.
LEMMA AnswerTurns ==
  ASSUME QuietInv, Answer
  PROVE  /\ queue' = NoCommand /\ phase' = "ready" /\ queue.answered
         /\ UNCHANGED <<ddr, restartPending, policy>>
         /\ \/ /\ phase = "ready"
               /\ UNCHANGED <<state, word, session, policyAcked, faultVars,
                              serviceRestart>>
            \/ /\ phase = "waiting" /\ queue.cmd = state /\ queue.word = word
               /\ \/ state = "readCounter" /\ CounterAnswer
                  \/ state = "readAck" /\ AckAnswer
                  \/ state = "policyAck" /\ PolicyAnswer
                  \/ state = "poll" /\ PollAnswer
  BY DEF Answer, QuietInv, Own, CounterAnswer, AckAnswer, PolicyAnswer, PollAnswer

\* A command that is executed keeps UsedInv.
LEMMA AnswerUsed ==
  ASSUME QuietInv, TokenInv, UsedInv, OwnerInv, HeaderInv, PollInv, SessionsBound,
         Answer, UNCHANGED hpsVars, History
  PROVE  UsedInv'
<1>1. /\ UNCHANGED <<ddr, instances>> /\ Used' = Used /\ queue'.cmd = "none"
  BY AnswerTurns, StillHps DEF NoCommand
<1>2. /\ Begun(state') => Begun(state)
      /\ Emptied(state', word')
  <2>1. CASE UNCHANGED <<state, word>>
    BY <2>1 DEF UsedInv
  <2>2. CASE state = "readCounter" /\ CounterAnswer
    BY <2>2 DEF CounterAnswer, Begun, Reinit, Emptied
  <2>3. CASE state = "readAck" /\ AckAnswer
    <3>1. ddr.session # ddr.request /\ word' = 1 /\ state' \in {"clear", "readAck"}
      BY <2>3 DEF QuietInv, Reached, AckAnswer
    <3> QED
      BY <2>3, <3>1 DEF Begun, Emptied
  <2>4. CASE state \in {"policyAck", "poll"} /\ (PolicyAnswer \/ PollAnswer)
    <3>1. state' \in {"poll", "policyAck", "writeFault"}
      BY <2>4 DEF PolicyAnswer, PollAnswer, TakeFault
    <3> QED
      BY <2>4, <3>1 DEF Begun, Reinit, Emptied
  <2> QED
    BY <2>1, <2>2, <2>3, <2>4, AnswerTurns
<1>3. UNCHANGED mine
  BY DEF hpsVars
<1>4. Emptied(state, word)' /\ Emptied(queue.cmd, queue.word)'
  BY <1>1, <1>2 DEF Emptied
<1>5. ~Begun(queue'.cmd)
  BY <1>1 DEF Begun, Reinit
<1> QED
  BY <1>1, <1>2, <1>3, <1>4, <1>5 DEF UsedInv

\* Two of the polled words are about the service.
LEMMA PollWordsThere ==
  /\ Len(PollWords) = 6
  /\ \A w \in 1 .. 6 :
       /\ PollWords[w] = "service" <=> w = 1
       /\ PollWords[w] = "beatOut" <=> w = 4
  BY DEF PollWords

\* Once the console was released, only a fault or a new session takes it back.
LEMMA AnswerPoll ==
  ASSUME QuietInv, TokenInv, UsedInv, OwnerInv, HeaderInv, PollInv, PollTrue,
         SessionsBound, Answer, UNCHANGED hpsVars, UNCHANGED option, History
  PROVE  PollInv' /\ PollTrue'
<1>1. /\ UNCHANGED <<ddr, instances, restartPending, policy, option>> /\ Used' = Used
      /\ phase' = "ready" /\ ~queue'.answered
  BY AnswerTurns, StillHps DEF NoCommand
<1>2. PollTrue'
  BY <1>1 DEF PollTrue
<1>3. CASE phase = "ready"
  <2>1. UNCHANGED <<state, word, session, policyAcked, fault, serviceReady,
                    startupComplete, serviceRestart>>
    BY <1>3, AnswerTurns DEF faultVars
  <2>2. everReleased' => everReleased \/ Released'
    BY DEF History
  <2>3. Released' = Released
    BY <1>1, <2>1 DEF Released, Initialized
  <2> QED
    BY <1>1, <1>2, <2>1, <2>2, <2>3 DEF PollInv, Restarting
<1>4. CASE state \in {"readCounter", "readAck"} /\ (CounterAnswer \/ AckAnswer)
  <2>1. /\ UNCHANGED <<fault, serviceReady, startupComplete, serviceRestart>>
        /\ state' \in {"writeRequest", "clear", "readAck"}
    BY <1>4 DEF CounterAnswer, AckAnswer, faultVars
  <2>2. ~serviceReady /\ ~Released /\ ~Released'
    BY <1>4, <2>1 DEF PollInv, Released, Initialized
  <2>3. everReleased' => everReleased
    BY <2>2 DEF History
  <2> QED
    BY <1>1, <1>2, <2>1, <2>2, <2>3 DEF PollInv, Restarting
<1>5. CASE state = "policyAck" /\ PolicyAnswer
  <2>1. UNCHANGED <<session, serviceRestart>> /\ word' = 1
    BY <1>5 DEF PolicyAnswer
  <2>2. CASE policyAcked /\ ~PolicyMatches
    <3>1. state' = "writeFault" /\ fault' = TRUE /\ serviceReady' = FALSE
      BY <1>5, <2>2 DEF PolicyAnswer, TakeFault
    <3> QED
      BY <1>1, <1>2, <2>1, <3>1 DEF PollInv
  <2>3. CASE ~(policyAcked /\ ~PolicyMatches)
    <3>1. /\ state' = "poll" /\ policyAcked' = PolicyMatches
          /\ UNCHANGED <<fault, serviceReady, startupComplete>>
      BY <1>5, <2>3 DEF PolicyAnswer, faultVars
    <3>2. Released => Released'
      BY <1>1, <2>1, <2>3, <3>1 DEF Released, Initialized
    <3>3. everReleased' => everReleased \/ Released'
      BY DEF History
    <3> QED
      BY <1>1, <1>2, <1>5, <2>1, <3>1, <3>2, <3>3 DEF PollInv, Restarting
  <2> QED
    BY <2>2, <2>3
<1>6. CASE state = "poll" /\ PollAnswer /\ phase = "waiting" /\ queue.word = word
           /\ queue.cmd = state
  <2>0. /\ word \in 1 .. 6 /\ UNCHANGED <<session, policyAcked>> /\ queue.answered
        /\ PollWords[word] = "service" <=> word = 1
        /\ Len(PollWords) = 6
    BY <1>6, PollWordsThere, AnswerTurns DEF PollInv, PollAnswer
  <2>1. CASE PollFaults
    <3>1. state' = "writeFault" /\ fault' = TRUE /\ serviceReady' = FALSE
      BY <1>6, <2>1 DEF PollAnswer, TakeFault
    <3> QED
      BY <1>1, <1>2, <2>0, <3>1 DEF PollInv
  <2>2. CASE ~PollFaults /\ AsksRestart
    <3>1. /\ serviceRestart' = TRUE /\ serviceReady' = FALSE
          /\ UNCHANGED <<state, word, fault>>
      BY <1>6, <2>2 DEF PollAnswer
    <3> QED
      BY <1>1, <1>2, <2>0, <3>1 DEF PollInv, Restarting
  <2>3. CASE ~PollFaults /\ ~AsksRestart
    <3>1. /\ serviceReady' = IF word = 1 THEN ServesSession ELSE serviceReady
          /\ \/ word = 6 /\ word' = 1 /\ state' = "policyAck"
                /\ startupComplete' = (startupComplete \/ serviceReady)
             \/ word < 6 /\ word' = word + 1 /\ UNCHANGED <<state, startupComplete>>
          /\ UNCHANGED <<fault, serviceRestart>>
      BY <1>6, <2>0, <2>3 DEF PollAnswer
    <3>2. word' \in 1 .. 6
      BY <2>0, <3>1
    <3>3. ServesSession /\ word = 1 =>
            session # 0 /\ session <= Used /\ instances[session] # 0
      <4> SUFFICES ASSUME ServesSession, word = 1
                   PROVE  session # 0 /\ session <= Used /\ instances[session] # 0
        OBVIOUS
      <4>1. queue.data[1] = "Ready" /\ queue.data[2] = session
        BY DEF ServesSession
      <4>2. session \in Tokens /\ instances[session] # 0
        BY <1>6, <2>0, <4>1 DEF PollTrue
      <4> QED
        BY <4>2 DEF UsedInv, Tokens
    <3>4. serviceReady /\ word = 1 => ServesSession
      <4> SUFFICES ASSUME serviceReady, word = 1 PROVE ServesSession
        OBVIOUS
      <4>1. /\ queue.data = <<queue.data[1], queue.data[2]>>
            /\ queue.data[1] \in {"Ready", "Fault", "RestartRequested"}
        BY <1>6, <2>0 DEF PollTrue
      <4>2. /\ queue.data[1] # "Fault" /\ queue.data[2] \in {0, session}
            /\ queue.data[1] = "Ready" => queue.data[2] = session
        BY <2>0, <2>3 DEF PollFaults
      <4>3. queue.data[1] # "RestartRequested"
        BY <2>0, <2>3, <4>2 DEF AsksRestart
      <4> QED
        BY <4>1, <4>2, <4>3 DEF ServesSession
    <3>5. Released => Released'
      BY <1>1, <1>6, <2>0, <3>1, <3>4 DEF Released, Initialized
    <3>6. everReleased' => everReleased \/ Released'
      BY DEF History
    <3>7. serviceReady' => session # 0 /\ session <= Used /\ instances[session] # 0
      BY <3>1, <3>3 DEF PollInv
    <3> QED
      BY <1>1, <1>2, <1>6, <2>0, <3>1, <3>2, <3>5, <3>6, <3>7 DEF PollInv, Restarting
  <2> QED
    BY <2>1, <2>2, <2>3
<1> QED
  BY <1>3, <1>4, <1>5, <1>6, AnswerTurns

\* A session is due when the HPS has asked for it, and it may ask once for a mishap.
LEMMA AnswerBound ==
  ASSUME QuietInv, TokenInv, OwnerInv, HeaderInv, PollInv, SessionsBound,
         Answer, UNCHANGED hpsVars, History, UNCHANGED <<triggers, mishaps>>
  PROVE  SessionsBound'
<1>1. /\ UNCHANGED <<ddr, restartPending>> /\ phase' = "ready" /\ queue'.cmd = "none"
      /\ Used' = Used /\ Intact' = Intact
  BY AnswerTurns, StillHps DEF NoCommand
<1>2. PICK d \in 0 .. 3 :
        /\ IsDue(d) /\ (MayAsk => Used + d + 1 <= triggers + mishaps)
  BY DEF SessionsBound
<1>3. /\ triggers' \in Nat /\ triggers \in Nat /\ mishaps \in Nat
      /\ mishaps' \in 0 .. MaxMishaps /\ Used \in Nat
  BY <1>2, UsedEnough DEF SessionsBound
<1>4. PICK e \in 0 .. 3 :
        e = (IF restartPending' \/ serviceRestart' THEN 1 ELSE 0)
              + (IF \/ state' = "readCounter"
                    \/ state' = "writeRequest" /\ phase' = "ready" THEN 1 ELSE 0)
              + (IF queue'.cmd = "writeRequest" THEN 1 ELSE 0)
  OBVIOUS
<1>5. IsDue(e)'
  BY <1>4 DEF IsDue, Restarting
<1>6. CASE UNCHANGED serviceRestart
  <2>1. state' = state \/ (state = "readCounter" /\ state' = "writeRequest")
          \/ state' \notin {"readCounter", "writeRequest"}
    BY AnswerTurns DEF CounterAnswer, AckAnswer, PolicyAnswer, PollAnswer, TakeFault
  <2>2. state = "writeRequest" => phase = "ready"
    BY AnswerTurns
  <2>3. e <= d
    BY <1>1, <1>2, <1>4, <1>6, <2>1, <2>2 DEF IsDue, Restarting
  <2>4. state' \in {"poll", "policyAck"} => state \in {"poll", "policyAck"}
    BY AnswerTurns DEF CounterAnswer, AckAnswer, PolicyAnswer, PollAnswer, TakeFault
  <2>5. MayAsk' => MayAsk
    BY <1>1, <1>6, <2>4 DEF MayAsk
  <2>6. e + triggers + mishaps <= d + triggers' + mishaps'
    BY <1>3, <2>3
  <2> QED
    BY <1>1, <1>2, <1>3, <1>5, <2>5, <2>6, BoundStep
<1>7. CASE ~UNCHANGED serviceRestart
  <2>1. /\ state = "poll" /\ phase = "waiting" /\ queue.cmd = "poll"
        /\ queue.word = word /\ AsksRestart /\ serviceRestart' = TRUE /\ state' = state
    BY <1>7, AnswerTurns DEF CounterAnswer, AckAnswer, PolicyAnswer, PollAnswer
  <2>2. word = 1
    BY <2>1, PollWordsThere DEF PollInv, AsksRestart
  <2>3. ~serviceRestart
    BY <1>7, <2>1 DEF TokenInv, Numbers
  <2>4. MayAsk
    BY <2>1, <2>2, <2>3 DEF MayAsk, AsksRestart
  <2>5. e = 1
    BY <1>1, <1>4, <2>1
  <2>6. Used + d + 1 <= triggers + mishaps /\ d \in Nat
    BY <1>2, <2>4
  <2>7. Used + e <= triggers' + mishaps'
    BY <1>3, <2>5, <2>6
  <2>8. ~MayAsk'
    BY <2>1 DEF MayAsk
  <2> QED
    BY <1>1, <1>3, <1>5, <2>7, <2>8 DEF SessionsBound
<1> QED
  BY <1>6, <1>7

\* A command that is executed keeps ServiceInv.
LEMMA AnswerServes ==
  ASSUME QuietInv, TokenInv, ServiceInv, Answer, UNCHANGED hpsVars, UNCHANGED option,
         UNCHANGED <<triggers, mishaps>>, History
  PROVE  ServiceInv'
<1> USE DEF ServiceInv
<1>1. UNCHANGED ddr
  BY DEF Answer
<1> QED
  BY <1>1, StillHps, AnswerUsed, AnswerPoll, AnswerBound

\* A command that is sent keeps ServiceInv.
LEMMA IssueServes ==
  ASSUME QuietInv, TokenInv, ServiceInv, Issue, UNCHANGED hpsVars, UNCHANGED option,
         UNCHANGED <<triggers, mishaps>>, History
  PROVE  ServiceInv'
<1> USE DEF ServiceInv
<1>1. /\ UNCHANGED <<ddr, state, word, session, fault, serviceReady, startupComplete>>
      /\ UNCHANGED <<policyAcked, restartPending, serviceRestart, policy>>
      /\ queue = NoCommand /\ phase = "ready" /\ phase' = "issued"
      /\ queue' = [cmd |-> state, word |-> word, session |-> session, flag |-> policy,
                   answered |-> FALSE, data |-> <<>>]
      /\ state \notin {"wait", "faultHold"}
  BY DEF Issue, faultVars
<1>2. /\ OwnerInv' /\ HeaderInv' /\ UNCHANGED instances
      /\ Intact' = Intact /\ Used' = Used
  BY <1>1, StillHps
<1>3. /\ queue'.cmd = state /\ queue'.word = word /\ queue'.flag = policy
      /\ ~queue'.answered /\ queue.cmd = "none"
  BY <1>1 DEF NoCommand
<1>4. UsedInv'
  <2>1. Emptied(state, word)' /\ Emptied(queue.cmd, queue.word)'
    BY <1>1, <1>3 DEF UsedInv, Emptied
  <2>2. UNCHANGED mine
    BY DEF hpsVars
  <2> QED
    BY <1>1, <1>2, <1>3, <2>1, <2>2 DEF UsedInv
<1>5. PollInv'
  <2>1. Released' = Released
    BY <1>1 DEF Released, Initialized
  <2>2. everReleased' => everReleased \/ Released'
    BY DEF History
  <2> QED
    BY <1>1, <1>2, <1>3, <2>1, <2>2 DEF PollInv, Restarting
<1>6. PollTrue'
  BY <1>3 DEF PollTrue
<1>7. SessionsBound'
  <2>1. PICK d \in 0 .. 3 : IsDue(d)
    BY DEF SessionsBound
  <2>2. IsDue(d)'
    BY <1>1, <1>3, <2>1 DEF IsDue, Restarting
  <2>3. MayAsk' => MayAsk
    BY <1>1, <1>2 DEF MayAsk
  <2>4. /\ triggers' \in Nat /\ mishaps' \in 0 .. MaxMishaps
        /\ d + triggers + mishaps <= d + triggers' + mishaps'
    BY <2>1, UsedEnough DEF SessionsBound
  <2> QED
    BY <1>2, <2>1, <2>2, <2>3, <2>4, BoundStep
<1> QED
  BY <1>2, <1>4, <1>5, <1>6, <1>7

\* Arithmetic of what is due.
LEMMA NoMoreDue ==
  ASSUME NEW d \in Nat, NEW e \in Nat, NEW x \in Nat, NEW y \in Nat, NEW w \in Nat,
         e <= d, w >= y
  PROVE  e + x + y <= d + x + w
  OBVIOUS

\* A start, a fault or a reset.
LEMMA TurnServes ==
  ASSUME QuietInv, TokenInv, ServiceInv, UNCHANGED <<ddr, queue>>, UNCHANGED hpsVars,
         History, UNCHANGED triggers,
         mishaps' = mishaps \/ (mishaps < MaxMishaps /\ mishaps' = mishaps + 1),
         \/ Start /\ UNCHANGED option
         \/ (HeartbeatTimeout \/ ExternalFault) /\ UNCHANGED option
         \/ BridgeReset
  PROVE  ServiceInv'
<1> USE DEF ServiceInv
<1>1. /\ OwnerInv' /\ HeaderInv' /\ UNCHANGED instances
      /\ Intact' = Intact /\ Used' = Used
  BY StillHps
<1>2. /\ state' \in {"wait", "readCounter", "writeFault"}
      /\ serviceReady' = FALSE /\ phase' \in {"ready", phase} /\ phase' # "waiting"
      /\ state' = "writeFault" =>
           fault' = TRUE /\ UNCHANGED <<policy, option, restartPending>>
      /\ state' # "writeFault" => policy' = option' /\ phase' = "ready"
      /\ restartPending' \/ serviceRestart' => restartPending \/ serviceRestart
      /\ state' = "readCounter" => /\ restartPending \/ serviceRestart
                                   /\ ~restartPending' /\ ~serviceRestart'
  <2>1. CASE Start /\ UNCHANGED option
    BY <2>1 DEF Start, LatchPolicy, Restarting
  <2>2. CASE (HeartbeatTimeout \/ ExternalFault) /\ UNCHANGED option
    BY <2>2 DEF HeartbeatTimeout, ExternalFault, TakeFault
  <2>3. CASE BridgeReset
    BY <2>3 DEF BridgeReset
  <2> QED
    BY <2>1, <2>2, <2>3
<1>3. UsedInv'
  <2>1. Emptied(state, word)' /\ Emptied(queue.cmd, queue.word)'
    BY <1>2 DEF UsedInv, Emptied
  <2>2. ~Begun(state') /\ UNCHANGED mine
    BY <1>2 DEF Begun, Reinit, hpsVars
  <2> QED
    BY <1>1, <2>1, <2>2 DEF UsedInv
<1>4. PollInv'
  <2>1. everReleased' => state' = "writeFault"
    BY <1>2 DEF History
  <2> QED
    BY <1>1, <1>2, <2>1 DEF PollInv
<1>5. PollTrue'
  BY <1>1, <1>2 DEF PollTrue
<1>6. SessionsBound'
  <2>1. PICK d \in 0 .. 3 : IsDue(d)
    BY DEF SessionsBound
  <2>2. PICK e \in 0 .. 3 :
          e = (IF restartPending' \/ serviceRestart' THEN 1 ELSE 0)
                + (IF state' = "readCounter" THEN 1 ELSE 0)
                + (IF queue'.cmd = "writeRequest" THEN 1 ELSE 0)
    OBVIOUS
  <2>3. IsDue(e)'
    BY <1>2, <2>2 DEF IsDue, Restarting
  <2>4. e <= d
    BY <1>2, <2>1, <2>2 DEF IsDue, Restarting
  <2>5. ~MayAsk'
    BY <1>2 DEF MayAsk
  <2>6. /\ triggers' \in Nat /\ triggers \in Nat /\ mishaps \in Nat
        /\ mishaps' \in 0 .. MaxMishaps /\ mishaps' \in Nat /\ mishaps' >= mishaps
        /\ triggers' = triggers
    BY <2>1, UsedEnough, SessionAssumption DEF SessionsBound
  <2>7. e + triggers + mishaps <= d + triggers' + mishaps'
    <3>1. d \in Nat /\ e \in Nat
      OBVIOUS
    <3> QED
      BY <2>4, <2>6, <3>1, NoMoreDue
  <2> QED
    BY <1>1, <2>1, <2>3, <2>5, <2>6, <2>7, BoundStep
<1> QED
  BY <1>1, <1>3, <1>4, <1>5, <1>6

\* A load or a reset by the user, or scan-out.
LEMMA IdleServes ==
  ASSUME QuietInv, TokenInv, ServiceInv, Trigger \/ Scanout, History
  PROVE  ServiceInv'
<1> USE DEF ServiceInv
<1>1. /\ UNCHANGED <<ddr, queue, state, word, phase, session, hpsVars>>
      /\ UNCHANGED <<fault, serviceReady, startupComplete, policyAcked>>
      /\ UNCHANGED <<serviceRestart, policy, mishaps>>
      /\ \/ /\ triggers' = triggers + 1 /\ restartPending' = TRUE
         \/ /\ UNCHANGED <<triggers, restartPending, option>>
  BY DEF Trigger, Scanout, fpgaVars, faultVars
<1>2. /\ OwnerInv' /\ HeaderInv' /\ UNCHANGED instances
      /\ Intact' = Intact /\ Used' = Used
  BY <1>1, StillHps
<1>3. UsedInv'
  <2>1. Emptied(state, word)' /\ Emptied(queue.cmd, queue.word)'
    BY <1>1 DEF UsedInv, Emptied
  <2> QED
    BY <1>1, <1>2, <2>1 DEF UsedInv, hpsVars
<1>4. PollInv'
  <2>1. restartPending' = restartPending => Released' = Released
    BY <1>1 DEF Released, Initialized
  <2>2. everReleased' => everReleased \/ Released'
    BY DEF History
  <2> QED
    BY <1>1, <1>2, <2>1, <2>2 DEF PollInv, Restarting
<1>5. PollTrue'
  BY <1>1, <1>2 DEF PollTrue
<1>6. SessionsBound'
  <2>1. PICK d \in 0 .. 3 : IsDue(d)
    BY DEF SessionsBound
  <2>2. PICK e \in 0 .. 3 :
          e = (IF restartPending' \/ serviceRestart' THEN 1 ELSE 0)
                + (IF \/ state = "readCounter"
                      \/ state = "writeRequest" /\ phase = "ready" THEN 1 ELSE 0)
                + (IF queue.cmd = "writeRequest" THEN 1 ELSE 0)
    OBVIOUS
  <2>3. IsDue(e)'
    BY <1>1, <2>2 DEF IsDue, Restarting
  <2>4. e <= d \/ (e <= d + 1 /\ triggers' = triggers + 1)
    BY <1>1, <2>1, <2>2 DEF IsDue, Restarting
  <2>5. MayAsk' => MayAsk
    BY <1>1, <1>2 DEF MayAsk
  <2>6. triggers \in Nat /\ mishaps \in Nat /\ mishaps' = mishaps
    BY <1>1, <2>1, UsedEnough
  <2>7. /\ triggers' \in Nat /\ mishaps' \in 0 .. MaxMishaps
        /\ e + triggers + mishaps <= d + triggers' + mishaps'
    BY <1>1, <2>1, <2>2, <2>4, <2>6 DEF SessionsBound
  <2> QED
    BY <1>2, <2>1, <2>3, <2>5, <2>7, BoundStep
<1> QED
  BY <1>2, <1>3, <1>4, <1>5, <1>6

-----------------------------------------------------------------------------
(* The FPGA's commands                                                     *)

\* What a command does to it.
LEMMA EffectParts ==
  ASSUME Kinds, ddr' = Effect(queue)
  PROVE  /\ queue.cmd = "writeRequest" =>
              /\ ddr'.request = queue.session
              /\ ddr'.magic = ddr.magic /\ ddr'.ack = ddr.ack
              /\ ddr'.session = ddr.session /\ ddr'.service = ddr.service
              /\ ddr'.accepted = ddr.accepted /\ ddr'.policy = ddr.policy
         /\ queue.cmd # "writeRequest" =>
              ddr'.request = ddr.request /\ ddr'.ack = ddr.ack
         /\ queue.cmd \notin {"writeQuiesce", "writeMagic"} => ddr'.magic = ddr.magic
         /\ queue.cmd = "writeQuiesce" => ddr'.magic = "H3DQ"
         /\ queue.cmd = "writeMagic" => ddr'.magic = "H3D1"
         /\ ddr'.session =
              IF queue.cmd = "config" THEN queue.session
              ELSE IF queue.cmd = "clear" /\ queue.word = 1 THEN 0 ELSE ddr.session
         /\ IF queue.cmd = "clear" /\ queue.word = 3
            THEN ddr'.service = "Offline" /\ ddr'.accepted = 0
            ELSE ddr'.service = ddr.service /\ ddr'.accepted = ddr.accepted
         /\ ddr'.policy =
              IF queue.cmd = "writePolicy" THEN Policy(queue.session, queue.flag)
              ELSE IF queue.cmd = "clearPolicyCommit" THEN NoPolicy ELSE ddr.policy
<1>1. CASE queue.cmd \in {"writeRequest", "writeQuiesce", "config", "writeMagic"}
  BY <1>1, EffectIs DEF Kinds
<1>2. CASE queue.cmd = "clear"
  <2>1. queue.word \in 1 .. 4 /\ ddr' = Cleared(ClearWords[queue.word])
    BY <1>2, EffectIs DEF Kinds
  <2>2. CASE queue.word = 1
    <3>1. ddr' = [ddr EXCEPT !.session = 0]
      BY <2>1, <2>2, WordsThere DEF Cleared
    <3> QED
      BY <1>2, <2>2, <3>1 DEF Kinds
  <2>3. CASE queue.word = 2
    <3>1. ddr' = [ddr EXCEPT !.fpgaFault = FALSE, !.hpsFault = FALSE]
      BY <2>1, <2>3, WordsThere DEF Cleared
    <3> QED
      BY <1>2, <2>3, <3>1 DEF Kinds
  <2>4. CASE queue.word = 3
    <3>1. ddr' = [ddr EXCEPT !.service = "Offline", !.accepted = 0]
      BY <2>1, <2>4, WordsThere DEF Cleared
    <3> QED
      BY <1>2, <2>4, <3>1 DEF Kinds
  <2>5. CASE queue.word = 4
    <3>1. ddr' = [ddr EXCEPT !.beat = FALSE]
      BY <2>1, <2>5, WordsThere DEF Cleared
    <3> QED
      BY <1>2, <2>5, <3>1 DEF Kinds
  <2> QED
    BY <2>1, <2>2, <2>3, <2>4, <2>5
<1>3. CASE queue.cmd \in {"clearPolicyAck", "clearPolicyCommit", "writePolicy",
                          "writeFault"}
  BY <1>3 DEF Effect, Kinds
<1>4. CASE queue.cmd = "poll"
  <2>1. ddr' = ddr \/ ddr' = [ddr EXCEPT !.beat = FALSE]
    BY <1>4 DEF Effect
  <2> QED
    BY <1>4, <2>1 DEF Kinds
<1>5. CASE queue.cmd \in {"none", "policyAck", "readCounter", "readAck"}
  BY <1>5 DEF Effect
<1> QED
  BY <1>1, <1>2, <1>3, <1>4, <1>5 DEF Kinds, Commands, Reads, Reinit

\* A command of a session that begins finds its request granted.
LEMMA ReinitGranted ==
  ASSUME QuietInv, OwnerInv, queue.cmd \in Reinit
  PROVE  /\ Granted /\ ddr.request = queue.session /\ ddr.ack = ddr.request
         /\ ~Serving /\ ~service /\ pc \notin Stores
         /\ (ddr.magic # "H3D1" /\ Unaware) \/ Misled
  BY CalmNow DEF QuietInv, Reached, Granted, Calm, OwnerInv

\* A new token is the one after those that are used.
LEMMA AcceptCounts ==
  ASSUME QuietInv, TokenInv, SessionsBound, Accept
  PROVE  /\ queue.cmd = "writeRequest" =>
              /\ ddr'.request = Used + 1 /\ Used' = Used + 1 /\ Used + 1 < MaxToken
         /\ queue.cmd # "writeRequest" => Used' = Used
         /\ Used \in Nat
<1>1. Kinds /\ ddr' = Effect(queue)
  BY AcceptMoves DEF QuietInv
<1>2. PICK d \in 0 .. 3 : IsDue(d)
  BY DEF SessionsBound
<1>3. CASE queue.cmd = "writeRequest"
  <2>1. ddr'.request = NextToken(ddr.request) /\ ddr.request \in 0 .. MaxToken
    BY <1>1, <1>3, EffectParts DEF TokenInv, Newest, Numbers
  <2>2. /\ Used \in Nat /\ MaxToken \in Nat /\ Used + d < MaxToken /\ d >= 1
    BY <1>2, <1>3, UsedEnough, DueAtLeast
  <2>3. ddr'.request = Used + 1
    BY <2>1, <2>2 DEF NextToken, Used
  <2> QED
    BY <1>3, <2>2, <2>3 DEF Used
<1>4. CASE queue.cmd # "writeRequest"
  BY <1>1, <1>2, <1>4, EffectParts, UsedEnough DEF Used
<1> QED
  BY <1>3, <1>4

\* An answer that is taken keeps UsedInv.
LEMMA AcceptUsed ==
  ASSUME QuietInv, TokenInv, UsedInv, SessionsBound, Accept, UNCHANGED hpsVars, History
  PROVE  UsedInv'
<1>1. /\ Kinds /\ Own /\ ddr' = Effect(queue) /\ UNCHANGED <<instances, mine>>
      /\ queue.cmd # "none" /\ MaxToken \in Nat
  BY AcceptMoves, Enough DEF QuietInv, History, hpsVars
<1>2. Begun(queue.cmd) => ddr.request \in 1 .. MaxToken - 1
  BY DEF UsedInv
<1>3. queue.cmd \in Reinit => ddr.request = queue.session /\ Begun(queue.cmd)
  BY DEF QuietInv, Reached, Begun
<1>4. /\ Emptied(queue.cmd, queue.word) /\ Emptied(state, word)
  BY DEF UsedInv
<1>5. Emptied(queue.cmd, queue.word)'
  <2>1. queue'.cmd = "none" \/ (queue'.cmd = queue.cmd /\ IsRead(queue))
    <3>1. CASE IsRead(queue)
      BY <1>1, <3>1, AcceptMoves DEF Kinds
    <3>2. CASE ~IsRead(queue)
      BY <1>1, <3>2, AcceptMoves DEF NoCommand
    <3> QED
      BY <3>1, <3>2
  <2> QED
    BY <2>1 DEF Emptied, IsRead, Reads
<1>6. Emptied(state, word)'
  <2>1. CASE Plain(state')
    BY <2>1 DEF Plain, Emptied, Reinit
  <2>2. CASE IsRead(queue) /\ state = queue.cmd
    BY <2>2, AcceptMoves, <1>1 DEF IsRead, Reads, Emptied
  <2>3. CASE state = queue.cmd /\ word = queue.word /\ Advance /\ ~IsRead(queue)
    <3>1. state \notin {"wait", "readCounter", "readAck", "policyAck", "faultHold"}
      BY <1>1, <2>3 DEF IsRead, Reads, Kinds, Commands, Reinit
    <3>2. CASE state = "clear"
      <4>1. /\ word \in 1 .. 4 /\ state' \in {"clear", "config"}
        BY <1>1, <2>3, <3>1, <3>2, Advances DEF Kinds
      <4>2. ddr'.session = 0
        BY <1>1, <1>4, <2>3, <3>2, <4>1, EffectParts DEF Emptied
      <4>3. ddr'.request = ddr.request /\ ddr.request # 0
        BY <1>1, <1>2, <1>3, <2>3, <3>2, EffectParts DEF Reinit
      <4> QED
        BY <4>1, <4>2, <4>3 DEF Emptied
    <3>3. CASE state # "clear"
      <4>1. state' \notin {"clear", "config"}
        BY <1>1, <2>3, <3>1, <3>3, Advances DEF Kinds, Commands, Reads, Reinit
      <4> QED
        BY <4>1 DEF Emptied
    <3> QED
      BY <3>2, <3>3
  <2> QED
    BY <1>1, <2>1, <2>2, <2>3, AcceptMoves
<1>7. Begun(state') \/ Begun(queue'.cmd) => ddr'.request \in 1 .. MaxToken - 1
  <2>1. CASE queue.cmd = "writeRequest"
    BY <1>1, <2>1, AcceptCounts
  <2>2. CASE queue.cmd # "writeRequest"
    <3>1. ddr'.request = ddr.request
      BY <1>1, <2>2, EffectParts
    <3>2. Begun(state') => Begun(state) \/ Begun(queue.cmd)
      BY <2>2, AcceptTurns DEF Begun, Reinit
    <3>3. Begun(queue'.cmd) => Begun(queue.cmd)
      <4>1. CASE IsRead(queue)
        BY <1>1, <4>1, AcceptMoves DEF Kinds
      <4>2. CASE ~IsRead(queue)
        BY <1>1, <4>2, AcceptMoves DEF NoCommand, Begun, Reinit
      <4> QED
        BY <4>1, <4>2
    <3> QED
      BY <3>1, <3>2, <3>3 DEF UsedInv
  <2> QED
    BY <2>1, <2>2
<1>8. /\ ddr'.session <= Used' /\ ddr'.accepted <= Used' /\ mine' <= Used'
      /\ \A s \in Tokens : instances'[s] # 0 => s <= Used'
  <2>1. /\ ddr.session <= Used /\ ddr.accepted <= Used /\ mine <= Used
        /\ \A s \in Tokens : instances[s] # 0 => s <= Used
        /\ ddr.session \in Nat /\ ddr.accepted \in Nat /\ mine \in Nat
        /\ Tokens \subseteq Nat
    BY <1>1 DEF UsedInv, Kinds, Tokens
  <2>2. \/ ddr'.session \in {ddr.session, 0}
        \/ queue.cmd = "config" /\ ddr'.session = Used
    <3>1. queue.cmd = "config" => queue.session = Used
      BY <1>2, <1>3 DEF Used, Reinit
    <3> QED
      BY <1>1, <3>1, EffectParts
  <2>3. ddr'.accepted \in {ddr.accepted, 0}
    BY <1>1, EffectParts
  <2>4. Used \in Nat /\ Used' \in Nat /\ Used <= Used'
    BY AcceptCounts
  <2>5. /\ ddr'.session <= Used' /\ ddr'.accepted <= Used' /\ mine' <= Used'
    BY <1>1, <2>1, <2>2, <2>3, <2>4
  <2>6. ASSUME NEW s \in Tokens, instances[s] # 0 PROVE s <= Used'
    <3>1. s \in Nat /\ s <= Used
      BY <2>1, <2>6
    <3> QED
      BY <2>4, <3>1
  <2> QED
    BY <1>1, <2>5, <2>6
<1>9. ddr'.request # 0 /\ ddr'.session # ddr'.request => instances'[ddr'.request] = 0
  <2>1. CASE queue.cmd = "writeRequest"
    <3>1. /\ ddr'.request = Used + 1 /\ Used + 1 < MaxToken /\ Used \in Nat
      BY <2>1, AcceptCounts
    <3>2. ddr'.request \in Tokens /\ ~(ddr'.request <= Used)
      BY <1>1, <3>1 DEF Tokens
    <3> QED
      BY <1>1, <3>2 DEF UsedInv
  <2>2. CASE queue.cmd # "writeRequest"
    <3>1. ddr'.request = ddr.request
      BY <1>1, <2>2, EffectParts
    <3>2. ddr.request # 0 /\ ddr.session # ddr.request => instances[ddr.request] = 0
      BY DEF UsedInv
    <3>3. CASE queue.cmd = "config"
      BY <1>1, <1>3, <3>1, <3>3, EffectParts DEF Reinit
    <3>4. CASE queue.cmd = "clear"
      BY <1>1, <1>4, <3>1, <3>2, <3>4 DEF Emptied
    <3>5. CASE queue.cmd \notin {"config", "clear"}
      BY <1>1, <3>1, <3>2, <3>5, EffectParts
    <3> QED
      BY <3>3, <3>4, <3>5
  <2> QED
    BY <2>1, <2>2
<1> QED
  BY <1>1, <1>5, <1>6, <1>7, <1>8, <1>9 DEF UsedInv

\* An answer that is taken keeps OwnerInv.
LEMMA AcceptOwner ==
  ASSUME QuietInv, TokenInv, UsedInv, OwnerInv, SessionsBound, Accept,
         UNCHANGED hpsVars
  PROVE  OwnerInv'
<1>1. /\ Kinds /\ Own /\ ddr' = Effect(queue)
      /\ UNCHANGED <<pc, after, good, token, service, mine, flag>>
  BY AcceptMoves DEF QuietInv, hpsVars
<1>2. Serving' = Serving /\ Candidate' = Candidate
  BY DEF hpsVars, Serving, Candidate
<1>3. Serving \/ service =>
        /\ mine # 0 /\ mine = ddr'.session /\ ddr'.policy = Policy(mine, flag)
        /\ ~Granted'
  <2> SUFFICES ASSUME Serving \/ service
               PROVE  /\ mine = ddr'.session /\ ddr'.policy = Policy(mine, flag)
                      /\ mine # 0 /\ ~Granted'
    OBVIOUS
  <2>1. queue.cmd \notin Reinit
    BY ReinitGranted
  <2>2. /\ mine # 0 /\ mine = ddr.session /\ ddr.policy = Policy(mine, flag)
        /\ ~Granted
    BY DEF OwnerInv
  <2>3. ddr'.session = ddr.session /\ ddr'.policy = ddr.policy
    BY <1>1, <2>1, EffectParts DEF Reinit
  <2>4. CASE queue.cmd = "writeRequest"
    <3>1. ddr'.request # ddr.ack /\ ddr'.ack = ddr.ack
      BY <1>1, <2>4, EffectParts DEF QuietInv, Reached, Free
    <3> QED
      BY <2>2, <2>3, <3>1 DEF Granted
  <2>5. CASE queue.cmd = "writeQuiesce"
    <3>1. ddr.ack # ddr.request
      BY <2>2, <2>5 DEF QuietInv, Reached, Granted
    <3>2. ddr'.request = ddr.request /\ ddr'.ack = ddr.ack
      BY <1>1, <2>5, EffectParts
    <3> QED
      BY <2>2, <2>3, <3>1, <3>2 DEF Granted
  <2>6. CASE queue.cmd \notin {"writeRequest", "writeQuiesce"}
    <3>1. ddr'.request = ddr.request /\ ddr'.ack = ddr.ack /\ ddr'.magic = ddr.magic
      BY <1>1, <2>1, <2>6, EffectParts DEF Reinit
    <3> QED
      BY <2>2, <2>3, <3>1 DEF Granted
  <2> QED
    BY <2>4, <2>5, <2>6
<1>4. (pc = "checkEnd" /\ good /\ after = "session") \/ pc = "readEpoch" =>
        mine # 0 /\ (mine = ddr'.session \/ mine # ddr'.request)
  <2> SUFFICES ASSUME (pc = "checkEnd" /\ good /\ after = "session") \/ pc = "readEpoch"
               PROVE  mine # 0 /\ (mine = ddr'.session \/ mine # ddr'.request)
    OBVIOUS
  <2>1. mine # 0 /\ (mine = ddr.session \/ mine # ddr.request)
    BY DEF OwnerInv
  <2>2. CASE queue.cmd = "writeRequest"
    <3>1. ddr'.request = Used + 1 /\ mine <= Used /\ Used \in Nat /\ mine \in Nat
      BY <1>1, <2>2, AcceptCounts DEF UsedInv, Kinds
    <3>2. mine # ddr'.request
      BY <3>1
    <3> QED
      BY <2>1, <3>2
  <2>3. CASE queue.cmd \in Reinit
    <3>1. Misled
      BY <2>3, ReinitGranted DEF Unaware
    <3>2. mine # ddr.request /\ ddr'.request = ddr.request
      BY <1>1, <2>3, <3>1, EffectParts DEF Misled, Reinit
    <3> QED
      BY <2>1, <3>2
  <2>4. CASE queue.cmd \notin Reinit \cup {"writeRequest"}
    BY <1>1, <2>1, <2>4, EffectParts DEF Reinit
  <2> QED
    BY <2>2, <2>3, <2>4
<1>5. pc = "readPolicy" => mine # 0 /\ (mine = ddr'.session \/ mine # token)
  <2>1. CASE queue.cmd \in Reinit
    BY <2>1, ReinitGranted DEF Unaware, Misled, OwnerInv
  <2>2. CASE queue.cmd \notin Reinit
    BY <1>1, <2>2, EffectParts DEF Reinit, OwnerInv
  <2> QED
    BY <2>1, <2>2
<1> QED
  BY <1>1, <1>2, <1>3, <1>4, <1>5 DEF OwnerInv

\* An answer that is taken keeps HeaderInv.
LEMMA AcceptHeader ==
  ASSUME QuietInv, UsedInv, OwnerInv, HeaderInv, Accept, UNCHANGED hpsVars, History
  PROVE  HeaderInv'
<1>1. /\ Kinds /\ ddr' = Effect(queue)
      /\ UNCHANGED <<pc, after, good, mine, instances>>
  BY AcceptMoves DEF QuietInv, hpsVars, History
<1>2. Serving' = Serving /\ Candidate' = Candidate /\ Early' = Early
  BY DEF hpsVars, Serving, Candidate, Early
<1>3. ddr'.policy = Policy(ddr'.policy.session, ddr'.policy.flag)
  BY <1>1, EffectParts DEF HeaderInv, Policy, NoPolicy
<1>4. \/ /\ queue.cmd = "clear" /\ queue.word = 3
         /\ ddr'.service = "Offline" /\ ddr'.accepted = 0
      \/ ddr'.service = ddr.service /\ ddr'.accepted = ddr.accepted
  BY <1>1, EffectParts
<1>5. Serving => ddr'.service = ddr.service /\ ddr'.accepted = ddr.accepted
  BY <1>4, ReinitGranted DEF Reinit
<1>6. pc = "storeReady" => Serving
  BY DEF Serving
<1>7. ddr'.session # 0 =>
        (instances[ddr'.session] # 0 =>
           /\ ddr'.accepted = ddr'.session
           /\ ddr'.service \in {"Ready", "Fault", "RestartRequested"})
  <2>1. CASE queue.cmd = "config"
    <3>1. ddr'.session = ddr.request
      BY <1>1, <2>1, EffectParts, ReinitGranted DEF Reinit
    <3>2. ddr.session = 0 /\ ddr.request # 0
      BY <2>1 DEF UsedInv, Emptied, Begun, Reinit
    <3>3. instances[ddr.request] = 0
      BY <3>2 DEF UsedInv
    <3> QED
      BY <3>1, <3>3
  <2>2. CASE queue.cmd = "clear"
    <3>1. queue.word = 1 \/ ddr.session = 0
      BY <1>1, <2>2 DEF Kinds, UsedInv, Emptied
    <3>2. ddr'.session = 0
      BY <1>1, <2>2, <3>1, EffectParts
    <3> QED
      BY <3>2
  <2>3. CASE queue.cmd \notin {"config", "clear"}
    <3>1. /\ ddr'.session = ddr.session
          /\ ddr'.service = ddr.service /\ ddr'.accepted = ddr.accepted
      BY <1>1, <2>3, EffectParts
    <3> QED
      BY <3>1 DEF HeaderInv
  <2> QED
    BY <2>1, <2>2, <2>3
<1> QED
  BY <1>1, <1>2, <1>3, <1>4, <1>5, <1>6, <1>7 DEF HeaderInv, Untouched

\* While the FPGA polls, it is its own commands that the fabric takes.
LEMMA PollsOwn ==
  ASSUME QuietInv, Accept, state \in {"poll", "policyAck"}
  PROVE  /\ queue.cmd = state /\ queue.word = word /\ state' = state
         /\ phase = "issued"
<1>1. queue.cmd # "none" /\ ~queue.answered
  BY AcceptMoves DEF QuietInv
<1>2. queue.cmd = state /\ queue.word = word /\ phase = "issued"
  BY <1>1 DEF QuietInv, Own
<1> QED
  BY <1>2, AcceptTurns DEF Reinit

\* What the header tells of a service that lives or of none.
LEMMA IntactAsksNothing ==
  ASSUME HeaderInv, Intact
  PROVE  ddr.service # "RestartRequested"
<1>1. CASE Serving /\ Candidate
  BY <1>1 DEF HeaderInv, Early, Untouched
<1>2. CASE Serving /\ ~Candidate
  BY <1>2 DEF HeaderInv
<1> QED
  BY <1>1, <1>2 DEF Intact, Untouched

\* The answer of a poll of the service is what the header tells of it.
LEMMA AcceptAnswers ==
  ASSUME QuietInv, Accept, queue'.answered
  PROVE  /\ queue'.cmd = queue.cmd /\ queue'.word = queue.word
         /\ queue.cmd = "poll" /\ queue.word = 1 =>
              queue'.data = <<ddr.service, ddr.accepted>>
<1>1. Kinds /\ Own /\ ~queue.answered
  BY AcceptMoves DEF QuietInv
<1>2. IsRead(queue)
  BY <1>1, AcceptMoves DEF NoCommand
<1>3. queue' = [queue EXCEPT !.answered = TRUE, !.data = Data(queue)]
  BY <1>1, <1>2, AcceptMoves
<1>4. queue.cmd = "poll" /\ queue.word = 1 =>
        Data(queue) = <<ddr.service, ddr.accepted>>
  BY PollWordsThere DEF Data
<1> QED
  BY <1>1, <1>3, <1>4 DEF Kinds

\* An answer that is taken keeps PollInv and PollTrue.
LEMMA AcceptPoll ==
  ASSUME QuietInv, TokenInv, UsedInv, OwnerInv, HeaderInv, PollInv, PollTrue,
         SessionsBound, Accept, UNCHANGED hpsVars, UNCHANGED option, History
  PROVE  PollInv' /\ PollTrue'
<1>1. /\ Kinds /\ Own /\ ddr' = Effect(queue)
      /\ UNCHANGED <<instances, option, session, policyAcked, fault, serviceReady>>
      /\ UNCHANGED <<startupComplete, restartPending, serviceRestart, policy>>
      /\ queue.cmd # "none" /\ ~queue.answered
  BY AcceptMoves DEF QuietInv, History, hpsVars, Accept, faultVars
<1>2. Used \in Nat /\ (Used' = Used \/ Used' = Used + 1)
  BY AcceptCounts
<1>3. phase' # "ready" => queue'.flag = policy
  <2>1. CASE IsRead(queue)
    <3>1. queue' = [queue EXCEPT !.answered = TRUE, !.data = Data(queue)]
      BY <1>1, <2>1, AcceptMoves
    <3>2. phase' # "ready" => phase # "ready"
      BY DEF Accept
    <3> QED
      BY <1>1, <3>1, <3>2 DEF PollInv, Kinds
  <2>2. CASE ~IsRead(queue)
    BY <1>1, <2>2, AcceptMoves
  <2> QED
    BY <2>1, <2>2
<1>4. PollTrue'
  <2> SUFFICES ASSUME queue'.answered, queue'.cmd = "poll", queue'.word = 1
               PROVE  /\ queue'.data = <<queue'.data[1], queue'.data[2]>>
                      /\ queue'.data[1] = "Ready" =>
                           /\ queue'.data[2] \in Tokens
                           /\ instances'[queue'.data[2]] # 0
                      /\ phase' = "waiting" /\ serviceReady' =>
                           queue'.data[1] \in {"Ready", "Fault", "RestartRequested"}
    BY DEF PollTrue
  <2>1. queue'.data = <<ddr.service, ddr.accepted>>
    BY AcceptAnswers
  <2>2. ddr.service = "Ready" =>
          ddr.accepted \in Tokens /\ instances[ddr.accepted] # 0
    BY <1>1, UsedTokens DEF HeaderInv, UsedInv, Kinds
  <2>3. serviceReady => ddr.service \in {"Ready", "Fault", "RestartRequested"}
    BY PollingIs DEF PollInv, HeaderInv
  <2> QED
    BY <1>1, <2>1, <2>2, <2>3
<1>5. CASE state \in {"poll", "policyAck"}
  <2>1. queue.cmd = state /\ queue.word = word /\ state' = state /\ phase = "issued"
    BY <1>5, PollsOwn
  <2>2. ddr'.magic = ddr.magic /\ ddr'.request = ddr.request /\ ddr'.policy = ddr.policy
    BY <1>1, <1>5, <2>1, EffectParts
  <2>3. state' = "poll" => word' \in 1 .. 6
    <3> SUFFICES ASSUME state' = "poll" PROVE word' \in 1 .. 6
      OBVIOUS
    <3>1. word \in 1 .. 6
      BY <2>1 DEF PollInv
    <3>2. CASE IsRead(queue)
      BY <1>1, <3>1, <3>2, AcceptMoves
    <3>3. CASE ~IsRead(queue)
      <4>1. word = 4
        BY <2>1, <3>1, <3>3, PollWordsThere DEF IsRead
      <4>2. word' = word + 1
        BY <1>1, <2>1, <3>3, <4>1, PollWordsThere DEF Accept, Advance
      <4> QED
        BY <4>1, <4>2
    <3> QED
      BY <3>2, <3>3
  <2>4. serviceReady => session # 0 /\ session <= Used' /\ instances[session] # 0
    BY <1>1, <1>2 DEF PollInv, Kinds
  <2>5. everReleased' => Released' \/ fault' \/ Restarting'
    <3>1. Released' = Released
      BY <1>1, <2>1 DEF Released, Initialized
    <3> QED
      BY <1>1, <3>1 DEF History, PollInv, Restarting
  <2> QED
    BY <1>1, <1>3, <1>4, <1>5, <2>1, <2>2, <2>3, <2>4, <2>5 DEF PollInv
<1>6. CASE state \notin {"poll", "policyAck"}
  <2>1. ~serviceReady
    BY <1>6 DEF PollInv
  <2>2. everReleased' => Released' \/ fault' \/ Restarting'
    <3>1. Released => fault
      BY <2>1 DEF Released
    <3> QED
      BY <1>1, <2>1, <3>1 DEF History, PollInv, Restarting, Released
  <2>3. state' \in {"writeFault", "faultHold"} => fault
    BY AcceptTurns DEF PollInv, Reinit
  <2>4. state' \in {"poll", "policyAck"} =>
          /\ ddr'.magic = "H3D1" /\ session = ddr'.request
          /\ ddr'.policy = Policy(session, policy) /\ word' \in 1 .. 6
    <3> SUFFICES ASSUME state' \in {"poll", "policyAck"}
                 PROVE  /\ ddr'.magic = "H3D1" /\ session = ddr'.request
                        /\ ddr'.policy = Policy(session, policy) /\ word' \in 1 .. 6
      OBVIOUS
    <3>1. /\ state = "writeMagic" /\ queue.cmd = state
          /\ phase = "issued" /\ ~IsRead(queue)
      BY <1>6, AcceptTurns DEF Reinit, Reads
    <3>2. word' = 1 /\ session = queue.session
      BY <1>1, <3>1, AcceptMoves, Advances DEF Accept, Own
    <3>3. ddr.request = queue.session
      BY <3>1, ReinitGranted DEF Reinit
    <3>4. /\ ddr'.magic = "H3D1" /\ ddr'.request = ddr.request
          /\ ddr'.policy = ddr.policy
      BY <1>1, <3>1, EffectParts
    <3> QED
      BY <3>1, <3>2, <3>3, <3>4 DEF PollInv
  <2>5. state' = "writeMagic" => ddr'.policy = Policy(session, policy)
    <3> SUFFICES ASSUME state' = "writeMagic"
                 PROVE  ddr'.policy = Policy(session, policy)
      OBVIOUS
    <3>1. state = "writePolicy" /\ queue.cmd = state /\ phase = "issued"
      <4>1. /\ state = queue.cmd /\ ~IsRead(queue) /\ phase = "issued"
            /\ state \in {"writeRequest", "writeQuiesce", "poll"} \cup Reinit
        BY AcceptTurns DEF Reads
      <4>2. Advance
        BY <1>1, <4>1, AcceptMoves DEF Accept
      <4> QED
        BY <1>1, <4>1, <4>2, Advances DEF Reinit
    <3>2. queue.session = session /\ queue.flag = policy
      BY <1>1, <3>1 DEF Own, PollInv
    <3> QED
      BY <1>1, <3>1, <3>2, EffectParts
  <2> QED
    BY <1>1, <1>3, <1>4, <2>1, <2>2, <2>3, <2>4, <2>5 DEF PollInv
<1> QED
  BY <1>5, <1>6

\* The taking of a request uses a session that was due; nothing is due because the
\* header is the new session's.
LEMMA AcceptBound ==
  ASSUME QuietInv, TokenInv, UsedInv, OwnerInv, HeaderInv, PollInv, SessionsBound,
         Accept, UNCHANGED hpsVars, History, UNCHANGED <<triggers, mishaps>>
  PROVE  SessionsBound'
<1>1. /\ Kinds /\ Own /\ ddr' = Effect(queue)
      /\ UNCHANGED <<restartPending, serviceRestart>>
      /\ queue.cmd # "none" /\ ~queue.answered
  BY AcceptMoves DEF QuietInv, Accept
<1>2. PICK d \in 0 .. 3 : IsDue(d)
  BY DEF SessionsBound
<1>3. /\ triggers \in Nat /\ mishaps \in Nat /\ Used \in Nat
      /\ mishaps' \in 0 .. MaxMishaps /\ triggers' \in Nat
      /\ Used + d <= triggers + mishaps
  BY <1>2, UsedEnough DEF SessionsBound
<1>4. MayAsk' => MayAsk /\ queue.cmd # "writeRequest"
  <2> SUFFICES ASSUME MayAsk' PROVE MayAsk /\ queue.cmd # "writeRequest"
    OBVIOUS
  <2>1. state' \in {"poll", "policyAck"} /\ ~serviceRestart
    BY <1>1 DEF MayAsk
  <2>2. CASE state \in {"poll", "policyAck"}
    <3>1. queue.cmd = state /\ queue.word = word /\ phase = "issued"
      BY <2>2, PollsOwn
    <3>2. ddr'.service = ddr.service /\ ddr'.accepted = ddr.accepted
      BY <1>1, <2>2, <3>1, EffectParts
    <3>3. Intact' = Intact
      BY <3>2 DEF Intact, Untouched, Serving, hpsVars
    <3>4. CASE ~Intact'
      BY <2>1, <2>2, <3>1, <3>3, <3>4 DEF MayAsk
    <3>5. CASE /\ phase' = "waiting" /\ queue'.cmd = "poll" /\ queue'.word = 1
               /\ queue'.data[1] = "RestartRequested"
      <4>1. queue'.answered
        BY <1>1, <3>1, <3>5 DEF Accept, NoCommand
      <4>2. ddr.service = "RestartRequested"
        BY <3>5, <4>1, AcceptAnswers
      <4> QED
        BY <2>1, <2>2, <3>1, <4>2, IntactAsksNothing DEF MayAsk
    <3> QED
      BY <3>4, <3>5 DEF MayAsk
  <2>3. CASE state \notin {"poll", "policyAck"}
    <3>1. state = "writeMagic" /\ queue.cmd = state /\ ~IsRead(queue)
      BY <2>1, <2>3, AcceptTurns DEF Reinit, Reads
    <3>2. queue' = NoCommand
      BY <1>1, <3>1, AcceptMoves
    <3>3. Untouched /\ (Unaware \/ Misled)
      BY <3>1, ReinitGranted DEF QuietInv, Reached, Reinit
    <3>4. Untouched'
      BY <1>1, <3>1, <3>3, EffectParts DEF Untouched
    <3>5. Intact'
      BY <3>3, <3>4 DEF Intact, Unaware, Misled, hpsVars
    <3> QED
      BY <3>2, <3>5 DEF MayAsk, NoCommand
  <2> QED
    BY <2>2, <2>3
<1>5. PICK e \in 0 .. 3 :
        e = (IF restartPending' \/ serviceRestart' THEN 1 ELSE 0)
              + (IF \/ state' = "readCounter"
                    \/ state' = "writeRequest" /\ phase' = "ready" THEN 1 ELSE 0)
              + (IF queue'.cmd = "writeRequest" THEN 1 ELSE 0)
  OBVIOUS
<1>6. IsDue(e)'
  BY <1>5 DEF IsDue, Restarting
<1>7. state' # "writeRequest" /\ (state' = "readCounter" => state = "readCounter")
  BY AcceptTurns DEF Reads, Reinit
<1>8. queue'.cmd = "writeRequest" => FALSE
  <2>1. CASE IsRead(queue)
    BY <1>1, <2>1, AcceptMoves DEF IsRead, Reads, Kinds
  <2>2. CASE ~IsRead(queue)
    BY <1>1, <2>2, AcceptMoves DEF NoCommand
  <2> QED
    BY <2>1, <2>2
<1>9. CASE queue.cmd = "writeRequest"
  <2>1. e + 1 <= d /\ Used' = Used + 1
    BY <1>1, <1>2, <1>5, <1>7, <1>8, <1>9, AcceptCounts DEF IsDue, Restarting
  <2>2. Used' + e <= triggers' + mishaps'
    BY <1>3, <2>1
  <2> QED
    BY <1>3, <1>4, <1>5, <1>6, <1>9, <2>2 DEF SessionsBound
<1>10. CASE queue.cmd # "writeRequest"
  <2>1. e <= d /\ Used' = Used
    BY <1>1, <1>2, <1>5, <1>7, <1>8, <1>10, AcceptCounts DEF IsDue, Restarting
  <2>2. e + triggers + mishaps <= d + triggers' + mishaps'
    BY <1>3, <2>1
  <2> QED
    BY <1>2, <1>3, <1>4, <1>5, <1>6, <2>1, <2>2, BoundStep
<1> QED
  BY <1>9, <1>10

\* An answer that is taken keeps ServiceInv.
LEMMA AcceptServes ==
  ASSUME QuietInv, TokenInv, ServiceInv, Accept, UNCHANGED hpsVars, UNCHANGED option,
         UNCHANGED <<triggers, mishaps>>, History
  PROVE  ServiceInv'
<1> USE DEF ServiceInv
<1>1. UsedInv' /\ OwnerInv' /\ HeaderInv'
  BY AcceptUsed, AcceptOwner, AcceptHeader
<1>2. PollInv' /\ PollTrue'
  BY AcceptPoll
<1>3. SessionsBound'
  BY AcceptBound
<1> QED
  BY <1>1, <1>2, <1>3

-----------------------------------------------------------------------------
(* Every step, and what the properties say                                 *)

\* Every step keeps ServiceInv.
LEMMA StepServes ==
  ASSUME QuietInv, TokenInv, ServiceInv, [Next]_vars
  PROVE  ServiceInv'
<1>1. CASE FpgaStep /\ History
  <2>1. /\ UNCHANGED hpsVars /\ UNCHANGED option /\ UNCHANGED <<triggers, mishaps>>
        /\ Issue \/ Accept \/ Answer \/ Start
    BY <1>1 DEF FpgaStep, Fpga
  <2>2. CASE Start
    <3>1. UNCHANGED <<ddr, queue>>
      BY <2>2 DEF Start
    <3> QED
      BY <1>1, <2>1, <2>2, <3>1, TurnServes
  <2> QED
    BY <1>1, <2>1, <2>2, IssueServes, AcceptServes, AnswerServes
<1>2. CASE /\ TimeoutStep \/ (Mishap /\ ExternalFault /\ UNCHANGED <<option, hpsVars>>)
           /\ History
  <2>1. /\ UNCHANGED <<ddr, queue, triggers>> /\ UNCHANGED hpsVars
        /\ mishaps' = mishaps \/ (mishaps < MaxMishaps /\ mishaps' = mishaps + 1)
        /\ (HeartbeatTimeout \/ ExternalFault) /\ UNCHANGED option
    BY <1>2 DEF TimeoutStep, HeartbeatTimeout, Mishap, ExternalFault, TakeFault, hpsVars
  <2> QED
    BY <1>2, <2>1, TurnServes
<1>3. CASE Mishap /\ BridgeReset /\ UNCHANGED <<ddr, queue, hpsVars>> /\ History
  <2>1. /\ UNCHANGED hpsVars /\ UNCHANGED triggers
        /\ mishaps < MaxMishaps /\ mishaps' = mishaps + 1
    BY <1>3 DEF Mishap
  <2> QED
    BY <1>3, <2>1, TurnServes
<1>4. CASE /\ \/ HpsStep \/ StartStep
              \/ /\ Mishap /\ (ServiceFails \/ HpsDies)
                 /\ UNCHANGED <<ddr, queue, fpgaVars, option>>
           /\ History
  <2>1. UNCHANGED <<queue, fpgaVars, option, triggers>>
    BY <1>4 DEF HpsStep, StartStep, Mishap
  <2>2. CASE HpsStep
    <3>1. Hps => Quiet \/ Writes \/ AckStore
      BY LooksFrame DEF QuietInv, Hps, Quiet, Looks, Writes
    <3>2. Hps /\ UNCHANGED mishaps
      BY <2>2 DEF HpsStep
    <3> QED
      BY <1>4, <2>1, <3>1, <3>2, HpsServes
  <2>3. CASE StartStep
    <3>1. HpsStarts /\ UNCHANGED ddr /\ UNCHANGED mishaps /\ Quiet
      BY <2>3 DEF StartStep, Quiet
    <3> QED
      BY <1>4, <2>1, <3>1, HpsServes
  <2>4. CASE Mishap /\ (ServiceFails \/ HpsDies) /\ UNCHANGED ddr
    <3>1. Quiet /\ mishaps < MaxMishaps /\ mishaps' = mishaps + 1
      BY <2>4 DEF Mishap, Quiet
    <3> QED
      BY <1>4, <2>1, <3>1, HpsServes
  <2> QED
    BY <1>4, <2>2, <2>3, <2>4
<1>5. CASE (Trigger \/ Scanout) /\ History
  BY <1>5, IdleServes
<1>6. CASE UNCHANGED vars
  <2>1. /\ UNCHANGED <<ddr, queue, state, word, phase, session, fault, serviceReady>>
        /\ UNCHANGED <<startupComplete, policyAcked, restartPending, serviceRestart>>
        /\ UNCHANGED <<policy, option, hpsVars, triggers, mishaps, everReleased>>
        /\ UNCHANGED instances
    BY <1>6 DEF vars, fpgaVars, faultVars
  <2>2. Serving' = Serving /\ Candidate' = Candidate /\ Early' = Early
    BY <2>1 DEF hpsVars, Serving, Candidate, Early
  <2>3. UsedInv'
    BY <2>1 DEF ServiceInv, UsedInv, Used, Begun, Emptied, hpsVars
  <2>4. OwnerInv' /\ HeaderInv'
    BY <2>1, <2>2 DEF ServiceInv, OwnerInv, HeaderInv, Granted, Untouched, hpsVars
  <2>5. PollInv' /\ PollTrue'
    BY <2>1 DEF ServiceInv, PollInv, PollTrue, Released, Initialized, Restarting, Used
  <2>6. SessionsBound'
    <3>1. MayAsk' = MayAsk
      BY <2>1, <2>2 DEF MayAsk, Intact, Untouched, hpsVars
    <3>2. \A d \in 0 .. 3 : IsDue(d)' = IsDue(d)
      BY <2>1 DEF IsDue, Restarting
    <3> QED
      BY <2>1, <3>1, <3>2 DEF ServiceInv, SessionsBound, Used
  <2> QED
    BY <2>3, <2>4, <2>5, <2>6 DEF ServiceInv
<1> QED
  BY <1>1, <1>2, <1>3, <1>4, <1>5, <1>6 DEF Next, Mishap

\* ServiceInv holds at first.
LEMMA InitServes ==
  ASSUME Init
  PROVE  ServiceInv
<1>1. /\ MaxToken \in Nat /\ MaxMishaps \in Nat
  BY SessionAssumption
<1>2. /\ ddr.request \in {0, MaxToken} /\ ddr.session = 0 /\ ddr.accepted = 0
      /\ ddr.service = "Offline" /\ ddr.policy = NoPolicy /\ ddr.magic = "none"
      /\ instances = [s \in Tokens |-> 0] /\ mine = 0 /\ pc = "down" /\ ~service
      /\ ~good
      /\ state = "wait" /\ word = 1 /\ phase = "ready"
  BY DEF Init
<1>3. /\ ~fault /\ ~serviceReady /\ ~restartPending /\ ~serviceRestart
      /\ policy = option /\ ~everReleased /\ triggers = 0 /\ mishaps = 0
      /\ queue.cmd = "none" /\ ~queue.answered
  BY DEF Init, NoCommand
<1>4. Used = 0
  BY <1>2 DEF Used
<1>5. ~Serving /\ ~Candidate /\ ~Early
  BY <1>2 DEF Serving, Candidate, Early
<1>6. UsedInv
  <2>1. instances \in [Tokens -> 0 .. 1] /\ \A s \in Tokens : instances[s] = 0
    BY <1>2
  <2>2. ddr.request # 0 => instances[ddr.request] = 0
    BY <1>1, <1>2, <2>1, Enough DEF Tokens
  <2> QED
    BY <1>2, <1>3, <1>4, <2>1, <2>2 DEF UsedInv, Begun, Emptied, Reinit
<1>7. OwnerInv /\ HeaderInv
  BY <1>2, <1>5 DEF OwnerInv, HeaderInv, Policy, NoPolicy
<1>8. PollInv /\ PollTrue
  BY <1>2, <1>3 DEF PollInv, PollTrue
<1>9. SessionsBound
  <2>1. IsDue(0) /\ ~MayAsk
    BY <1>2, <1>3 DEF IsDue, Restarting, MayAsk
  <2>2. mishaps \in 0 .. MaxMishaps /\ Used + 0 <= triggers + mishaps
    BY <1>1, <1>3, <1>4
  <2> QED
    BY <2>1, <2>2 DEF SessionsBound
<1> QED
  BY <1>6, <1>7, <1>8, <1>9 DEF ServiceInv

\* The three invariants hold together.
THEOREM ServiceInvariant == Spec => [](QuietInv /\ TokenInv /\ ServiceInv)
<1>1. Init => ServiceInv
  BY InitServes
<1>2. /\ QuietInv /\ TokenInv /\ ServiceInv /\ [Next]_vars
      => ServiceInv'
  BY StepServes
<1> QED
  BY <1>1, <1>2, QuietInvariant, PTL DEF Spec

\* A helper that was restarted, at whatever step, never resumes a session: no session
\* sees two services become Ready, and the console runs only in one that saw one.
THEOREM ServesOnce == Spec => []OneServicePerSession
<1>1. QuietInv /\ TokenInv /\ ServiceInv => OneServicePerSession
  <2> SUFFICES ASSUME QuietInv, TokenInv, ServiceInv
               PROVE  OneServicePerSession
    OBVIOUS
  <2>1. \A s \in Tokens : instances[s] \in 0 .. 1
    BY DEF ServiceInv, UsedInv
  <2>2. Released => session \in Tokens /\ instances[session] # 0
    <3>1. session \in Nat
      BY DEF QuietInv, Kinds
    <3> QED
      BY <3>1, UsedTokens DEF ServiceInv, PollInv, Released
  <2> QED
    BY <2>1, <2>2 DEF OneServicePerSession
<1> QED
  BY <1>1, ServiceInvariant, PTL

\* While the console runs, the service that it runs against renders what the menu had
\* selected at the last load or reset, even if the helper was restarted meanwhile.
THEOREM MenuChoiceHolds == Spec => []MenuChoiceApplied
<1>1. QuietInv /\ TokenInv /\ ServiceInv => MenuChoiceApplied
  <2> SUFFICES ASSUME QuietInv, TokenInv, ServiceInv, Released
               PROVE  policy = option /\ (service => mine = session /\ flag = option)
    BY DEF MenuChoiceApplied
  <2>1. state \in {"poll", "policyAck"} /\ policy = option
    BY DEF ServiceInv, PollInv, Released
  <2>2. session = ddr.session /\ ddr.policy = Policy(session, policy)
    BY <2>1, PollingIs DEF ServiceInv, PollInv
  <2>3. service => mine = ddr.session /\ ddr.policy = Policy(mine, flag)
    BY DEF ServiceInv, OwnerInv
  <2> QED
    BY <2>1, <2>2, <2>3 DEF Policy
<1> QED
  BY <1>1, ServiceInvariant, PTL

\* Once taken from the guest CPUs, a session is not given back to them: a release is
\* the first of its session.
THEOREM ReleasesOnce == Spec => ReleasedOnce
<1>1. /\ QuietInv /\ TokenInv /\ ServiceInv /\ [Next]_vars
      => [Released' /\ ~Released => ~everReleased]_vars
  <2> SUFFICES ASSUME QuietInv, ServiceInv, Next, Released', ~Released, everReleased
               PROVE  FALSE
    OBVIOUS
  <2>1. fault \/ restartPending \/ serviceRestart
    BY DEF ServiceInv, PollInv, Restarting
  <2>2. /\ ~fault' /\ ~restartPending' /\ ~serviceRestart'
        /\ state' \notin {"wait", "readCounter"}
    BY DEF Released, Initialized
  <2>3. CASE Start \/ BridgeReset
    BY <2>2, <2>3 DEF Start, BridgeReset
  <2>4. CASE Issue \/ Accept
    BY <2>1, <2>2, <2>4 DEF Issue, Accept, faultVars
  <2>5. CASE Answer
    BY <2>1, <2>2, <2>5 DEF Answer, CounterAnswer, AckAnswer, PolicyAnswer, PollAnswer,
                            TakeFault, faultVars
  <2>6. CASE HeartbeatTimeout \/ ExternalFault
    BY <2>2, <2>6 DEF HeartbeatTimeout, ExternalFault, TakeFault
  <2>7. CASE UNCHANGED fpgaVars
    BY <2>1, <2>2, <2>7 DEF fpgaVars
  <2>8. CASE Trigger
    BY <2>2, <2>8 DEF Trigger
  <2> QED
    BY <2>3, <2>4, <2>5, <2>6, <2>7, <2>8
       DEF Next, FpgaStep, Fpga, TimeoutStep, HpsStep, StartStep, Scanout, Mishap
<1> QED
  BY <1>1, ServiceInvariant, PTL DEF Spec, ReleasedOnce
=============================================================================
