----------------------------- MODULE ReplayQueue -----------------------------
(***************************************************************************)
(* The replay queue of the HPS service.  The intake thread, which is the   *)
(* service's main loop, copies packets out of the shared DDR into an arena *)
(* and acknowledges them; the replay worker applies them in order.  There  *)
(* is no lock: each of two words (ReplaySpscState) and each of two indices *)
(* has one writer, the worker sleeps on the generation of ReplayWakeEvent  *)
(* and the intake on the word that the worker claims with.                 *)
(*                                                                         *)
(* Every access to a shared word is a step, in program order: the worker   *)
(* acquires what the intake released, the intake's stores to a slot depend *)
(* on its relaxed load of the claimed word, and registration and           *)
(* notification are read-modify-writes of one word.  The kernel compares a *)
(* futex word and goes to sleep in one step.                               *)
(* Packets are told apart by their number in the session.                  *)
(***************************************************************************)
EXTENDS Naturals, Sequences

CONSTANTS
  Capacity,     \* ReplayQueueCapacity
  WordSize,     \* 2^32: the words wrap
  MaxPackets    \* bound: packets of a session

ASSUME ReplayAssumption ==
  /\ Capacity \in Nat \ {0}
  /\ WordSize \in Nat /\ WordSize > Capacity
  /\ MaxPackets \in Nat

\* Seeded fault: no slot for the packet that is being replayed.
ArenaWithoutHead == Capacity

\* ReplayArenaCapacity: one slot more, for the packet that is being replayed.
ArenaCapacity == Capacity + 1

Slots == 0 .. ArenaCapacity - 1
Packets == 1 .. MaxPackets
Partial == 0        \* what an empty or half-written slot holds

VARIABLES
  published, claimed,          \* the words of ReplaySpscState
  generation, registered,      \* the word of ReplayWakeEvent, and its low bit
  stop, faulted,               \* replay_stop_, faulted_
  arena,
  \* the intake thread
  intake, writeIndex, parkedOn,
  \* the replay worker: what it saw last, and the slot it is reading
  worker, readIndex, seen, expected, active, reading,
  \* history
  accepted, replayed

words    == <<published, claimed>>
wake     == <<generation, registered>>
flags    == <<stop, faulted>>
producer == <<intake, writeIndex, parkedOn>>
consumer == <<worker, readIndex, seen, expected, active, reading>>
history  == <<accepted, replayed>>
vars     == <<words, wake, flags, arena, producer, consumer, history>>

Init ==
  /\ published = 0 /\ claimed = 0
  /\ generation = 0 /\ registered = 0
  /\ stop = FALSE /\ faulted = FALSE
  /\ arena = [s \in Slots |-> Partial]
  /\ intake = "poll" /\ writeIndex = 0 /\ parkedOn = 0
  /\ worker = "check" /\ readIndex = 0 /\ seen = 0 /\ expected = 0
  /\ active = 0 /\ reading = Partial
  /\ accepted = <<>> /\ replayed = <<>>

NextWord(w) == (w + 1) % WordSize
NextSlot(s) == (s + 1) % ArenaCapacity

\* The unsigned difference of two words.
Depth(p, c) == (p + WordSize - c) % WordSize

-----------------------------------------------------------------------------
(* The intake thread                                                       *)

IntakeMoves(from, to) ==
  /\ intake = from /\ intake' = to
  /\ UNCHANGED <<writeIndex, parkedOn, consumer, history>>

\* Seeded fault: the queue is full one packet late.
FullLate(c) == Depth(published, c) = Capacity + 1

Full(c) == Depth(published, c) = Capacity

\* poll() with capacity for one more packet.
HasCapacity ==
  /\ ~faulted /\ ~Full(claimed)
  /\ IntakeMoves("poll", "begin")
  /\ UNCHANGED <<words, wake, flags, arena>>

\* poll() with a full queue is about to sleep on the claimed word.
FindsFull ==
  /\ intake = "poll" /\ ~faulted /\ Full(claimed)
  /\ intake' = "park" /\ parkedOn' = claimed
  /\ UNCHANGED <<words, wake, flags, arena, writeIndex, consumer, history>>

\* FUTEX_WAIT sleeps only if nothing has been claimed since.
Park ==
  /\ IntakeMoves("park", IF claimed = parkedOn THEN "parked" ELSE "awake")
  /\ UNCHANGED <<words, wake, flags, arena>>

\* The time limit of a millisecond, or a signal.
ParkTimeout ==
  /\ IntakeMoves("parked", "awake")
  /\ UNCHANGED <<words, wake, flags, arena>>

AfterPark ==
  /\ IntakeMoves("awake", IF Full(claimed) THEN "poll" ELSE "begin")
  /\ UNCHANGED <<words, wake, flags, arena>>

\* There is no packet in the DDR.
BeginEmpty ==
  /\ IntakeMoves("begin", "poll")
  /\ UNCHANGED <<words, wake, flags, arena>>

\* Consumer::begin starts to copy a packet into the tail slot.
Begin ==
  /\ Len(accepted) < MaxPackets
  /\ IntakeMoves("begin", "fill")
  /\ arena' = [arena EXCEPT ![writeIndex] = Partial]
  /\ UNCHANGED <<words, wake, flags>>

\* The slot is filled, validated and acknowledged.
Fill ==
  /\ IntakeMoves("fill", "publish")
  /\ arena' = [arena EXCEPT ![writeIndex] = Len(accepted) + 1]
  /\ UNCHANGED <<words, wake, flags>>

\* ReplaySpscState::publish.
Publish ==
  /\ intake = "publish" /\ intake' = "notify"
  /\ writeIndex' = NextSlot(writeIndex)
  /\ published' = NextWord(published)
  /\ accepted' = Append(accepted, Len(accepted) + 1)
  /\ UNCHANGED <<claimed, wake, flags, arena, parkedOn, consumer, replayed>>

\* ReplayWakeEvent::notify: only a registered worker costs a system call.
Notify ==
  /\ IntakeMoves("notify", IF registered = 1 THEN "wake" ELSE "poll")
  /\ generation' = generation + 1
  /\ UNCHANGED <<words, registered, flags, arena>>

\* FUTEX_WAKE of the worker, if it sleeps.
WakeWorker == worker' = IF worker = "asleep" THEN "cancel" ELSE worker

Wake ==
  /\ intake = "wake" /\ intake' = "poll"
  /\ WakeWorker
  /\ UNCHANGED <<words, wake, flags, arena, writeIndex, parkedOn, readIndex,
                 seen, expected, active, reading, history>>

\* The session has ended, a packet is refused, or the worker has faulted: poll
\* returns and the service is destroyed.
Abandon ==
  /\ intake \in {"poll", "begin", "fill"}
  /\ intake' = "stop"
  /\ UNCHANGED <<words, wake, flags, arena, writeIndex, parkedOn, consumer,
                 history>>

\* stop_replay_worker: the flag, a notification and an unconditional wake.
Stop ==
  /\ IntakeMoves("stop", "stopNotify")
  /\ stop' = TRUE
  /\ UNCHANGED <<words, wake, faulted, arena>>

StopNotify ==
  /\ IntakeMoves("stopNotify", "stopWake")
  /\ generation' = generation + 1
  /\ UNCHANGED <<words, registered, flags, arena>>

\* Seeded fault: the destructor notifies, but wakes nobody.
JoinWithoutWake ==
  /\ IntakeMoves("stopWake", "join")
  /\ UNCHANGED <<words, wake, flags, arena>>

StopWake ==
  /\ intake = "stopWake" /\ intake' = "join"
  /\ WakeWorker
  /\ UNCHANGED <<words, wake, flags, arena, writeIndex, parkedOn, readIndex,
                 seen, expected, active, reading, history>>

Join ==
  /\ worker = "gone"
  /\ IntakeMoves("join", "gone")
  /\ UNCHANGED <<words, wake, flags, arena>>

\* The main loop makes another service for the next session.
NewService ==
  /\ intake = "gone"
  /\ published' = 0 /\ claimed' = 0 /\ generation' = 0 /\ registered' = 0
  /\ stop' = FALSE /\ faulted' = FALSE
  /\ arena' = [s \in Slots |-> Partial]
  /\ intake' = "poll" /\ writeIndex' = 0 /\ parkedOn' = 0
  /\ worker' = "check" /\ readIndex' = 0 /\ seen' = 0 /\ expected' = 0
  /\ active' = 0 /\ reading' = Partial
  /\ accepted' = <<>> /\ replayed' = <<>>

-----------------------------------------------------------------------------
(* The replay worker                                                       *)

WorkerMoves(from, to) ==
  /\ worker = from /\ worker' = to
  /\ UNCHANGED <<readIndex, active, producer, history>>

\* The head of the loop.
CheckStop ==
  /\ WorkerMoves("check", IF stop THEN "gone" ELSE "snapshot")
  /\ UNCHANGED <<words, wake, flags, arena, seen, expected, reading>>

\* consumer_snapshot.  Only the worker changes claimed, so it needs no copy.
Snapshot ==
  /\ seen' = published
  /\ \/ WorkerMoves("snapshot", IF published = claimed THEN "idle" ELSE "claim")
     \/ WorkerMoves("resnapshot", "recheck")
     \/ WorkerMoves("again", "idle")
  /\ UNCHANGED <<words, wake, flags, arena, expected, reading>>

\* The loop that waits, and the test behind it.
Idle ==
  /\ WorkerMoves("idle", IF stop THEN "gone"
                         ELSE IF seen = claimed THEN "register" ELSE "claim")
  /\ UNCHANGED <<words, wake, flags, arena, seen, expected, reading>>

\* prepare_wait.
Register ==
  /\ WorkerMoves("register", "resnapshot")
  /\ registered' = 1
  /\ expected' = generation
  /\ UNCHANGED <<words, generation, flags, arena, seen, reading>>

Recheck ==
  /\ WorkerMoves("recheck", IF ~stop /\ seen = claimed THEN "sleep" ELSE "cancel")
  /\ UNCHANGED <<words, wake, flags, arena, seen, expected, reading>>

\* Seeded fault: the kernel is not told which generation was seen.
AnyGeneration == TRUE

\* FUTEX_WAIT compares the event word with what prepare_wait returned.
NotNotified == generation = expected

Sleep ==
  /\ WorkerMoves("sleep", IF NotNotified THEN "asleep" ELSE "cancel")
  /\ UNCHANGED <<words, wake, flags, arena, seen, expected, reading>>

\* A signal ends the wait early.
Interrupted ==
  /\ WorkerMoves("asleep", "cancel")
  /\ UNCHANGED <<words, wake, flags, arena, seen, expected, reading>>

\* cancel_wait.
Cancel ==
  /\ WorkerMoves("cancel", "again")
  /\ registered' = 0
  /\ UNCHANGED <<words, generation, flags, arena, seen, expected, reading>>

\* The head slot is the worker's from here on.  The intake is woken if the
\* queue was full when the worker looked.
Claim ==
  /\ worker = "claim"
  /\ worker' = IF Depth(seen, claimed) = Capacity THEN "wakeIntake" ELSE "read"
  /\ active' = readIndex
  /\ readIndex' = NextSlot(readIndex)
  /\ claimed' = NextWord(claimed)
  /\ UNCHANGED <<published, wake, flags, arena, producer, seen, expected,
                 reading, history>>

WakeIntake ==
  /\ worker = "wakeIntake" /\ worker' = "read"
  /\ intake' = IF intake = "parked" THEN "awake" ELSE intake
  /\ UNCHANGED <<words, wake, flags, arena, writeIndex, parkedOn, readIndex,
                 seen, expected, active, reading, history>>

\* The worker starts to read the packet, ...
Read ==
  /\ WorkerMoves("read", "apply")
  /\ reading' = arena[active]
  /\ UNCHANGED <<words, wake, flags, arena, seen, expected>>

\* ... and has read and applied all of it.
Apply ==
  /\ worker = "apply" /\ worker' = "clear"
  /\ replayed' = Append(replayed,
                        IF arena[active] = reading THEN reading ELSE Partial)
  /\ UNCHANGED <<words, wake, flags, arena, producer, readIndex, seen, expected,
                 active, reading, accepted>>

\* A record is refused: fail() and the end of the thread.
ApplyFails ==
  /\ WorkerMoves("apply", "gone")
  /\ faulted' = TRUE
  /\ UNCHANGED <<words, wake, stop, arena, seen, expected, reading>>

Clear ==
  /\ WorkerMoves("clear", "check")
  /\ arena' = [arena EXCEPT ![active] = Partial]
  /\ UNCHANGED <<words, wake, flags, seen, expected, reading>>

-----------------------------------------------------------------------------
Intake ==
  \/ HasCapacity \/ FindsFull \/ Park \/ ParkTimeout \/ AfterPark
  \/ BeginEmpty \/ Begin \/ Fill \/ Publish \/ Notify \/ Wake

Ending == Stop \/ StopNotify \/ StopWake \/ Join

Worker ==
  \/ CheckStop \/ Snapshot \/ Idle \/ Register \/ Recheck \/ Sleep \/ Cancel
  \/ Claim \/ WakeIntake \/ Read \/ Apply \/ ApplyFails \/ Clear

Next ==
  \/ Intake \/ Ending \/ Worker
  \/ Abandon \/ Interrupted \/ NewService

Spec == Init /\ [][Next]_vars

\* Both threads are scheduled, and the time limit of the intake's sleep runs.
\* Nothing ends the worker's sleep but a wake, and no packet has to come.
FairSpec == Spec /\ WF_vars(Intake) /\ WF_vars(Ending) /\ WF_vars(Worker)

-----------------------------------------------------------------------------
(* Properties                                                              *)

IntakePC ==
  {"poll", "park", "parked", "awake", "begin", "fill", "publish", "notify",
   "wake", "stop", "stopNotify", "stopWake", "join", "gone"}
WorkerPC ==
  {"check", "snapshot", "idle", "register", "resnapshot", "recheck", "sleep",
   "asleep", "cancel", "again", "claim", "wakeIntake", "read", "apply", "clear",
   "gone"}

\* The worker owns the slot it has claimed.
Busy == worker \in {"wakeIntake", "read", "apply", "clear"}

\* The slots that hold packets not claimed yet.
Waiting ==
  {(readIndex + i) % ArenaCapacity : i \in 0 .. Depth(published, claimed) - 1}

\* The intake writes to no slot that waits to be replayed or is being replayed,
\* although its test of the depth is old by the time it writes
\* (replay_queue_has_capacity, and the one slot more of the arena).
SlotsApart ==
  intake \in {"fill", "publish"} =>
    writeIndex \notin Waiting /\ (Busy => writeIndex # active)

\* A worker that sleeps in the kernel although there is something to do is
\* about to be woken: no schedule of prepare_wait, the second look, the sleep,
\* publish and notify loses a notification.
NoLostWake ==
  worker = "asleep" /\ (published # claimed \/ stop) =>
    intake \in {"notify", "wake", "stopNotify", "stopWake"}

\* Packets are replayed in the order they were acknowledged, each whole and once.
Order == INSTANCE RecordStream WITH
           Token <- Packets, sent <- accepted, applied <- replayed
ReplaysInOrder == Order!Spec

\* What was acknowledged to the FPGA is replayed, unless the session ends first.
\* The intake always comes back to its poll, and a destructor always returns.
Progress ==
  /\ \A i \in Packets :
       i <= Len(accepted) ~> (i <= Len(replayed) \/ stop \/ faulted)
  /\ intake # "poll" ~> intake \in {"poll", "gone"}

-----------------------------------------------------------------------------
(* The inductive invariant behind the safety properties (ReplayQueueProofs) *)

Words == 0 .. WordSize - 1
Held  == Depth(published, claimed)      \* packets that wait in the queue

TypeOK ==
  /\ published \in Words /\ claimed \in Words /\ seen \in Words
  /\ parkedOn \in Words
  /\ generation \in Nat /\ expected \in Nat /\ registered \in {0, 1}
  /\ writeIndex \in Slots /\ readIndex \in Slots /\ active \in Slots
  /\ arena \in [Slots -> Packets \cup {Partial}]
  /\ reading \in Packets \cup {Partial}
  /\ intake \in IntakePC /\ worker \in WorkerPC

\* The indices run with the words, and whoever writes has a slot to spare.
IndexInv ==
  /\ Held <= Capacity
  /\ writeIndex = (readIndex + Held) % ArenaCapacity
  /\ Busy => readIndex = NextSlot(active)
  /\ intake \in {"begin", "fill", "publish"} => Held < Capacity
  /\ worker = "claim" => Held > 0
  /\ (worker = "idle" /\ seen # claimed) => Held > 0

\* Whoever publishes or stops after the worker looked notifies it after that.
WakeInv ==
  /\ registered = 1 <=>
       worker \in {"resnapshot", "recheck", "sleep", "asleep", "cancel"}
  /\ registered = 1 => expected <= generation
  /\ (worker = "recheck" /\ published # seen) =>
       intake = "notify" \/ generation # expected
  /\ (worker = "sleep" /\ (published # claimed \/ stop)) =>
       intake \in {"notify", "stopNotify"} \/ generation # expected
  /\ NoLostWake

\* The packets that have left the queue.
Claimed == Len(accepted) - Held

\* The slots hold the packets that are neither replayed nor dropped, in order.
ContentInv ==
  /\ Len(accepted) \in 0 .. MaxPackets /\ Held <= Len(accepted)
  /\ Len(replayed) \in Nat
  /\ accepted = [i \in 1 .. Len(accepted) |-> i]
  /\ replayed = [i \in 1 .. Len(replayed) |-> i]
  /\ \A i \in 0 .. Held - 1 :
       arena[(readIndex + i) % ArenaCapacity] = Claimed + 1 + i
  /\ worker \in {"wakeIntake", "read", "apply"} =>
       Len(replayed) + 1 = Claimed /\ arena[active] = Claimed
  /\ worker = "apply" => reading = Claimed
  /\ worker \notin {"wakeIntake", "read", "apply", "gone"} =>
       Len(replayed) = Claimed
  /\ intake = "publish" => arena[writeIndex] = Len(accepted) + 1
  /\ intake \in {"fill", "publish"} => Len(accepted) < MaxPackets

ReplayInv == TypeOK /\ IndexInv /\ WakeInv /\ ContentInv
=============================================================================
