-------------------------- MODULE ReplayQueueProofs --------------------------
(***************************************************************************)
(* Proofs about ReplayQueue, for every capacity, every size of the words   *)
(* and every number of packets.                                            *)
(***************************************************************************)
EXTENDS ReplayQueue, Integers, TLAPS

-----------------------------------------------------------------------------
(* Arithmetic of the words and of the indices                              *)

\* A remainder of a number below twice the divisor needs one subtraction.
LEMMA ModOnce ==
  ASSUME NEW n \in Nat \ {0}, NEW x \in 0 .. 2 * n - 1
  PROVE  x % n = IF x < n THEN x ELSE x - n
<1> DEFINE q == x \div n
           r == x % n
<1>1. x = n * q + r /\ r \in 0 .. n - 1 /\ q \in Int
  OBVIOUS
<1>2. CASE q = 0  BY <1>1, <1>2
<1>3. CASE q = 1  BY <1>1, <1>3
<1>4. CASE q <= -1
  <2>1. n * q <= -n
    BY <1>1, <1>4
  <2> QED
    BY <1>1, <2>1
<1>5. CASE q >= 2
  <2>1. n * q >= 2 * n
    BY <1>1, <1>5
  <2> QED
    BY <1>1, <2>1
<1> QED
  BY <1>1, <1>2, <1>3, <1>4, <1>5

\* The constants are numbers, and a depth fits in a word.
LEMMA Constants ==
  /\ Capacity \in Nat /\ Capacity >= 1
  /\ WordSize \in Nat /\ WordSize > Capacity
  /\ ArenaCapacity = Capacity + 1
  /\ Slots = 0 .. Capacity
  /\ MaxPackets \in Nat
  BY ReplayAssumption DEF ArenaCapacity, Slots

\* The depth as a plain difference, with the wrap made visible.
LEMMA DepthValue ==
  ASSUME NEW p \in Words, NEW c \in Words
  PROVE  Depth(p, c) = IF p < c THEN p + WordSize - c ELSE p - c
<1> DEFINE x == p + WordSize - c
<1>1. WordSize \in Nat \ {0} /\ x \in 0 .. 2 * WordSize - 1
  BY Constants DEF Words
<1>2. x % WordSize = IF x < WordSize THEN x ELSE x - WordSize
  BY <1>1, ModOnce
<1> QED
  BY <1>1, <1>2 DEF Depth, Words

\* The successor of a word, with the wrap made visible.
LEMMA NextWordValue ==
  ASSUME NEW w \in Words
  PROVE  NextWord(w) = IF w + 1 = WordSize THEN 0 ELSE w + 1
<1> DEFINE x == w + 1
<1>1. WordSize \in Nat \ {0} /\ x \in 0 .. 2 * WordSize - 1
  BY Constants DEF Words
<1>2. x % WordSize = IF x < WordSize THEN x ELSE x - WordSize
  <2> HIDE DEF x
  <2> QED  BY <1>1, ModOnce
<1> QED
  BY <1>1, <1>2 DEF NextWord, Words

\* A slot some way ahead of another, with the wrap made visible.
LEMMA SlotValue ==
  ASSUME NEW s \in Slots, NEW i \in 0 .. ArenaCapacity
  PROVE  (s + i) % ArenaCapacity =
           IF s + i < ArenaCapacity THEN s + i ELSE s + i - ArenaCapacity
<1>1. ArenaCapacity \in Nat \ {0}
  BY Constants
<1>2. ASSUME NEW x \in 0 .. 2 * ArenaCapacity - 1
      PROVE  x % ArenaCapacity = IF x < ArenaCapacity THEN x ELSE x - ArenaCapacity
  BY <1>1, ModOnce
<1>3. s \in Int /\ i \in Int /\ s + i \in 0 .. 2 * ArenaCapacity - 1
  BY Constants
<1> QED
  BY <1>1, <1>2, <1>3

\* No way ahead is the slot itself.
LEMMA SlotItself ==
  ASSUME NEW s \in Slots
  PROVE  (s + 0) % ArenaCapacity = s
<1>1. s \in 0 .. ArenaCapacity - 1 /\ ArenaCapacity \in Nat \ {0} /\ s + 0 = s
  BY Constants
<1>2. s % ArenaCapacity = s
  BY <1>1, ModOnce
<1> QED
  BY <1>1, <1>2

\* Publishing adds one to the depth, claiming takes one off.
LEMMA DepthSteps ==
  ASSUME NEW p \in Words, NEW c \in Words
  PROVE  /\ Depth(p, c) \in Words
         /\ Depth(p, c) = 0 <=> p = c
         /\ NextWord(p) \in Words
         /\ Depth(p, c) < Capacity => Depth(NextWord(p), c) = Depth(p, c) + 1
         /\ Depth(p, c) > 0 => Depth(p, NextWord(c)) = Depth(p, c) - 1
<1>1. NextWord(p) \in Words /\ NextWord(c) \in Words
  BY NextWordValue, Constants DEF Words
<1>2. Depth(p, c) = IF p < c THEN p + WordSize - c ELSE p - c
  BY DepthValue
<1>3. Depth(NextWord(p), c) =
        IF NextWord(p) < c THEN NextWord(p) + WordSize - c ELSE NextWord(p) - c
  BY <1>1, DepthValue
<1>4. Depth(p, NextWord(c)) =
        IF p < NextWord(c) THEN p + WordSize - NextWord(c) ELSE p - NextWord(c)
  BY <1>1, DepthValue
<1>5. /\ NextWord(p) = IF p + 1 = WordSize THEN 0 ELSE p + 1
      /\ NextWord(c) = IF c + 1 = WordSize THEN 0 ELSE c + 1
  BY NextWordValue
<1> QED
  BY <1>1, <1>2, <1>3, <1>4, <1>5, Constants DEF Words

\* Within one turn of the arena no slot comes twice.
LEMMA SlotsDiffer ==
  ASSUME NEW s \in Slots, NEW i \in 0 .. Capacity, NEW j \in 0 .. Capacity,
         i # j
  PROVE  (s + i) % ArenaCapacity # (s + j) % ArenaCapacity
<1>1. Capacity \in Nat /\ ArenaCapacity = Capacity + 1 /\ s \in 0 .. Capacity
  BY Constants
<1>2. (s + i) % ArenaCapacity =
        IF s + i < ArenaCapacity THEN s + i ELSE s + i - ArenaCapacity
  BY SlotValue, <1>1
<1>3. (s + j) % ArenaCapacity =
        IF s + j < ArenaCapacity THEN s + j ELSE s + j - ArenaCapacity
  BY SlotValue, <1>1
<1> QED
  BY <1>1, <1>2, <1>3

\* The slot after another is in the arena, and i slots after it are i + 1 after
\* that one.
LEMMA NextSlotSteps ==
  ASSUME NEW s \in Slots
  PROVE  /\ NextSlot(s) \in Slots
         /\ \A i \in 0 .. Capacity :
              (NextSlot(s) + i) % ArenaCapacity = (s + (i + 1)) % ArenaCapacity
         /\ \A i \in 0 .. Capacity :
              NextSlot((s + i) % ArenaCapacity) = (s + (i + 1)) % ArenaCapacity
         /\ \A i \in 0 .. Capacity : (s + i) % ArenaCapacity \in Slots
<1>1. Capacity \in Nat /\ ArenaCapacity = Capacity + 1 /\ Slots = 0 .. Capacity
  BY Constants
<1>2. NextSlot(s) = IF s + 1 < ArenaCapacity THEN s + 1 ELSE s + 1 - ArenaCapacity
  BY SlotValue, <1>1, Constants DEF NextSlot
<1>3. NextSlot(s) \in Slots
  BY <1>1, <1>2
<1>4. ASSUME NEW i \in 0 .. Capacity
      PROVE  /\ (NextSlot(s) + i) % ArenaCapacity = (s + (i + 1)) % ArenaCapacity
             /\ NextSlot((s + i) % ArenaCapacity) = (s + (i + 1)) % ArenaCapacity
             /\ (s + i) % ArenaCapacity \in Slots
  <2> DEFINE j == i + 1
             t == (s + i) % ArenaCapacity
             u == NextSlot(s)
  <2>1. /\ j \in 0 .. ArenaCapacity /\ i \in 0 .. ArenaCapacity
        /\ 1 \in 0 .. ArenaCapacity /\ u \in Slots
    BY <1>1, <1>3
  <2>2. (s + j) % ArenaCapacity =
          IF s + j < ArenaCapacity THEN s + j ELSE s + j - ArenaCapacity
    <3> HIDE DEF j
    <3> QED  BY <2>1, SlotValue
  <2>3. t = IF s + i < ArenaCapacity THEN s + i ELSE s + i - ArenaCapacity
    BY <2>1, SlotValue
  <2>4. (u + i) % ArenaCapacity =
          IF u + i < ArenaCapacity THEN u + i ELSE u + i - ArenaCapacity
    <3> HIDE DEF u
    <3> QED  BY <2>1, SlotValue
  <2>5. t \in Slots
    BY <1>1, <2>3
  <2>6. NextSlot(t) = IF t + 1 < ArenaCapacity THEN t + 1 ELSE t + 1 - ArenaCapacity
    <3> HIDE DEF t
    <3> QED  BY <2>1, <2>5, SlotValue DEF NextSlot
  <2>7. /\ (u + i) % ArenaCapacity = (s + j) % ArenaCapacity
        /\ NextSlot(t) = (s + j) % ArenaCapacity
    <3> HIDE DEF t, j, u
    <3>1. u = (IF s + 1 < ArenaCapacity THEN s + 1 ELSE s + 1 - ArenaCapacity)
          /\ j = i + 1
      BY <1>2 DEF u, j
    <3> QED  BY <1>1, <2>1, <2>2, <2>3, <2>4, <2>5, <2>6, <3>1
  <2> QED
    BY <2>5, <2>7
<1> QED
  BY <1>3, <1>4
-----------------------------------------------------------------------------
(* The inductive invariant                                                 *)

\* Every step keeps the types.
LEMMA TypeStep == TypeOK /\ ContentInv /\ [Next]_vars => TypeOK'
<1> SUFFICES ASSUME TypeOK, ContentInv, [Next]_vars PROVE TypeOK'
  OBVIOUS
<1>0. /\ 0 \in Slots /\ 0 \in Words
      /\ NextSlot(writeIndex) \in Slots /\ NextSlot(readIndex) \in Slots
      /\ NextWord(published) \in Words /\ NextWord(claimed) \in Words
  <2>1. /\ writeIndex \in Slots /\ readIndex \in Slots
        /\ published \in Words /\ claimed \in Words
    BY DEF TypeOK
  <2>2. 0 \in Slots /\ 0 \in Words
    BY Constants DEF Words
  <2> QED
    BY <2>1, <2>2, NextSlotSteps, DepthSteps
<1> USE DEF TypeOK, words, wake, flags, producer, consumer, history, IntakePC,
            WorkerPC, IntakeMoves, WorkerMoves
<1>1. CASE HasCapacity \/ FindsFull  BY <1>1 DEF HasCapacity, FindsFull
<1>2. CASE Park \/ ParkTimeout  BY <1>2 DEF Park, ParkTimeout
<1>3. CASE AfterPark  BY <1>3 DEF AfterPark
<1>4. CASE BeginEmpty \/ Begin  BY <1>4 DEF BeginEmpty, Begin
<1>5. CASE Fill
  <2>1. Len(accepted) + 1 \in Packets
    BY <1>5, Constants DEF Fill, ContentInv, Packets
  <2> QED
    BY <1>5, <2>1 DEF Fill
<1>6. CASE Publish  BY <1>0, <1>6 DEF Publish
<1>7. CASE Notify \/ Wake  BY <1>7 DEF Notify, Wake, WakeWorker
<1>8. CASE Abandon \/ Stop  BY <1>8 DEF Abandon, Stop
<1>9. CASE StopNotify \/ StopWake \/ Join
  BY <1>9 DEF StopNotify, StopWake, Join, WakeWorker
<1>10. CASE NewService  BY <1>0, <1>10 DEF NewService
<1>11. CASE CheckStop \/ Snapshot  BY <1>11 DEF CheckStop, Snapshot
<1>12. CASE Idle  BY <1>12 DEF Idle
<1>13. CASE Register \/ Recheck  BY <1>13 DEF Register, Recheck
<1>14. CASE Sleep \/ Cancel \/ Interrupted
  BY <1>14 DEF Sleep, Cancel, Interrupted
<1>15. CASE Claim  BY <1>0, <1>15 DEF Claim
<1>16. CASE WakeIntake \/ Read  BY <1>16 DEF WakeIntake, Read
<1>17. CASE Apply \/ ApplyFails \/ Clear
  BY <1>17 DEF Apply, ApplyFails, Clear
<1>18. CASE UNCHANGED vars  BY <1>18 DEF vars
<1> QED
  BY <1>1, <1>2, <1>3, <1>4, <1>5, <1>6, <1>7, <1>8, <1>9, <1>10, <1>11, <1>12,
     <1>13, <1>14, <1>15, <1>16, <1>17, <1>18 DEF Next, Intake, Ending, Worker

\* Every step keeps the notifications in order.
LEMMA WakeStep == TypeOK /\ WakeInv /\ [Next]_vars => WakeInv'
<1> SUFFICES ASSUME TypeOK, WakeInv, [Next]_vars PROVE WakeInv'
  OBVIOUS
<1>0. generation \in Nat /\ expected \in Nat /\ registered \in {0, 1}
  BY DEF TypeOK
<1> USE DEF WakeInv, NoLostWake, words, wake, flags, producer, consumer,
            history, IntakeMoves, WorkerMoves
<1>1. CASE HasCapacity \/ FindsFull  BY <1>1 DEF HasCapacity, FindsFull
<1>2. CASE Park \/ ParkTimeout  BY <1>2 DEF Park, ParkTimeout
<1>3. CASE AfterPark  BY <1>3 DEF AfterPark
<1>4. CASE BeginEmpty \/ Begin  BY <1>4 DEF BeginEmpty, Begin
<1>5. CASE Fill  BY <1>5 DEF Fill
<1>6. CASE Publish  BY <1>6 DEF Publish
<1>7. CASE Notify  BY <1>0, <1>7 DEF Notify
<1>8. CASE Wake  BY <1>8 DEF Wake, WakeWorker
<1>9. CASE Abandon \/ Stop  BY <1>9 DEF Abandon, Stop
<1>10. CASE StopNotify  BY <1>0, <1>10 DEF StopNotify
<1>11. CASE StopWake \/ Join  BY <1>11 DEF StopWake, Join, WakeWorker
<1>12. CASE NewService  BY <1>12 DEF NewService
<1>13. CASE CheckStop \/ Snapshot  BY <1>13 DEF CheckStop, Snapshot
<1>14. CASE Idle  BY <1>14 DEF Idle
<1>15. CASE Register  BY <1>0, <1>15 DEF Register
<1>16. CASE Recheck  BY <1>16 DEF Recheck
<1>17. CASE Sleep  BY <1>17 DEF Sleep, NotNotified
<1>18. CASE Cancel \/ Interrupted  BY <1>0, <1>18 DEF Cancel, Interrupted
<1>19. CASE Claim  BY <1>19 DEF Claim
<1>20. CASE WakeIntake \/ Read  BY <1>20 DEF WakeIntake, Read
<1>21. CASE Apply \/ ApplyFails \/ Clear
  BY <1>21 DEF Apply, ApplyFails, Clear
<1>22. CASE UNCHANGED vars  BY <1>22 DEF vars
<1> QED
  BY <1>1, <1>2, <1>3, <1>4, <1>5, <1>6, <1>7, <1>8, <1>9, <1>10, <1>11, <1>12,
     <1>13, <1>14, <1>15, <1>16, <1>17, <1>18, <1>19, <1>20, <1>21, <1>22
     DEF Next, Intake, Ending, Worker

\* Every step keeps the indices in step with the words.
LEMMA IndexStep == TypeOK /\ IndexInv /\ [Next]_vars => IndexInv'
<1> SUFFICES ASSUME TypeOK, IndexInv, [Next]_vars PROVE IndexInv'
  OBVIOUS
<1> USE DEF IndexInv, Busy, words, wake, flags, producer, consumer, history,
            IntakeMoves, WorkerMoves
<1>a. /\ published \in Words /\ claimed \in Words /\ seen \in Words
      /\ readIndex \in Slots /\ Capacity \in Nat /\ Held \in 0 .. Capacity
  BY DepthSteps, Constants DEF TypeOK, Held, Words
<1>b. /\ Held = 0 <=> published = claimed
      /\ Held < Capacity => Depth(NextWord(published), claimed) = Held + 1
      /\ Held > 0 => Depth(published, NextWord(claimed)) = Held - 1
  BY <1>a, DepthSteps DEF Held
<1>c. UNCHANGED words => Held' = Held
  BY DEF Held, Depth
<1>1. CASE HasCapacity \/ AfterPark
  BY <1>a, <1>c, <1>1 DEF HasCapacity, AfterPark, Full, Held
<1>2. CASE FindsFull \/ Park \/ ParkTimeout
  BY <1>c, <1>2 DEF FindsFull, Park, ParkTimeout
<1>3. CASE BeginEmpty \/ Begin \/ Fill
  BY <1>c, <1>3 DEF BeginEmpty, Begin, Fill
<1>4. CASE Publish
  <2>1. Held' = Held + 1
    BY <1>b, <1>4 DEF Publish, Held
  <2>2. writeIndex' = (readIndex' + Held') % ArenaCapacity
    BY <2>1, <1>a, <1>4, NextSlotSteps DEF Publish
  <2> QED
    BY <2>1, <2>2, <1>a, <1>4 DEF Publish
<1>5. CASE Notify \/ Wake  BY <1>c, <1>5 DEF Notify, Wake, WakeWorker
<1>6. CASE Abandon \/ Stop \/ StopNotify \/ StopWake \/ Join
  BY <1>c, <1>6 DEF Abandon, Stop, StopNotify, StopWake, Join, WakeWorker
<1>7. CASE NewService
  <2>1. 0 \in Words /\ 0 \in Slots /\ Capacity \in Nat \ {0} /\ ArenaCapacity \in Nat
    BY Constants DEF Words
  <2>2. Held' = 0
    BY <2>1, <1>7, DepthSteps DEF NewService, Held
  <2>3. (0 + 0) % ArenaCapacity = 0
    BY <2>1, SlotValue, Constants
  <2> QED
    BY <2>1, <2>2, <2>3, <1>7 DEF NewService
<1>8. CASE CheckStop \/ Snapshot \/ Idle
  BY <1>a, <1>b, <1>c, <1>8 DEF CheckStop, Snapshot, Idle
<1>9. CASE Register \/ Recheck \/ Sleep \/ Cancel \/ Interrupted
  BY <1>c, <1>9 DEF Register, Recheck, Sleep, Cancel, Interrupted
<1>10. CASE Claim
  <2>1. Held' = Held - 1 /\ Held > 0
    BY <1>b, <1>10 DEF Claim, Held
  <2>2. writeIndex' = (readIndex' + Held') % ArenaCapacity
    <3>1. Held - 1 \in 0 .. Capacity
      BY <2>1, <1>a
    <3>2. (NextSlot(readIndex) + (Held - 1)) % ArenaCapacity =
            (readIndex + (Held - 1 + 1)) % ArenaCapacity
      BY <3>1, <1>a, NextSlotSteps
    <3>3. Held - 1 + 1 = Held
      BY <1>a
    <3> QED
      BY <3>2, <3>3, <2>1, <1>10 DEF Claim
  <2> QED
    BY <2>1, <2>2, <1>a, <1>10 DEF Claim
<1>11. CASE WakeIntake \/ Read  BY <1>c, <1>11 DEF WakeIntake, Read
<1>12. CASE Apply \/ ApplyFails \/ Clear
  BY <1>c, <1>12 DEF Apply, ApplyFails, Clear
<1>13. CASE UNCHANGED vars  BY <1>c, <1>13 DEF vars
<1> QED
  BY <1>1, <1>2, <1>3, <1>4, <1>5, <1>6, <1>7, <1>8, <1>9, <1>10, <1>11, <1>12,
     <1>13 DEF Next, Intake, Ending, Worker
\* The free slot is none of those that wait, nor the one being replayed; and
\* the one being replayed is none of those that wait.
LEMMA FreeSlot ==
  ASSUME TypeOK, IndexInv
  PROVE  /\ Held \in 0 .. Capacity
         /\ Held < Capacity =>
              /\ \A i \in 0 .. Held - 1 :
                   (readIndex + i) % ArenaCapacity # writeIndex
              /\ Busy => active # writeIndex
         /\ Busy => \A i \in 0 .. Held - 1 :
                      (readIndex + i) % ArenaCapacity # active
<1>1. /\ Held \in 0 .. Capacity /\ Capacity \in Nat
      /\ readIndex \in Slots /\ active \in Slots
      /\ writeIndex = (readIndex + Held) % ArenaCapacity
  BY DepthSteps, Constants DEF TypeOK, IndexInv, Held, Words
<1>2. Held \in Nat
  BY <1>1
<1>3. ASSUME Held < Capacity, NEW i \in 0 .. Held - 1
      PROVE  (readIndex + i) % ArenaCapacity # writeIndex
  <2>1. i \in 0 .. Capacity /\ i # Held
    BY <1>1, <1>3
  <2> QED
    BY <2>1, <1>1, SlotsDiffer
<1>4. ASSUME Busy, NEW i \in 0 .. Capacity - 1
      PROVE  (readIndex + i) % ArenaCapacity # active
  <2>1. readIndex = NextSlot(active)
    BY <1>4 DEF IndexInv
  <2> DEFINE j == i + 1
  <2>2. i \in 0 .. Capacity /\ j \in 0 .. Capacity /\ 0 \in 0 .. Capacity /\ j # 0
    BY <1>1
  <2>3. (readIndex + i) % ArenaCapacity = (active + j) % ArenaCapacity
    BY <1>1, <2>1, <2>2, NextSlotSteps
  <2>4. (active + 0) % ArenaCapacity = active
    BY <1>1, SlotItself
  <2>5. (active + j) % ArenaCapacity # (active + 0) % ArenaCapacity
    <3> HIDE DEF j
    <3> QED  BY <1>1, <2>2, SlotsDiffer
  <2> QED
    BY <2>3, <2>4, <2>5
<1>5. Held < Capacity => Held \in 0 .. Capacity - 1
  BY <1>1
<1>6. \A i \in 0 .. Held - 1 : i \in 0 .. Capacity - 1
  BY <1>1
<1> QED
  BY <1>1, <1>3, <1>4, <1>5, <1>6

\* A sequence that counts from one goes on with its length plus one.
LEMMA CountOn ==
  ASSUME NEW s, Len(s) \in Nat, s = [i \in 1 .. Len(s) |-> i]
  PROVE  /\ s \in Seq(Nat)
         /\ Len(Append(s, Len(s) + 1)) = Len(s) + 1
         /\ Append(s, Len(s) + 1) = [i \in 1 .. Len(s) + 1 |-> i]
<1> DEFINE n == Len(s)
<1>1. s \in Seq(Nat) /\ n \in Nat
  OBVIOUS
<1>2. Len(Append(s, n + 1)) = n + 1
  BY <1>1
<1>3. \A i \in 1 .. n + 1 : Append(s, n + 1)[i] = i
  BY <1>1
<1>4. Append(s, n + 1) = [i \in 1 .. n + 1 |-> Append(s, n + 1)[i]]
  BY <1>1, <1>2
<1> QED
  BY <1>1, <1>2, <1>3, <1>4

\* Every step keeps the packets where the indices say.
LEMMA ContentStep == TypeOK /\ IndexInv /\ ContentInv /\ [Next]_vars => ContentInv'
<1> SUFFICES ASSUME TypeOK, IndexInv, ContentInv, [Next]_vars PROVE ContentInv'
  OBVIOUS
<1>a. /\ Held \in 0 .. Capacity /\ Capacity \in Nat \ {0}
      /\ readIndex \in Slots /\ arena \in [Slots -> Packets \cup {Partial}]
      /\ writeIndex \in Slots /\ active \in Slots
      /\ published \in Words /\ claimed \in Words
      /\ intake \in {"begin", "fill", "publish"} => Held < Capacity
  BY FreeSlot, Constants DEF TypeOK, IndexInv
<1>b. UNCHANGED words => Held' = Held
  BY DEF Held, Depth, words
<1>c. \A i \in 0 .. Held - 1 : (readIndex + i) % ArenaCapacity \in Slots
  <2>1. \A i \in 0 .. Held - 1 : i \in 0 .. Capacity
    BY <1>a
  <2> QED
    BY <1>a, <2>1, NextSlotSteps
<1>d. /\ Len(accepted) \in Nat /\ Len(replayed) \in Nat
      /\ accepted = [i \in 1 .. Len(accepted) |-> i]
      /\ replayed = [i \in 1 .. Len(replayed) |-> i]
      /\ Claimed = Len(accepted) - Held /\ Claimed \in Int
  <2>1. /\ Len(accepted) \in Nat /\ Len(replayed) \in Nat
        /\ accepted = [i \in 1 .. Len(accepted) |-> i]
        /\ replayed = [i \in 1 .. Len(replayed) |-> i]
    BY Constants DEF ContentInv
  <2>2. Held \in Nat
    BY <1>a
  <2>3. Claimed = Len(accepted) - Held /\ Claimed \in Int
    BY <2>1, <2>2 DEF Claimed
  <2> QED
    BY <2>1, <2>3
<1>e. \A i \in 0 .. Held - 1 :
        arena[(readIndex + i) % ArenaCapacity] = Claimed + 1 + i
  BY DEF ContentInv
<1>f. UNCHANGED <<words, accepted>> => Held' = Held /\ Claimed' = Claimed
  BY <1>b DEF Claimed
<1> USE DEF ContentInv, words, wake, flags, producer, consumer, history,
            IntakeMoves, WorkerMoves
<1>1. CASE HasCapacity \/ FindsFull \/ Park \/ ParkTimeout \/ AfterPark
  BY <1>f, <1>1 DEF HasCapacity, FindsFull, Park, ParkTimeout, AfterPark
<1>2. CASE BeginEmpty  BY <1>f, <1>2 DEF BeginEmpty
<1>3. CASE Begin \/ Fill
  <2>1. /\ Held' = Held /\ Held < Capacity /\ Claimed' = Claimed
        /\ UNCHANGED <<readIndex, active, worker, accepted, replayed, reading>>
    BY <1>a, <1>f, <1>3 DEF Begin, Fill
  <2>2. \A s \in Slots : s # writeIndex => arena'[s] = arena[s]
    BY <1>a, <1>3 DEF Begin, Fill
  <2>3. \A i \in 0 .. Held - 1 :
          arena'[(readIndex + i) % ArenaCapacity] = Claimed + 1 + i
    BY <1>c, <2>1, <2>2, FreeSlot
  <2>4. worker \in {"wakeIntake", "read", "apply"} => arena'[active] = Claimed
    BY <1>a, <2>1, <2>2, FreeSlot DEF Busy
  <2>5. /\ intake' = "publish" => arena'[writeIndex'] = Len(accepted') + 1
        /\ intake' \in {"fill", "publish"} => Len(accepted') < MaxPackets
    BY <1>a, <1>3 DEF Begin, Fill
  <2> QED
    BY <2>1, <2>3, <2>4, <2>5
<1>4. CASE Publish
  <2>1. Held' = Held + 1
    BY <1>a, <1>4, DepthSteps DEF Publish, Held, TypeOK
  <2>2. /\ Len(accepted') = Len(accepted) + 1
        /\ accepted' = [i \in 1 .. Len(accepted') |-> i]
    BY <1>a, <1>4, CountOn DEF Publish
  <2>3. Claimed' = Claimed
    <3> HIDE DEF ContentInv
    <3>1. Held \in Nat
      BY <1>a
    <3> QED
      BY <1>d, <2>1, <2>2, <3>1 DEF Claimed
  <2>4. arena[(readIndex + Held) % ArenaCapacity] = Claimed + 1 + Held
    <3> HIDE DEF ContentInv
    <3>1. Held \in Nat /\ Claimed + 1 + Held = Len(accepted) + 1
      BY <1>a, <1>d
    <3>2. arena[writeIndex] = Len(accepted) + 1
      BY <1>4 DEF Publish, ContentInv
    <3>3. writeIndex = (readIndex + Held) % ArenaCapacity
      BY DEF IndexInv
    <3> QED
      BY <3>1, <3>2, <3>3
  <2>5. \A i \in 0 .. Held' - 1 : i \in 0 .. Held - 1 \/ i = Held
    BY <1>a, <2>1
  <2>6. \A i \in 0 .. Held' - 1 :
          arena'[(readIndex' + i) % ArenaCapacity] = Claimed' + 1 + i
    BY <1>4, <2>3, <2>4, <2>5 DEF Publish
  <2> QED
    BY <1>4, <1>a, <2>1, <2>2, <2>3, <2>6, Constants DEF Publish
<1>5. CASE Notify \/ Wake  BY <1>f, <1>5 DEF Notify, Wake, WakeWorker
<1>6. CASE Abandon \/ Stop \/ StopNotify \/ StopWake \/ Join
  BY <1>f, <1>6 DEF Abandon, Stop, StopNotify, StopWake, Join, WakeWorker
<1>7. CASE NewService
  <2>1. Held' = 0
    BY <1>7, DepthSteps, Constants DEF NewService, Held, Words
  <2> QED
    BY <1>7, <2>1, Constants DEF NewService
<1>8. CASE CheckStop \/ Snapshot \/ Idle
  BY <1>f, <1>8 DEF CheckStop, Snapshot, Idle
<1>9. CASE Register \/ Recheck \/ Sleep \/ Cancel \/ Interrupted
  BY <1>f, <1>9 DEF Register, Recheck, Sleep, Cancel, Interrupted
<1>10. CASE Claim
  <2>1. Held' = Held - 1 /\ Held > 0
    BY <1>10, DepthSteps DEF Claim, Held, IndexInv, TypeOK
  <2>2. Claimed' = Claimed + 1
    BY <1>a, <1>d, <2>1, <1>10 DEF Claim, Claimed
  <2>3. ASSUME NEW i \in 0 .. Held' - 1
        PROVE  arena'[(readIndex' + i) % ArenaCapacity] = Claimed' + 1 + i
    <3> DEFINE j == i + 1
    <3>1. j \in 0 .. Held - 1 /\ i \in 0 .. Capacity
      BY <1>a, <2>1
    <3>2. (readIndex' + i) % ArenaCapacity = (readIndex + j) % ArenaCapacity
      BY <1>a, <3>1, <1>10, NextSlotSteps DEF Claim
    <3>3. arena[(readIndex + j) % ArenaCapacity] = Claimed + 1 + j
      <4> HIDE DEF j
      <4> QED  BY <3>1
    <3>4. Claimed + 1 + j = Claimed' + 1 + i
      BY <1>a, <2>2
    <3> QED
      BY <3>2, <3>3, <3>4, <1>10 DEF Claim
  <2>4. arena[readIndex] = Claimed + 1
    <3> HIDE DEF ContentInv
    <3>1. 0 \in 0 .. Held - 1
      BY <1>a, <2>1
    <3>2. (readIndex + 0) % ArenaCapacity = readIndex
      BY <1>a, SlotItself
    <3>3. arena[(readIndex + 0) % ArenaCapacity] = Claimed + 1 + 0
      BY <1>e, <3>1
    <3>4. Claimed + 1 + 0 = Claimed + 1
      BY <1>d
    <3> QED
      BY <3>2, <3>3, <3>4
  <2> QED
    BY <1>10, <1>a, <2>1, <2>2, <2>3, <2>4 DEF Claim
<1>11. CASE WakeIntake \/ Read  BY <1>f, <1>11 DEF WakeIntake, Read
<1>12. CASE Apply
  <2>1. /\ Len(replayed') = Len(replayed) + 1
        /\ replayed' = [i \in 1 .. Len(replayed') |-> i]
    BY <1>12, CountOn DEF Apply
  <2> QED
    BY <1>f, <1>12, <2>1 DEF Apply
<1>13. CASE ApplyFails  BY <1>f, <1>13 DEF ApplyFails
<1>14. CASE Clear
  <2>1. \A s \in Slots : s # active => arena'[s] = arena[s]
    BY <1>a, <1>14 DEF Clear
  <2>2. Busy
    BY <1>14 DEF Clear, Busy
  <2>3. \A i \in 0 .. Held - 1 :
          arena'[(readIndex + i) % ArenaCapacity] = Claimed + 1 + i
    BY <1>c, <2>1, <2>2, FreeSlot
  <2>4. intake = "publish" => arena'[writeIndex] = Len(accepted) + 1
    BY <1>a, <2>1, <2>2, FreeSlot
  <2> QED
    BY <1>f, <1>14, <2>3, <2>4 DEF Clear
<1>15. CASE UNCHANGED vars  BY <1>f, <1>15 DEF vars
<1> QED
  BY <1>1, <1>2, <1>3, <1>4, <1>5, <1>6, <1>7, <1>8, <1>9, <1>10, <1>11, <1>12,
     <1>13, <1>14, <1>15 DEF Next, Intake, Ending, Worker

\* A new service starts in it.
LEMMA InitReplayInv == Init => ReplayInv
<1> SUFFICES ASSUME Init PROVE ReplayInv
  OBVIOUS
<1>1. /\ 0 \in Words /\ 0 \in Slots /\ Capacity \in Nat /\ Capacity >= 1
      /\ ArenaCapacity \in Nat /\ MaxPackets \in Nat
  BY Constants DEF Words
<1>2. Held = 0
  BY <1>1, DepthSteps DEF Init, Held
<1>3. (0 + 0) % ArenaCapacity = 0
  BY <1>1, SlotItself
<1>4. TypeOK
  BY <1>1 DEF Init, TypeOK, IntakePC, WorkerPC
<1>5. IndexInv
  BY <1>1, <1>2, <1>3 DEF Init, IndexInv, Busy
<1>6. WakeInv
  BY DEF Init, WakeInv, NoLostWake
<1>7. ContentInv
  BY <1>1, <1>2 DEF Init, ContentInv, Claimed
<1> QED
  BY <1>4, <1>5, <1>6, <1>7 DEF ReplayInv

\* The inductive invariant holds in every state of every session.
THEOREM ReplayInvariant == Spec => []ReplayInv
<1>1. ReplayInv /\ [Next]_vars => ReplayInv'
  BY TypeStep, IndexStep, WakeStep, ContentStep DEF ReplayInv
<1> QED
  BY <1>1, InitReplayInv, PTL DEF Spec

\* The intake never writes to a slot the worker still needs, whatever the
\* capacity and wherever the words wrap.
THEOREM ReplaySlotsApart == Spec => []SlotsApart
<1>1. ReplayInv => SlotsApart
  <2> SUFFICES ASSUME ReplayInv, intake \in {"fill", "publish"}
               PROVE  writeIndex \notin Waiting /\ (Busy => writeIndex # active)
    BY DEF SlotsApart
  <2>1. TypeOK /\ IndexInv /\ Held < Capacity
    BY DEF ReplayInv, IndexInv
  <2>2. /\ \A i \in 0 .. Held - 1 : (readIndex + i) % ArenaCapacity # writeIndex
        /\ Busy => active # writeIndex
    BY <2>1, FreeSlot
  <2>3. Waiting = {(readIndex + i) % ArenaCapacity : i \in 0 .. Held - 1}
    BY DEF Waiting, Held
  <2> QED
    BY <2>2, <2>3
<1> QED
  BY <1>1, ReplayInvariant, PTL

\* A worker that sleeps with work to do is always about to be woken.
THEOREM ReplayNoLostWake == Spec => []NoLostWake
<1>1. ReplayInv => NoLostWake
  BY DEF ReplayInv, WakeInv
<1> QED
  BY <1>1, ReplayInvariant, PTL

\* The worker replays the packets of a session in the order they were
\* acknowledged, each whole and once: the queue implements a stream of records.
THEOREM ReplayReplaysInOrder == Spec => ReplaysInOrder
<1>1. Init => Order!Init
  BY DEF Init, Order!Init
<1>2. ReplayInv /\ [Next]_vars => [Order!Next]_<<accepted, replayed>>
  <2> SUFFICES ASSUME ReplayInv, [Next]_vars,
                      ~UNCHANGED <<accepted, replayed>>
               PROVE  Order!Next
    OBVIOUS
  <2>a. /\ Len(accepted) \in Nat /\ Len(replayed) \in Nat
        /\ accepted = [i \in 1 .. Len(accepted) |-> i]
        /\ replayed = [i \in 1 .. Len(replayed) |-> i]
    BY Constants DEF ReplayInv, ContentInv
  <2> USE DEF words, wake, flags, producer, consumer, history, IntakeMoves,
              WorkerMoves
  <2>1. CASE Publish
    <3>1. Len(accepted) + 1 \in 1 .. MaxPackets
      <4>1. intake = "publish" /\ Len(accepted) < MaxPackets /\ MaxPackets \in Nat
        BY <2>1, Constants DEF Publish, ReplayInv, ContentInv
      <4>2. Len(accepted) \in Nat
        BY <2>a
      <4> QED
        BY <4>1, <4>2
    <3>2. /\ accepted' = Append(accepted, Len(accepted) + 1)
          /\ UNCHANGED replayed
      BY <2>1 DEF Publish
    <3>3. accepted' \in Seq(Packets) /\ Order!IsStrictPrefix(accepted, accepted')
      <4> DEFINE n == Len(accepted)
      <4>1. n \in Nat /\ n + 1 \in 1 .. MaxPackets /\ MaxPackets \in Nat
        BY <2>a, <3>1, Constants
      <4>2. /\ accepted = [i \in 1 .. n |-> i]
            /\ accepted' = [i \in 1 .. n + 1 |-> i] /\ Len(accepted') = n + 1
        BY <2>a, <3>2, CountOn
      <4> HIDE DEF n
      <4>3. accepted' \in Seq(Packets)
        BY <4>1, <4>2 DEF Packets
      <4>4. SubSeq(accepted, 1, n) = SubSeq(accepted', 1, n)
        <5>1. /\ SubSeq(accepted, 1, n) = [i \in 1 .. n |-> i]
              /\ SubSeq(accepted', 1, n) = [i \in 1 .. n |-> i]
          BY <4>1, <4>2
        <5> QED
          BY <5>1
      <4>5. accepted # accepted' /\ n <= Len(accepted')
        <5>1. Len(accepted') # n /\ n <= Len(accepted')
          BY <4>1, <4>2
        <5> QED
          BY <5>1 DEF n
      <4> QED
        BY <4>3, <4>4, <4>5 DEF n, Order!IsStrictPrefix, Order!IsPrefix
    <3> QED
      BY <3>2, <3>3 DEF Order!Next, Order!Send
  <2>2. CASE Apply
    <3> DEFINE n == Len(replayed) + 1
    <3>1. /\ arena[active] = reading /\ reading = n
          /\ n = Claimed
      BY <2>2 DEF Apply, ReplayInv, ContentInv
    <3>2. n \in Len(replayed) + 1 .. Len(accepted)
      <4>1. Held \in Nat
        BY FreeSlot, Constants DEF ReplayInv
      <4> QED
        BY <2>a, <3>1, <4>1 DEF Claimed
    <3>3. replayed' = [i \in 1 .. n |-> i] /\ UNCHANGED accepted
      BY <2>2, <2>a, <3>1, CountOn DEF Apply
    <3>4. SubSeq(accepted, 1, n) = [i \in 1 .. n |-> i]
      BY <2>a, <3>2
    <3> QED
      BY <3>2, <3>3, <3>4 DEF Order!Next, Order!Deliver
  <2>3. CASE NewService
    BY <2>3 DEF NewService, Order!Next, Order!Renew
  <2> QED
    BY <2>1, <2>2, <2>3
    DEF Next, Intake, Ending, Worker, vars, HasCapacity, FindsFull, Park,
        ParkTimeout, AfterPark, BeginEmpty, Begin, Fill, Notify, Wake, Abandon,
        Stop, StopNotify, StopWake, Join, CheckStop, Snapshot, Idle, Register,
        Recheck, Sleep, Cancel, Interrupted, Claim, WakeIntake, Read, ApplyFails,
        Clear
<1> QED
  BY <1>1, <1>2, ReplayInvariant, PTL DEF Spec, ReplaysInOrder, Order!Spec
=============================================================================
