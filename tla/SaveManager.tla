---------------------------- MODULE SaveManager ----------------------------
(***************************************************************************)
(* Cartridge-save persistence: HeadlessSaveManager.                        *)
(*                                                                         *)
(* Two threads share one mutex and two condition variables.  The owner     *)
(* thread runs the emulator, whose cartridge writes arrive as callbacks    *)
(* (requestWrite), and it is the same thread that asks for a flush and for *)
(* the shutdown: MelonDsBackend never calls them concurrently.  The worker *)
(* thread debounces the writes and commits snapshots of the shadow copy to *)
(* the file system.  Every critical section of the mutex is one action and *)
(* every system call of a commit is one action, so that a kill or a power  *)
(* loss can fall between any two of them.                                  *)
(*                                                                         *)
(* The contents of the save are abstracted to image numbers: image 0 is    *)
(* what a cartridge without a save file holds, and each accepted write     *)
(* turns the shadow copy into a new image with a larger number.            *)
(***************************************************************************)
EXTENDS Naturals

CONSTANTS
  MaxWrites,     \* bound on accepted cartridge writes, over all sessions
  MaxFaults,     \* bound on failing system calls, allocations and callbacks
  MaxCrashes,    \* bound on kills and power losses
  DirSync        \* TRUE when the file system implements fsync of a directory

ASSUME SaveAssumption ==
  /\ MaxWrites \in Nat /\ MaxFaults \in Nat /\ MaxCrashes \in Nat
  /\ DirSync \in BOOLEAN

VARIABLES
  \* fields of the manager, guarded by mutex_
  dirty, generation, shadow, callbackError,        \* what was written
  forceFlush, stopRequested, stopped,              \* what the worker must do
  flushInProgress, lastAttemptSucceeded,           \* what it has done
  attemptSerial, attemptedGeneration, committedGeneration,
  \* program counters, and the locals of workerMain and flush
  worker, snapshotGeneration, snapshot, success,
  owner, targetGeneration, startingAttempt,
  \* the save directory
  tmp,         \* the temporary file
  sav,         \* what the .sav name shows: [image, whole]
  survivors,   \* what the .sav name may show after a power loss
  \* what the owner was told, and the bounds
  promised,    \* newest image a flush or a shutdown reported as saved
  answer,      \* result of the last flush or shutdown
  images, faults, crashes

written == <<dirty, generation, shadow, callbackError>>
orders  == <<forceFlush, stopRequested, stopped>>
done    == <<flushInProgress, lastAttemptSucceeded, attemptSerial,
             attemptedGeneration, committedGeneration>>
commit  == <<snapshotGeneration, snapshot, success>>
request == <<targetGeneration, startingAttempt>>
files   == <<tmp, sav, survivors>>
told    == <<promised, answer>>
bounds  == <<images, faults, crashes>>
vars    == <<written, orders, done, worker, commit, owner, request, files,
             told, bounds>>

----------------------------------------------------------------------------
\* The system calls of commitSnapshot, before and after the rename.
BeforeRename == {"create", "write", "finish", "sync", "close", "rename"}
AfterRename  == {"opendir", "syncdir", "closedir"}
CommitSteps  == BeforeRename \cup AfterRename

WorkerPC == {"none", "loop", "idle", "debounce", "report"} \cup CommitSteps
OwnerPC  == {"closed", "run", "flush", "recheck", "join", "joined"}

Image == 0..MaxWrites
File  == [image : Image, whole : BOOLEAN]

\* Seeded fault of both notifications: nobody is woken.
WakeNobody(thread) == thread

\* wake_.notify_all(): a worker blocked in either wait of workerMain runs on.
WakeWorker(pc) == IF pc \in {"idle", "debounce"} THEN "loop" ELSE pc

\* completed_.notify_all(): a flush blocked on completed_ rechecks.
WakeOwner(pc) == IF pc = "flush" THEN "recheck" ELSE pc

Init ==
  /\ dirty = FALSE /\ generation = 0 /\ shadow = 0 /\ callbackError = FALSE
  /\ forceFlush = FALSE /\ stopRequested = FALSE /\ stopped = FALSE
  /\ flushInProgress = FALSE /\ lastAttemptSucceeded = TRUE
  /\ attemptSerial = 0 /\ attemptedGeneration = 0 /\ committedGeneration = 0
  /\ worker = "none" /\ snapshotGeneration = 0 /\ snapshot = 0 /\ success = FALSE
  /\ owner = "closed" /\ targetGeneration = 0 /\ startingAttempt = 0
  /\ tmp = "none"
  /\ sav = [image |-> 0, whole |-> TRUE] /\ survivors = {sav}
  /\ promised = 0 /\ answer = "none"
  /\ images = 0 /\ faults = 0 /\ crashes = 0

\* The member initializers of a manager whose shadow_ holds image.
FreshManager(image) ==
  /\ dirty' = FALSE /\ generation' = 0 /\ shadow' = image
  /\ callbackError' = FALSE
  /\ forceFlush' = FALSE /\ stopRequested' = FALSE /\ stopped' = FALSE
  /\ flushInProgress' = FALSE /\ lastAttemptSucceeded' = TRUE
  /\ attemptSerial' = 0 /\ attemptedGeneration' = 0 /\ committedGeneration' = 0
  /\ snapshotGeneration' = 0 /\ snapshot' = 0 /\ success' = FALSE
  /\ targetGeneration' = 0 /\ startingAttempt' = 0

\* create / prepare / loadExisting / initialize: take the lock, discard stale
\* temporaries, load the file and start the worker.  A file of the wrong size
\* is refused.
Open ==
  /\ owner = "closed"
  /\ sav.whole
  /\ FreshManager(sav.image)
  /\ worker' = "loop" /\ owner' = "run"
  /\ tmp' = "none"
  /\ answer' = "none"
  /\ UNCHANGED <<sav, survivors, promised, bounds>>

----------------------------------------------------------------------------
(* The owner thread.                                                        *)

\* requestWrite with a valid range.
RequestWrite ==
  /\ owner = "run" /\ ~stopped
  /\ images < MaxWrites
  /\ images' = images + 1
  /\ shadow' = images + 1
  /\ dirty' = TRUE
  /\ generation' = generation + 1
  /\ worker' = WakeWorker(worker)
  /\ UNCHANGED <<callbackError, orders, done, commit, owner, request, files,
                 told, faults, crashes>>

\* requestWrite with a range melonDS must not supply: the error is sticky.
RejectWrite ==
  /\ owner = "run" /\ ~stopped
  /\ faults < MaxFaults
  /\ faults' = faults + 1
  /\ lastAttemptSucceeded' = FALSE
  /\ callbackError' = TRUE
  /\ owner' = WakeOwner(owner)
  /\ UNCHANGED <<dirty, generation, shadow, orders, flushInProgress,
                 attemptSerial, attemptedGeneration, committedGeneration,
                 worker, commit, request, files, told, images, crashes>>

\* A positive answer promises the newest image.  A session that wrote nothing
\* is promised nothing: the file it loaded may be one whose rename a killed
\* runner never synced.
Answer(saved) ==
  /\ answer' = IF saved THEN "saved" ELSE "failed"
  /\ promised' = IF saved /\ generation > 0 THEN shadow ELSE promised

\* flush() that returns without waiting.
FlushAtOnce ==
  /\ owner = "run"
  /\ callbackError \/ stopped \/ (~dirty /\ ~flushInProgress)
  /\ Answer(~callbackError /\ ~dirty /\ ~flushInProgress)
  /\ UNCHANGED <<written, orders, done, worker, commit, owner, request, files,
                 bounds>>

\* Only attempts that end after the request can answer a flush.
AttemptsSoFar == attemptSerial

\* flush() up to its wait on completed_.  The wait tests its predicate before
\* it blocks, hence "recheck".
FlushRequest ==
  /\ owner = "run"
  /\ ~callbackError /\ ~stopped
  /\ dirty \/ flushInProgress
  /\ targetGeneration' = generation
  /\ startingAttempt' = AttemptsSoFar
  /\ forceFlush' = TRUE
  /\ worker' = WakeWorker(worker)
  /\ owner' = "recheck"
  /\ UNCHANGED <<written, stopRequested, stopped, done, commit, files, told,
                 bounds>>

\* Seeded fault of FlushSucceeds: an attempt is taken for a commit.
FlushSucceedsOnAttempt == attemptedGeneration >= targetGeneration

\* flush() reports success when the generation it asked for is committed.
FlushSucceeds == committedGeneration >= targetGeneration

\* The predicate flush() waits for.
FlushDone ==
  \/ FlushSucceeds
  \/ stopped
  \/ /\ attemptSerial > startingAttempt
     /\ attemptedGeneration >= targetGeneration
     /\ ~lastAttemptSucceeded

FlushReturn ==
  /\ owner = "recheck"
  /\ FlushDone
  /\ owner' = "run"
  /\ Answer(FlushSucceeds)
  /\ UNCHANGED <<written, orders, done, worker, commit, request, files, bounds>>

FlushBlock ==
  /\ owner = "recheck"
  /\ ~FlushDone
  /\ owner' = "flush"
  /\ UNCHANGED <<written, orders, done, worker, commit, request, files, told,
                 bounds>>

\* shutdown() up to worker_.join().
ShutdownRequest ==
  /\ owner = "run"
  /\ owner' = "join"
  /\ stopRequested' = TRUE
  /\ forceFlush' = TRUE
  /\ worker' = WakeWorker(worker)
  /\ UNCHANGED <<written, stopped, done, commit, request, files, told, bounds>>

\* shutdown() after the join.
ShutdownReturn ==
  /\ owner = "join"
  /\ worker = "none"
  /\ owner' = "joined"
  /\ Answer(~dirty /\ ~callbackError)
  /\ UNCHANGED <<written, orders, done, worker, commit, request, files, bounds>>

\* ~HeadlessSaveManager: the second shutdown() finds no joinable worker, and
\* closing the descriptor releases the per-content lock.  Memory is gone.
Destroy ==
  /\ owner = "joined"
  /\ owner' = "closed"
  /\ FreshManager(sav.image)
  /\ UNCHANGED <<worker, files, told, bounds>>

----------------------------------------------------------------------------
(* The worker thread.                                                       *)

\* The worker changes nothing but its program counter.
WorkerMoves(from, to) ==
  /\ worker = from
  /\ worker' = to
  /\ UNCHANGED <<written, orders, done, snapshotGeneration, snapshot, owner,
                 request, told, bounds>>

WorkerIdle ==
  /\ ~dirty /\ ~stopRequested
  /\ WorkerMoves("loop", "idle") /\ UNCHANGED <<success, files>>

\* The writes are not due yet: wait_until(due).
WorkerDebounce ==
  /\ dirty /\ ~forceFlush /\ ~stopRequested
  /\ WorkerMoves("loop", "debounce") /\ UNCHANGED <<success, files>>

WorkerStopClean ==
  /\ worker = "loop"
  /\ ~dirty /\ stopRequested
  /\ stopped' = TRUE
  /\ worker' = "none"
  /\ owner' = WakeOwner(owner)
  /\ UNCHANGED <<written, forceFlush, stopRequested, done, commit, request,
                 files, told, bounds>>

\* The debounce delay has passed, or a flush or a stop makes it moot.
MayCommit == worker = "debounce" \/ (worker = "loop" /\ dirty)

\* Seeded fault of TakenSnapshot: a forced commit reuses the last copy.
StaleSnapshot == IF forceFlush THEN snapshot ELSE shadow

\* The copy of shadow_ that is committed, taken with the mutex held.
TakenSnapshot == shadow

WorkerSnapshot ==
  /\ MayCommit
  /\ snapshotGeneration' = generation
  /\ snapshot' = TakenSnapshot
  /\ success' = FALSE
  /\ forceFlush' = FALSE
  /\ flushInProgress' = TRUE
  /\ worker' = "create"
  /\ UNCHANGED <<written, stopRequested, stopped, lastAttemptSucceeded,
                 attemptSerial, attemptedGeneration, committedGeneration,
                 owner, request, files, told, bounds>>

\* The snapshot cannot be allocated.
WorkerSnapshotFails ==
  /\ MayCommit
  /\ faults < MaxFaults
  /\ faults' = faults + 1
  /\ attemptedGeneration' = generation
  /\ attemptSerial' = attemptSerial + 1
  /\ lastAttemptSucceeded' = FALSE
  /\ forceFlush' = FALSE
  /\ owner' = WakeOwner(owner)
  /\ IF stopRequested THEN stopped' = TRUE /\ worker' = "none"
                      ELSE worker' = "loop" /\ UNCHANGED stopped
  /\ UNCHANGED <<written, stopRequested, flushInProgress, committedGeneration,
                 commit, request, files, told, images, crashes>>

CreateTemp ==
  /\ WorkerMoves("create", "write")
  /\ tmp' = "partial"
  /\ UNCHANGED <<success, sav, survivors>>

\* Seeded fault of WriteSome: a short write is taken for a complete one.
WriteShort == WorkerMoves("write", "sync") /\ UNCHANGED <<success, files>>

\* write() may be short: the loop continues until the whole image is out.
WriteSome == WorkerMoves("write", "finish") /\ UNCHANGED <<success, files>>

WriteRest ==
  /\ WorkerMoves("finish", "sync")
  /\ tmp' = "whole"
  /\ UNCHANGED <<success, sav, survivors>>

\* Seeded fault of SyncTemp: the data is not synced before the rename.
SkipSyncTemp == WorkerMoves("sync", "close") /\ UNCHANGED <<success, files>>

SyncTemp ==
  /\ WorkerMoves("sync", "close")
  /\ tmp' = IF tmp = "whole" THEN "synced" ELSE tmp
  /\ UNCHANGED <<success, sav, survivors>>

CloseTemp == WorkerMoves("close", "rename") /\ UNCHANGED <<success, files>>

\* rename() replaces the name at once for every reader; until the directory
\* is synced a power loss may undo it, and unsynced data may be torn.
RenameTemp ==
  /\ WorkerMoves("rename", "opendir")
  /\ sav' = [image |-> snapshot, whole |-> tmp \in {"whole", "synced"}]
  /\ survivors' = survivors \cup
                    {[image |-> snapshot, whole |-> tmp = "synced"]}
  /\ tmp' = "none"
  /\ UNCHANGED success

OpenDirectory == WorkerMoves("opendir", "syncdir") /\ UNCHANGED <<success, files>>

\* Seeded fault of SyncDirectory: every fsync error is tolerated.
SkipSyncDirectory == WorkerMoves("syncdir", "closedir") /\ UNCHANGED <<success, files>>

\* fsync of the directory pins the name; where it is not implemented the
\* commit still counts as a success.
SyncDirectory ==
  /\ WorkerMoves("syncdir", "closedir")
  /\ survivors' = IF DirSync THEN {sav} ELSE survivors
  /\ UNCHANGED <<success, tmp, sav>>

CloseDirectory ==
  /\ WorkerMoves("closedir", "report")
  /\ success' = TRUE
  /\ UNCHANGED files

\* Any call may fail.  Before the rename the temporary is unlinked; after it
\* the new file stays although the commit reports a failure.
CommitFails ==
  /\ worker \in CommitSteps
  /\ faults < MaxFaults
  /\ faults' = faults + 1
  /\ tmp' = "none"
  /\ worker' = "report"
  /\ UNCHANGED <<written, orders, done, commit, owner, request, sav, survivors,
                 told, images, crashes>>

\* Seeded fault of CommitCleans: newer writes are taken for committed.
CommitCleansAll == success

\* A successful commit of the newest generation leaves nothing dirty.
CommitCleans == success /\ generation = snapshotGeneration

\* Seeded fault of WorkerStops: the commit under way is always the last.
StopsAtOnce == stopRequested

\* A requested stop waits for the newest generation, or for one failure.
WorkerStops == stopRequested /\ (~success \/ CommitCleans)

\* workerMain after the commit, with the mutex held again.
WorkerReport ==
  /\ worker = "report"
  /\ flushInProgress' = FALSE
  /\ attemptedGeneration' = snapshotGeneration
  /\ attemptSerial' = attemptSerial + 1
  /\ lastAttemptSucceeded' = success
  /\ committedGeneration' = IF success /\ committedGeneration < snapshotGeneration
                              THEN snapshotGeneration ELSE committedGeneration
  /\ dirty' = (dirty /\ ~CommitCleans)
  /\ owner' = WakeOwner(owner)
  /\ IF WorkerStops THEN stopped' = TRUE /\ worker' = "none"
                    ELSE worker' = "loop" /\ UNCHANGED stopped
  /\ UNCHANGED <<generation, shadow, callbackError, forceFlush, stopRequested,
                 commit, request, files, told, bounds>>

----------------------------------------------------------------------------
\* The process dies.  The page cache survives a kill; a power loss leaves any
\* of the survivors under the name.  A temporary may be left behind.
Die(file) ==
  /\ crashes < MaxCrashes
  /\ crashes' = crashes + 1
  /\ sav' = file
  /\ tmp' = IF tmp = "none" THEN "none" ELSE "stale"
  /\ FreshManager(file.image)
  /\ worker' = "none" /\ owner' = "closed"
  /\ UNCHANGED <<told, images, faults>>

Kill == owner # "closed" /\ Die(sav) /\ UNCHANGED survivors

PowerLoss == \E file \in survivors : Die(file) /\ survivors' = {file}

----------------------------------------------------------------------------
Commit ==
  \/ CreateTemp \/ WriteSome \/ WriteRest \/ SyncTemp \/ CloseTemp
  \/ RenameTemp \/ OpenDirectory \/ SyncDirectory \/ CloseDirectory

Worker == WorkerIdle \/ WorkerDebounce \/ WorkerStopClean \/ WorkerSnapshot
          \/ Commit \/ WorkerReport

OwnerReturns == FlushReturn \/ FlushBlock \/ ShutdownReturn

Owner == Open \/ RequestWrite \/ FlushAtOnce \/ FlushRequest
         \/ ShutdownRequest \/ OwnerReturns \/ Destroy

Fault == RejectWrite \/ WorkerSnapshotFails \/ CommitFails

Next == Owner \/ Worker \/ Fault \/ Kill \/ PowerLoss

Spec == Init /\ [][Next]_vars

\* The threads are scheduled; an owner that called in returns when it can.
\* Nothing obliges the cartridge to write, a call to fail or power to go.
FairSpec == Spec /\ WF_vars(Worker) /\ WF_vars(OwnerReturns)

----------------------------------------------------------------------------
\* Every variable keeps its type.
FlagsOK ==
  /\ dirty \in BOOLEAN /\ callbackError \in BOOLEAN
  /\ forceFlush \in BOOLEAN /\ stopRequested \in BOOLEAN /\ stopped \in BOOLEAN
  /\ flushInProgress \in BOOLEAN /\ lastAttemptSucceeded \in BOOLEAN
  /\ success \in BOOLEAN

TypeOK ==
  /\ FlagsOK
  /\ generation \in Nat /\ shadow \in Image
  /\ attemptSerial \in Nat /\ attemptedGeneration \in Nat
  /\ committedGeneration \in Nat
  /\ worker \in WorkerPC /\ owner \in OwnerPC
  /\ snapshotGeneration \in Nat /\ snapshot \in Image
  /\ targetGeneration \in Nat /\ startingAttempt \in Nat
  /\ tmp \in {"none", "partial", "whole", "synced", "stale"}
  /\ sav \in File /\ survivors \subseteq File
  /\ promised \in Image /\ answer \in {"none", "saved", "failed"}
  /\ images \in Image /\ faults \in 0..MaxFaults /\ crashes \in 0..MaxCrashes

\* Whatever a kill or a power loss interrupts, the .sav name shows one complete
\* image: never a file whose data was still being written or not yet synced
\* (commitSnapshot's order of write, fdatasync and rename).
NeverTorn == sav.whole /\ \A file \in survivors : file.whole

\* What flush or shutdown reported as saved is in the file, and on a file
\* system that can sync a directory no power loss brings back an older image,
\* however the report interleaved with commits, failures and newer writes.
PromiseKept ==
  DirSync => /\ promised <= sav.image
             /\ \A file \in survivors : promised <= file.image

\* A session that counts itself clean has its newest image in the file: a
\* write that lands while an older snapshot is being committed keeps dirty_.
CleanMeansSaved == (owner # "closed" /\ ~dirty) => sav.image = shadow

\* A failed shutdown has a cause: a rejected callback or a failed attempt.
\* A newer generation left behind by a commit that succeeded is no reason.
ShutdownFailureHasCause ==
  (owner = "joined" /\ answer = "failed")
    => callbackError \/ ~lastAttemptSucceeded

\* The save file never goes back to an older image while the power stays on:
\* not by a late commit, not by a failed one, not by a restart.
NeverGoesBack == [][sav'.image < sav.image => PowerLoss]_vars

\* flush() and shutdown() return although commits may fail: no notification is
\* lost, whichever commit was under way when they were called.
CallsReturn ==
  /\ (owner \in {"flush", "recheck"}) ~> (owner \in {"run", "closed"})
  /\ (owner = "join") ~> (owner # "join")

\* An accepted write does not stay unsaved while its session lives.
EventuallySaved == dirty ~> (~dirty \/ owner \in {"joined", "closed"})

\* The manager implements the abstract promise of save persistence.
Abstract == INSTANCE DurableSave WITH accepted <- shadow, durable <- sav.image
ImplementsDurableSave == Abstract!Spec

----------------------------------------------------------------------------
(* The inductive invariant behind the safety properties.                    *)

\* The threads: who runs in which phase of a session.
PhaseInv ==
  /\ owner = "closed" => worker = "none" /\ ~dirty
  /\ owner = "joined" => worker = "none"
  /\ owner \in {"run", "flush", "recheck"} => worker # "none"
  /\ stopRequested <=> owner \in {"join", "joined"}
  /\ stopped => worker = "none"
  /\ flushInProgress <=> worker \in CommitSteps \cup {"report"}
  /\ worker \in {"debounce", "report"} \cup CommitSteps => dirty

\* Generations count the images of the session; a flush waits for the newest.
GenerationInv ==
  /\ committedGeneration <= generation
  /\ dirty <=> committedGeneration < generation
  /\ owner \in {"flush", "recheck"} => targetGeneration = generation
  /\ flushInProgress =>
       /\ snapshotGeneration <= generation
       /\ snapshotGeneration = generation => snapshot = shadow
       /\ sav.image <= snapshot

\* What the system calls made so far have brought about.
CommitInv ==
  /\ worker = "sync" => tmp = "whole"
  /\ worker \in {"close", "rename"} => tmp = "synced"
  /\ worker \in AfterRename => sav.image = snapshot
  /\ worker \in CommitSteps => ~success
  /\ (worker = "report" /\ success) => sav.image = snapshot
  /\ (DirSync /\ (worker = "closedir" \/ (worker = "report" /\ success)))
       => survivors = {sav}

\* The file, what a power loss may leave of it, and the images in memory.
DiskInv ==
  /\ NeverTorn
  /\ sav \in survivors
  /\ \A file \in survivors : file.image <= sav.image
  /\ sav.image <= shadow /\ snapshot <= shadow /\ shadow <= images
  /\ ~dirty => sav.image = shadow
  /\ (DirSync /\ ~dirty /\ generation > 0) => survivors = {sav}

\* A worker that has ended with something unsaved failed at its last attempt,
\* and only then, or for a rejected write, a shutdown reports a failure.
StopInv ==
  /\ (owner # "closed" /\ worker = "none" /\ dirty) => ~lastAttemptSucceeded
  /\ (owner = "joined" /\ answer = "failed") => dirty \/ callbackError

SaveInv == TypeOK /\ PhaseInv /\ GenerationInv /\ CommitInv /\ DiskInv /\ PromiseKept
============================================================================
