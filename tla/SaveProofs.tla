----------------------------- MODULE SaveProofs -----------------------------
(***************************************************************************)
(* Proofs about the two ways in which saves reach a disk.  They share this *)
(* module and nothing else.                                                *)
(*                                                                         *)
(* SaveBridge: BridgeInv is inductive, for every set of games, all sizes   *)
(* of chips and files, and every bound on writes and loads, and SaveKept   *)
(* and WrongSizeUntouched follow from it.  The account of the bytes that   *)
(* the card and the bridge lose (spoiled) is part of it.                   *)
(*                                                                         *)
(* SaveManager: SaveInv is inductive, for every bound on writes, faults    *)
(* and crashes and with or without directory syncs, and the safety         *)
(* properties of the module follow from it.                                *)
(***************************************************************************)
EXTENDS SaveManager, SaveBridge, TLAPS

(***************************************************************************)
(* SaveBridge.  The types, for the host, the card and the bridge.          *)
(***************************************************************************)
Cartridges == Games \cup {NoGame}
Sector     == [Cells -> Nat]

HostTypes ==
  /\ file \in [Games -> Seq(Sector)]
  /\ chip \in [Games -> [Sectors -> Sector]]
  /\ writes \in Nat /\ loads \in Nat
  /\ phase \in {"serving", "holding", "draining", "copying", "mounted",
                "resetting", "leaving", "exited"}
  /\ next \in Cartridges /\ fd \in Cartridges /\ game \in Cartridges
  /\ inHand \in {<<>>} \cup (Nat \X Sector)
  /\ hold \in BOOLEAN /\ download \in BOOLEAN /\ profileUp \in BOOLEAN
  /\ edge \in BOOLEAN /\ mountQueued \in BOOLEAN /\ queuedLen \in Nat

CardTypes ==
  /\ profile \in Cartridges /\ access \in BOOLEAN /\ at \in Nat
  /\ cell \in Cells /\ left \in Nat
  /\ cache \in Sector /\ odd \in BOOLEAN /\ wrote \in BOOLEAN
  /\ cardReady \in BOOLEAN
  /\ vProfile \in Cartridges /\ vAccess \in BOOLEAN /\ vAt \in Nat

BridgeTypes ==
  /\ state \in {"WAIT_MOUNT", "WAIT_PROFILE", "CACHE_CLEAR", "INIT_REQUEST",
                "INIT_WAIT", "LOAD_REQUEST", "LOAD_COMMIT", "READY",
                "FLUSH_REQUEST", "FLUSH_WAIT"}
  /\ lba \in Nat /\ target \in Nat
  /\ epoch \in BOOLEAN /\ mountPending \in BOOLEAN /\ mountedLen \in Nat
  /\ armed \in BOOLEAN /\ saveReady \in BOOLEAN /\ runReady \in BOOLEAN
  /\ allowed \in BOOLEAN /\ known \in Nat /\ activeSize \in Nat
  /\ initSector \in Nat /\ forInit \in BOOLEAN
  /\ cacheLba \in Nat /\ cacheValid \in BOOLEAN /\ cacheDirty \in BOOLEAN
  /\ dirtyDuringFlush \in BOOLEAN /\ postFlushLoad \in BOOLEAN
  /\ replacement \in BOOLEAN

TypeInv == HostTypes /\ CardTypes /\ BridgeTypes

USE DEF HostTypes, CardTypes, BridgeTypes

(***************************************************************************)
(* The inductive invariant.  It speaks of files as they will be once the   *)
(* host has stored the sector in its hand.                                 *)
(***************************************************************************)
Sidecar(g) ==
  IF inHand # <<>> /\ fd = g THEN Stored(file[g], inHand[1], inHand[2]) ELSE file[g]

Saved(g, s, c) == Padded(Sidecar(g))[s][c] = chip[g][s][c]

Waiting  == state \in {"WAIT_MOUNT", "WAIT_PROFILE"}
Creating ==
  \/ state \in {"INIT_REQUEST", "INIT_WAIT"}
  \/ state = "CACHE_CLEAR" /\ forInit

Changing == phase \in {"draining", "copying", "mounted"}

(* The host's levels fit its step.  A game that runs has the file that was *)
(* opened for it.                                                          *)
HostInv ==
  /\ phase # "serving" => hold
  /\ edge => phase = "draining"
  /\ Changing => ~profileUp /\ game = next
  /\ Changing \/ phase = "holding" => next \in Games
  /\ phase = "mounted" => fd = game
  /\ profileUp => game \in Games /\ fd = game
  /\ ~hold => ~mountQueued /\ (profileUp \/ game = NoGame)
  /\ ~mountQueued => mountedLen = queuedLen

(* The card knows the profile of the cartridge only, and is still while    *)
(* games are changed.  An erase ends at the end of the chip.               *)
CardInv ==
  /\ profile = NoGame => ~access /\ at = 1 /\ cell = 1 /\ left = 0 /\ ~odd
  /\ profile # NoGame =>
       /\ profile = game /\ profileUp /\ ~Changing
       /\ saveReady /\ ~download /\ ~mountQueued
       /\ at \in 1 .. Size[profile]
  /\ Changing => ~wrote
  /\ wrote => profile # NoGame \/ hold
  /\ access => runReady
  /\ left > 0 => access
  /\ left > 1 => left = 2 * (Size[profile] - at) + (3 - cell)
  /\ vProfile = NoGame => ~vAccess
  /\ vAccess => vAt \in 1 .. Size[vProfile]
  /\ saveReady => state # "WAIT_MOUNT"

(* The notice of the mount tells the length of the file that is open. *)
Announced == fd \in Games /\ inHand = <<>> /\ queuedLen = Len(file[fd])

(* What the game before leaves is flushed before the next file is opened,  *)
(* and a profile is taken only with the file that was announced for it.    *)
ChangeInv ==
  /\ armed => state = "WAIT_PROFILE"
  /\ armed /\ vProfile # NoGame => Announced /\ vProfile = fd /\ ~mountQueued
  /\ Waiting /\ (profileUp \/ phase = "mounted") => Announced
  /\ replacement => Flushing /\ phase = "draining" /\ ~edge
  /\ ~profileUp /\ ~edge =>
       \/ Waiting /\ (armed => vProfile = NoGame)
       \/ Flushing /\ replacement
  /\ phase \in {"copying", "mounted"} => ~Flushing /\ inHand = <<>>

Acceptable == queuedLen = 0 \/ queuedLen = Size[fd] \/ Short(fd, queuedLen)

Fetching ==
  \/ state \in {"LOAD_REQUEST", "LOAD_COMMIT"}
  \/ state = "CACHE_CLEAR" /\ ~forInit
  \/ Flushing /\ postFlushLoad

(* The verdict on the file holds while the file is open, and the sectors   *)
(* that the bridge asks for are sectors of the chip.                       *)
JudgeInv ==
  /\ Waiting => ~allowed /\ ~cacheValid /\ ~runReady
  /\ ~Waiting => /\ fd \in Games /\ activeSize = Size[fd]
                 /\ vProfile \in {NoGame, fd}
  /\ allowed => Acceptable
  /\ ~allowed => known = 0
  /\ Creating => /\ allowed /\ ~runReady /\ ~cacheValid
                 /\ initSector \in 1 .. activeSize
  /\ state \in {"INIT_REQUEST", "INIT_WAIT"} => lba = initSector /\ cache = Blank
  /\ ~Waiting /\ ~Creating /\ allowed => known = activeSize
  /\ Flushing => allowed /\ cacheValid /\ lba = cacheLba
  /\ state = "FLUSH_REQUEST" => cacheDirty
  /\ Fetching => target \in 1 .. Size[fd]
  /\ state = "LOAD_REQUEST" => lba = target
  /\ state = "CACHE_CLEAR" /\ ~forInit => ~allowed
  /\ cacheValid => cacheLba \in 1 .. Size[fd]
  /\ wrote \/ odd \/ cacheDirty => cacheValid

(* A file grows by one sector at its end or not at all, and has the length *)
(* of its chip once it is created.                                         *)
FileInv ==
  /\ inHand # <<>> => /\ fd \in Games /\ inHand[1] \in 1 .. Size[fd]
                      /\ inHand[1] <= Len(file[fd]) + 1
                      /\ Acceptable
  /\ Creating => Len(Sidecar(fd)) = IF state = "INIT_WAIT" THEN initSector
                                    ELSE initSector - 1
  /\ ~Waiting /\ ~Creating /\ allowed => Len(Sidecar(fd)) = activeSize

(* A card that is served writes to the sector that it asks for; or the     *)
(* ready level is an old one, and an erase has run out of a sector that is *)
(* marked to be flushed.                                                   *)
Served == state = "READY" /\ cacheLba = vAt /\ at = vAt

RunsOn ==
  left > 1 /\ at = cacheLba + 1 /\ cacheDirty /\ state \in {"READY", "FLUSH_REQUEST"}

ReadyInv ==
  /\ access /\ cardReady => vAccess /\ cacheValid
  /\ access /\ vAccess /\ at # vAt => cardReady /\ Ready
  /\ access /\ cardReady /\ allowed /\ left > 0 /\ cell = 1 => Served \/ RunsOn

(* What an erase has left behind is erased, the first bytes at least. *)
EraseInv ==
  /\ left > 0 => game \in Flash
  /\ allowed /\ left > 1 =>
       /\ cell = 2 => chip[game][at][1] = 0
       /\ cell = 1 /\ at > 1 => chip[game][at - 1][1] = 0

(* The card has not turned from the cached sector to another one. *)
Stays == (access => at = cacheLba) /\ (vAccess => vAt = cacheLba)

(* A notice of a write is on its way, the first one to a clean sector: the *)
(* card is still there, or is one that can write over the sector's end.    *)
NoticeInv ==
  /\ wrote /\ profile # NoGame /\ allowed /\ ~cacheDirty =>
       (game \notin Flash /\ Size[game] > 1) \/ (cacheValid /\ Stays)
  /\ wrote /\ allowed /\ state \in {"FLUSH_WAIT", "LOAD_COMMIT"} => profile = NoGame
  /\ OnlyAtTheEnds

(* A byte of the cached sector may be newer than the file: the sector is   *)
(* dirty, or the notice of a write is on its way and the card has not      *)
(* turned to another sector, unless the byte is the last one.              *)
OnlyCached(c) ==
  /\ phase # "exited" /\ cacheValid /\ allowed
  /\ \/ state = "FLUSH_REQUEST"
     \/ state = "READY" /\ cacheDirty
     \/ state = "READY" /\ wrote /\ profile # NoGame /\ (c = 2 \/ Stays)

(* But for the bytes that are lost, all others are in their files, and the *)
(* cache of a chip that lasts is the sector it stands for.                 *)
Kept ==
  \A g \in Games, s \in Sectors, c \in Cells :
    \/ <<g, s, c>> \in spoiled
    \/ Saved(g, s, c)
    \/ g = fd /\ s = cacheLba /\ OnlyCached(c)

Mirrors(s) == \A c \in Cells : <<fd, s, c>> \in spoiled \/ cache[c] = chip[fd][s][c]

ContentInv ==
  /\ Kept
  /\ allowed /\ cacheValid /\ (state = "READY" \/ Flushing) => Mirrors(cacheLba)
  /\ allowed /\ state = "LOAD_COMMIT" => Mirrors(target)

BridgeInv ==
  TypeInv /\ HostInv /\ CardInv /\ ChangeInv /\ JudgeInv /\ FileInv
  /\ ReadyInv /\ EraseInv /\ NoticeInv /\ ContentInv

(* Steps of the card, of the bridge, and of the host between its games.    *)
CardSteps ==
  \/ CardArrives \/ ReadyArrives \/ WriteArrives \/ ResetCard \/ CardCloses
  \/ CardReads \/ EraseStep \/ PublishProfile \/ CardOpens \/ CardWrites \/ CardErases

BridgeSteps ==
  \/ WaitMount \/ ArmProfile \/ JudgeFile \/ CacheClear \/ InitWait \/ Miss
  \/ LoadCommit \/ FlushWait \/ QuietFlush \/ HostReads

ChangeSteps ==
  \/ RaiseDownload \/ Drained \/ Mounts \/ Releases \/ FinishReset \/ Exit
  \/ (\E g \in Games : StartLoad(g)) \/ Aborts \/ StartReset \/ StartExit

\* Every step is one of these.
LEMMA Steps ==
  ASSUME BridgeNext
  PROVE  \/ CardSteps \/ BridgeSteps \/ ChangeSteps
         \/ CartEvent \/ MountPulse \/ HostTakes \/ HostStores
  BY Zenon DEF BridgeNext, Arrives, Bridge, Serves, Proceeds,
     CardSteps, BridgeSteps, ChangeSteps

HostStays ==
  UNCHANGED <<phase, next, fd, hold, download, profileUp, edge, mountQueued,
              queuedLen, game>>

\* Card, bridge and sector service leave the games to the rest of the host.
LEMMA HostRests ==
  ASSUME CardSteps \/ BridgeSteps \/ HostTakes \/ HostStores \/ UNCHANGED saveVars
  PROVE  HostStays /\ UNCHANGED mountedLen
<1> USE DEF HostStays, hostVars, notices, mountVars, bridgeVars, around
<1>1. CASE CardArrives \/ ReadyArrives \/ WriteArrives \/ ResetCard \/ CardCloses
           \/ CardReads
  BY <1>1, Zenon DEF CardArrives, ReadyArrives, WriteArrives, ResetCard, CardCloses,
     CardReads
<1>2. CASE EraseStep \/ PublishProfile \/ CardOpens \/ CardWrites \/ CardErases
  BY <1>2, Zenon DEF EraseStep, PublishProfile, CardOpens, CardWrites, CardErases
<1>3. CASE WaitMount \/ ArmProfile \/ JudgeFile \/ CacheClear \/ InitWait
  BY <1>3, Zenon DEF WaitMount, ArmProfile, JudgeFile, CacheClear, InitWait
<1>4. CASE Miss \/ LoadCommit \/ FlushWait \/ QuietFlush \/ HostReads
  BY <1>4, Zenon DEF Miss, LoadCommit, FlushWait, QuietFlush, HostReads
<1>5. CASE HostTakes \/ HostStores
  BY <1>5, Zenon DEF HostTakes, HostStores
<1>6. CASE UNCHANGED saveVars
  BY <1>6, Zenon DEF saveVars
<1> QED
  BY <1>1, <1>2, <1>3, <1>4, <1>5, <1>6, Zenon DEF CardSteps, BridgeSteps

CardRests ==
  UNCHANGED <<profile, access, at, cell, left, odd, cardReady, cache, wrote,
              vProfile, vAccess, vAt>>

BridgeRests ==
  UNCHANGED <<state, lba, target, epoch, mountPending, mountedLen, armed,
              saveReady, runReady, allowed, known, activeSize, cacheLba,
              cacheValid, cacheDirty, dirtyDuringFlush, postFlushLoad,
              replacement, initSector, forInit>>

\* While the host goes from game to game, card, bridge and files rest, and no
\* sector is in its hand.
LEMMA ChangeRests ==
  ASSUME ChangeSteps
  PROVE  /\ CardRests /\ BridgeRests /\ UNCHANGED <<file, chip, spoiled, writes>>
         /\ inHand = <<>> /\ UNCHANGED inHand
<1> USE DEF Go, aside, bridgeVars, mountVars, judged, lines, initVars, cardVars,
    views, CardRests, BridgeRests
<1>1. CASE RaiseDownload \/ Drained
  BY <1>1, Zenon DEF RaiseDownload, Drained
<1>2. CASE Mounts \/ Releases \/ FinishReset
  BY <1>2, Zenon DEF Mounts, Releases, FinishReset
<1>3. CASE Exit \/ (\E g \in Games : StartLoad(g))
  BY <1>3, Zenon DEF Exit, StartLoad
<1>4. CASE Aborts
  BY <1>4, Zenon DEF Aborts
<1>5. CASE StartReset \/ StartExit
  BY <1>5, Zenon DEF StartReset, StartExit
<1> QED
  BY <1>1, <1>2, <1>3, <1>4, <1>5, Zenon DEF ChangeSteps

(* Nothing happens to card and bridge in a step of neither. *)
LEMMA BridgeStutters ==
  ASSUME UNCHANGED saveVars
  PROVE  /\ CardRests /\ BridgeRests
         /\ UNCHANGED <<file, chip, spoiled, writes, loads, inHand>>
  BY Zenon DEF saveVars, hostVars, notices, cardVars, views, bridgeVars, mountVars,
     judged, lines, initVars, history, CardRests, BridgeRests

\* The bridge's steps change neither files nor card.
LEMMA BridgeStepRests ==
  ASSUME BridgeSteps \/ CartEvent \/ MountPulse
  PROVE  /\ UNCHANGED <<file, chip, writes, loads, inHand>>
         /\ UNCHANGED <<profile, access, at, cell, left, odd, cardReady, wrote,
                        vProfile, vAccess, vAt>>
<1> USE DEF around, history, hostVars, cardVars, views
<1>1. CASE WaitMount \/ ArmProfile \/ JudgeFile \/ CacheClear \/ InitWait
  BY <1>1, Zenon DEF WaitMount, ArmProfile, JudgeFile, CacheClear, InitWait
<1>2. CASE Miss \/ LoadCommit \/ FlushWait \/ QuietFlush \/ HostReads
  BY <1>2, Zenon DEF Miss, LoadCommit, FlushWait, QuietFlush, HostReads
<1>3. CASE CartEvent \/ MountPulse
  BY <1>3, Zenon DEF CartEvent, MountPulse
<1> QED
  BY <1>1, <1>2, <1>3, Zenon DEF BridgeSteps

(* The card's steps leave the bridge alone but for the dirty mark. *)
LEMMA CardStepRests ==
  ASSUME CardSteps
  PROVE  /\ UNCHANGED <<file, inHand, loads>>
         /\ UNCHANGED <<state, lba, target, epoch, mountPending, mountedLen, armed,
                        saveReady, runReady, allowed, known, activeSize, cacheLba,
                        cacheValid, postFlushLoad, replacement, initSector, forInit>>
<1> USE DEF history, hostVars, bridgeVars, mountVars, judged, lines, initVars
<1>1. CASE CardArrives \/ ReadyArrives \/ WriteArrives \/ ResetCard \/ CardCloses
           \/ CardReads
  BY <1>1, Zenon DEF CardArrives, ReadyArrives, WriteArrives, ResetCard, CardCloses,
     CardReads
<1>2. CASE EraseStep \/ PublishProfile \/ CardOpens \/ CardWrites \/ CardErases
  BY <1>2, Zenon DEF EraseStep, PublishProfile, CardOpens, CardWrites, CardErases
<1> QED
  BY <1>1, <1>2, Zenon DEF CardSteps

(* What the host's steps do to its own state. *)
\* The start of a load holds the CPUs and ends an earlier ROM transfer.
LEMMA LoadFacts ==
  ASSUME \E g \in Games : StartLoad(g)
  PROVE  /\ phase = "serving" /\ phase' = "holding" /\ next' \in Games
         /\ hold' /\ ~download'
         /\ UNCHANGED <<fd, profileUp, edge, mountQueued, queuedLen, game>>
  BY Zenon DEF StartLoad, Go, notices

\* The transfer of the next ROM starts with a card that is reset.
LEMMA RaiseFacts ==
  ASSUME RaiseDownload
  PROVE  /\ phase = "holding" /\ phase' = "draining"
         /\ profile = NoGame /\ ~wrote /\ ~mountQueued
         /\ download' /\ edge' /\ ~profileUp' /\ game' = next
         /\ UNCHANGED <<next, fd, hold, mountQueued, queuedLen>>
  BY Zenon DEF RaiseDownload, Go, CardIsReset

\* The host goes on when the bridge has seen the download and flushes no
\* more.
LEMMA DrainFacts ==
  ASSUME Drained
  PROVE  /\ phase = "draining" /\ phase' = "copying" /\ ~edge /\ ~Flushing
         /\ UNCHANGED <<next, fd, hold, download, profileUp, edge, mountQueued,
                        queuedLen, game>>
  BY Zenon DEF Drained, OutgoingDrained, Go, notices

\* The mount opens the file of the next game and queues its notice.
LEMMA MountFacts ==
  ASSUME Mounts
  PROVE  /\ phase = "copying" /\ phase' = "mounted" /\ fd' = next
         /\ mountQueued' /\ queuedLen' = Len(file[next])
         /\ UNCHANGED <<next, hold, download, profileUp, edge, game>>
  BY Zenon DEF Mounts, Go

\* A game is released with a card that is reset and its file announced.
LEMMA ReleaseFacts ==
  ASSUME Releases
  PROVE  /\ phase = "mounted" /\ phase' = "serving"
         /\ profile = NoGame /\ ~wrote /\ ~mountQueued
         /\ ~download' /\ profileUp' /\ ~hold'
         /\ UNCHANGED <<next, fd, edge, mountQueued, queuedLen, game>>
  BY Zenon DEF Releases, Go, CardIsReset, notices

\* A load that fails leaves the CPUs held.
LEMMA AbortFacts ==
  ASSUME Aborts
  PROVE  /\ phase' = "serving"
         /\ \/ phase \in {"holding", "copying"} /\ UNCHANGED <<download, profileUp>>
            \/ phase = "mounted" /\ ~download' /\ profileUp' \in BOOLEAN
         /\ UNCHANGED <<next, fd, hold, edge, mountQueued, queuedLen, game>>
<1>1. UNCHANGED <<next, fd, hold, edge, mountQueued, queuedLen, game>>
  BY Zenon DEF Aborts, notices
<1>2. phase' = "serving"
  BY Zenon DEF Aborts, Go
<1>3. \/ phase \in {"holding", "copying"} /\ UNCHANGED <<download, profileUp>>
      \/ phase = "mounted" /\ ~download' /\ profileUp' \in BOOLEAN
  BY Zenon DEF Aborts, Go
<1> QED
  BY <1>1, <1>2, <1>3, Zenon

\* A reset and the end of the host start with CPUs that are held.
LEMMA ResetFacts ==
  ASSUME StartReset \/ StartExit
  PROVE  /\ phase = "serving" /\ phase' \in {"resetting", "leaving"} /\ hold'
         /\ ~download' \/ UNCHANGED download
         /\ UNCHANGED <<next, fd, profileUp, edge, mountQueued, queuedLen, game>>
<1>1. CASE StartReset
  BY <1>1, Zenon DEF StartReset, Go, notices
<1>2. CASE StartExit
  BY <1>2, Zenon DEF StartExit, Go, notices
<1> QED
  BY <1>1, <1>2

\* A reset ends with CPUs released only if there is a save profile.
LEMMA FinishFacts ==
  ASSUME FinishReset
  PROVE  /\ phase = "resetting" /\ phase' = "serving"
         /\ profile = NoGame /\ ~wrote /\ ~mountQueued
         /\ (hold' <=> ~profileUp)
         /\ UNCHANGED <<next, fd, download, profileUp, edge, mountQueued,
                        queuedLen, game>>
  BY Zenon DEF FinishReset, Go, CardIsReset, notices

\* The host ends when nothing is left to flush.
LEMMA ExitFacts ==
  ASSUME Exit
  PROVE  /\ phase = "leaving" /\ phase' = "exited"
         /\ ~Flushing /\ ~wrote /\ ~(state = "READY" /\ MustFlush)
         /\ UNCHANGED <<next, fd, hold, download, profileUp, edge, mountQueued,
                        queuedLen, game>>
  BY Zenon DEF Exit, Go, notices

\* The host's levels and files stay consistent with its step (host.cpp load).
LEMMA HostStep ==
  ASSUME TypeInv, HostInv, CardInv, ChangeInv, [BridgeNext]_saveVars
  PROVE  HostInv'
<1> USE DEF HostInv, Changing
<1>1. CASE ChangeSteps
  <2>1. UNCHANGED mountedLen
    BY <1>1, ChangeRests DEF BridgeRests
  <2>2. CASE RaiseDownload
    BY <2>1, <2>2, RaiseFacts DEF TypeInv
  <2>3. CASE Drained
    BY <2>1, <2>3, DrainFacts
  <2>4. CASE Mounts
    BY <2>1, <2>4, MountFacts DEF TypeInv
  <2>5. CASE Releases
    BY <2>1, <2>5, ReleaseFacts
  <2>6. CASE FinishReset
    BY <2>1, <2>6, FinishFacts
  <2>7. CASE Aborts
    BY <2>1, <2>7, AbortFacts DEF TypeInv
  <2>8. CASE \E g \in Games : StartLoad(g)
    BY <2>1, <2>8, LoadFacts
  <2>9. CASE StartReset \/ StartExit
    BY <2>1, <2>9, ResetFacts
  <2>10. CASE Exit
    BY <2>1, <2>10, ExitFacts
  <2> QED
    BY <1>1, <2>2, <2>3, <2>4, <2>5, <2>6, <2>7, <2>8, <2>9, <2>10
    DEF ChangeSteps
<1>2. CASE MountPulse
  BY <1>2, SMT DEF MountPulse, hostVars
<1>3. CASE CartEvent
  BY <1>3, SMT DEF CartEvent, hostVars
<1>4. CASE CardSteps \/ BridgeSteps \/ HostTakes \/ HostStores \/ UNCHANGED saveVars
  <2>1. HostStays /\ UNCHANGED mountedLen
    BY <1>4, HostRests
  <2> QED
    BY <2>1, Zenon DEF HostStays
<1> QED
  BY <1>1, <1>2, <1>3, <1>4, Steps

\* The card stays within its game, and is at rest while games are changed
\* (nds_card.vhd reset).
LEMMA CardStep ==
  ASSUME TypeInv, HostInv, CardInv, ChangeInv, JudgeInv, [BridgeNext]_saveVars
  PROVE  CardInv'
<1> USE DEF CardInv, Changing
<1>1. CASE ChangeSteps
  <2>1. /\ UNCHANGED <<profile, access, at, cell, left, odd, wrote, vProfile,
                       vAccess, vAt, runReady, saveReady, state>>
    BY <1>1, ChangeRests DEF BridgeRests, CardRests
  <2> USE <2>1
  <2>2. CASE RaiseDownload
    BY <2>2, RaiseFacts DEF HostInv
  <2>3. CASE Drained
    BY <2>3, DrainFacts
  <2>4. CASE Mounts
    BY <2>4, MountFacts
  <2>5. CASE Releases
    BY <2>5, ReleaseFacts
  <2>6. CASE FinishReset
    BY <2>6, FinishFacts
  <2>7. CASE Aborts
    BY <2>7, AbortFacts
  <2>8. CASE \E g \in Games : StartLoad(g)
    BY <2>8, LoadFacts
  <2>9. CASE StartReset \/ StartExit
    BY <2>9, ResetFacts
  <2>10. CASE Exit
    BY <2>10, ExitFacts
  <2> QED
    BY <1>1, <2>2, <2>3, <2>4, <2>5, <2>6, <2>7, <2>8, <2>9, <2>10
    DEF ChangeSteps
<1>2. CASE MountPulse
  BY <1>2, SMT DEF MountPulse, hostVars, cardVars, views, judged
<1>3. CASE CartEvent
  <2>1. /\ UNCHANGED <<phase, hold, download, profileUp, mountQueued, game>>
        /\ edge /\ ~saveReady'
    BY <1>3, Zenon DEF CartEvent, hostVars, ResetForNewCart
  <2>2. UNCHANGED <<profile, access, at, cell, left, odd, wrote, vProfile,
                    vAccess, vAt>>
    BY <1>3, BridgeStepRests
  <2>3. profile = NoGame
    BY <2>1 DEF HostInv
  <2> QED
    BY <2>1, <2>2, <2>3
<1>4. CASE BridgeSteps
  <2>1. HostStays
    BY <1>4, HostRests
  <2>2. UNCHANGED <<profile, access, at, cell, left, odd, wrote, vProfile,
                    vAccess, vAt>>
    BY <1>4, BridgeStepRests
  <2>3. /\ saveReady /\ profile # NoGame => saveReady'
        /\ access => runReady'
        /\ saveReady' => state' # "WAIT_MOUNT"
    <3>1. CASE WaitMount
      BY <3>1 DEF WaitMount
    <3>2. CASE FlushWait /\ replacement
      <4>1. profile = NoGame
        BY <3>2 DEF ChangeInv
      <4>2. ~saveReady'
        BY <3>2, Zenon DEF FlushWait, ResetForNewCart
      <4> QED
        BY <4>1, <4>2
    <3>3. CASE ArmProfile \/ JudgeFile \/ CacheClear \/ InitWait \/ Miss
               \/ LoadCommit \/ (FlushWait /\ ~replacement) \/ QuietFlush
               \/ HostReads
      <4>1. UNCHANGED saveReady
        BY <3>3, Zenon DEF ArmProfile, JudgeFile, CacheClear, InitWait, Miss,
           LoadCommit, FlushWait, QuietFlush, HostReads, judged
      <4>2. runReady => runReady'
        BY <3>3, Zenon DEF ArmProfile, JudgeFile, CacheClear, InitWait, Miss,
           LoadCommit, FlushWait, QuietFlush, HostReads, judged
      <4>3. state # "WAIT_MOUNT" => state' # "WAIT_MOUNT"
        BY <3>3 DEF ArmProfile, JudgeFile, CacheClear, InitWait, Miss, Fetch,
           StartFlush, LoadCommit, FlushWait, QuietFlush, HostReads
      <4> QED
        BY <4>1, <4>2, <4>3
    <3> QED
      BY <1>4, <3>1, <3>2, <3>3 DEF BridgeSteps
  <2> QED
    BY <2>1, <2>2, <2>3, Zenon DEF HostStays
<1>5. CASE CardSteps
  <2>1. HostStays
    BY <1>5, HostRests
  <2>2. UNCHANGED <<state, saveReady, runReady>>
    BY <1>5, CardStepRests
  <2>3. CASE CardArrives
    BY <2>1, <2>2, <2>3 DEF CardArrives, cardVars, HostStays, TypeInv
  <2>4. CASE ReadyArrives \/ WriteArrives
    BY <2>1, <2>2, <2>4 DEF ReadyArrives, WriteArrives, cardVars, views, HostStays
  <2>5. CASE ResetCard
    BY <2>1, <2>2, <2>5 DEF ResetCard, HostStays, views, HostInv, ConsoleReset
  <2>6. CASE CardCloses
    <3>1. /\ access /\ ~access' /\ at' = 1 /\ left = 0
          /\ UNCHANGED <<profile, cell, left, odd, wrote, vProfile, vAccess, vAt>>
          /\ profile # NoGame
      BY <2>6, Zenon DEF CardCloses, views, GameRuns
    <3>2. 1 \in 1 .. Size[profile]
      BY <3>1, SaveBridgeAssumption DEF TypeInv, Cartridges
    <3> QED
      BY <2>1, <2>2, <3>1, <3>2 DEF HostStays
  <2>12. CASE CardReads
    <3>1. /\ access /\ at' = NextSector /\ profile # NoGame /\ runReady /\ left = 0
          /\ UNCHANGED <<profile, access, cell, left, odd, wrote>>
          /\ UNCHANGED <<vProfile, vAccess, vAt>>
      BY <2>12, Zenon DEF CardReads, views, GameRuns
    <3>2. at' \in 1 .. Size[profile]
      BY <3>1, SaveBridgeAssumption DEF NextSector, TypeInv, Cartridges
    <3> QED
      BY <2>1, <2>2, <3>1, <3>2 DEF HostStays
  <2>7. CASE EraseStep
    <3>1. /\ left > 0 /\ wrote' /\ left' = left - 1 /\ (access' <=> left > 1)
          /\ cell' = IF left > 1 THEN 3 - cell ELSE 1
          /\ at' = IF cell = 2 /\ left > 1 THEN at + 1 ELSE at
          /\ UNCHANGED <<profile, vProfile, vAccess, vAt>>
      BY <2>7, Zenon DEF EraseStep, WriteByte, views
    <3>2. access /\ profile # NoGame
      BY <3>1
    <3>3. /\ left \in Nat /\ at \in 1 .. Size[profile] /\ cell \in {1, 2}
          /\ Size[profile] \in Nat
      BY <3>2, SaveBridgeAssumption DEF TypeInv, Cells, Cartridges
    <3>4. /\ left' > 1 => left' = 2 * (Size[profile] - at') + (3 - cell')
          /\ at' \in 1 .. Size[profile]
      <4>1. CASE left > 1 /\ cell = 2
        <5>1. left = 2 * (Size[profile] - at) + 1
          BY <4>1, <3>3
        <5>2. at + 1 \in 1 .. Size[profile]
          BY <4>1, <5>1, <3>3
        <5>3. left' = left - 1 /\ at' = at + 1 /\ cell' = 1
          BY <4>1, <3>1
        <5>4. left - 1 = 2 * (Size[profile] - (at + 1)) + (3 - 1)
          BY <5>1, <3>3
        <5>5. left' = 2 * (Size[profile] - at') + (3 - cell')
          BY <5>3, <5>4
        <5> QED
          BY <5>2, <5>3, <5>5, Zenon
      <4>2. CASE left > 1 /\ cell = 1
        BY <4>2, <3>1, <3>3
      <4>3. CASE ~(left > 1)
        BY <4>3, <3>1, <3>3
      <4> QED
        BY <4>1, <4>2, <4>3, <3>3
    <3>5. /\ left' > 0 => access'
      BY <3>1, <3>3
    <3> QED
      BY <2>1, <2>2, <3>1, <3>2, <3>4, <3>5 DEF HostStays
  <2>8. CASE PublishProfile
    <3>1. /\ ~hold /\ ~download /\ saveReady /\ game # NoGame
          /\ profile = NoGame /\ profile' = game
          /\ UNCHANGED <<access, at, cell, left, odd, wrote, vProfile, vAccess,
                         vAt>>
      BY <2>8, Zenon DEF PublishProfile, ConsoleReset, views
    <3>2. profileUp /\ ~Changing /\ ~mountQueued /\ game \in Games
      BY <3>1 DEF HostInv
    <3>3. 1 \in 1 .. Size[game]
      BY <3>2, SaveBridgeAssumption
    <3> QED
      BY <2>1, <2>2, <3>1, <3>2, <3>3 DEF HostStays
  <2>9. CASE CardOpens
    BY <2>1, <2>2, <2>9 DEF CardOpens, GameRuns, views, HostStays
  <2>10. CASE CardWrites
    <3>1. /\ access /\ at' \in {at, NextSector} /\ profile # NoGame /\ runReady
          /\ left = 0
          /\ wrote' /\ UNCHANGED <<profile, access, cell, left, vProfile, vAccess, vAt>>
      BY <2>10, Zenon DEF CardWrites, WriteByte, views, GameRuns
    <3>2. at' \in 1 .. Size[profile]
      BY <3>1, SaveBridgeAssumption DEF NextSector, TypeInv, Cartridges
    <3> QED
      BY <2>1, <2>2, <3>1, <3>2 DEF HostStays
  <2>11. CASE CardErases
    <3>1. /\ profile # NoGame /\ runReady /\ access'
          /\ UNCHANGED <<profile, odd, wrote, vProfile, vAccess, vAt>>
      BY <2>11, Zenon DEF CardErases, GameRuns, views
    <3>2. \/ at' = 1 /\ cell' = 1 /\ left' = 2 * Size[game]
          \/ at' \in 1 .. Size[game] /\ cell' \in Cells /\ left' = 1
      BY <2>11, Zenon DEF CardErases
    <3>3. profile = game /\ Size[game] \in Nat \ {0}
      BY <3>1, SaveBridgeAssumption DEF TypeInv, Cartridges
    <3>4. /\ at' \in 1 .. Size[profile]
          /\ left' > 1 => left' = 2 * (Size[profile] - at') + (3 - cell')
      BY <3>2, <3>3
    <3> QED
      BY <2>1, <2>2, <3>1, <3>4 DEF HostStays
  <2> QED
    BY <1>5, <2>3, <2>4, <2>5, <2>6, <2>7, <2>8, <2>9, <2>10, <2>11, <2>12
    DEF CardSteps
<1>6. CASE HostTakes \/ HostStores \/ UNCHANGED saveVars
  <2>1. HostStays
    BY <1>6, HostRests
  <2>2. /\ UNCHANGED <<profile, access, at, cell, left, odd, wrote, vProfile,
                       vAccess, vAt, runReady, saveReady>>
        /\ state' = state \/ state' \in {"FLUSH_WAIT", "INIT_WAIT"}
    <3>1. CASE HostTakes
      BY <3>1 DEF HostTakes, cardVars, views, judged
    <3>2. CASE HostStores
      BY <3>2, Zenon DEF HostStores, cardVars, views, bridgeVars, judged
    <3>3. CASE UNCHANGED saveVars
      BY <3>3, BridgeStutters DEF CardRests, BridgeRests
    <3> QED
      BY <1>6, <3>1, <3>2, <3>3
  <2> QED
    BY <2>1, <2>2 DEF HostStays
<1> QED
  BY <1>1, <1>2, <1>3, <1>4, <1>5, <1>6, Steps

\* What is left of a game is flushed before the next one is mounted, and the
\* profile that the bridge takes is that of the file in its notice
\* (ST_WAIT_PROFILE).
LEMMA ChangeStep ==
  ASSUME TypeInv, HostInv, CardInv, ChangeInv, [BridgeNext]_saveVars
  PROVE  ChangeInv'
<1> USE DEF ChangeInv, Announced, Waiting, Flushing
<1>1. CASE ChangeSteps
  <2>1. /\ UNCHANGED <<profile, wrote, vProfile, state, armed, replacement, file>>
        /\ inHand = <<>> /\ UNCHANGED inHand
    BY <1>1, ChangeRests DEF BridgeRests, CardRests
  <2> USE <2>1
  <2>2. CASE RaiseDownload
    BY <2>2, RaiseFacts DEF HostInv, Changing
  <2>3. CASE Drained
    BY <2>3, DrainFacts DEF HostInv, Changing
  <2>4. CASE Mounts
    BY <2>4, MountFacts DEF HostInv, Changing
  <2>5. CASE Releases
    BY <2>5, ReleaseFacts DEF HostInv, Changing
  <2>6. CASE FinishReset
    BY <2>6, FinishFacts DEF HostInv, Changing
  <2>7. CASE Aborts
    BY <2>7, AbortFacts DEF HostInv, Changing
  <2>8. CASE \E g \in Games : StartLoad(g)
    BY <2>8, LoadFacts DEF HostInv, Changing
  <2>9. CASE StartReset \/ StartExit
    BY <2>9, ResetFacts DEF HostInv, Changing
  <2>10. CASE Exit
    BY <2>10, ExitFacts DEF HostInv, Changing
  <2> QED
    BY <1>1, <2>2, <2>3, <2>4, <2>5, <2>6, <2>7, <2>8, <2>9, <2>10
    DEF ChangeSteps
<1>2. CASE MountPulse
  BY <1>2, Zenon DEF MountPulse, hostVars, cardVars, views, judged, lines
<1>3. CASE CartEvent
  <2>1. /\ UNCHANGED <<phase, fd, profileUp, inHand, queuedLen, file, vProfile>>
        /\ edge /\ ~edge'
    BY <1>3, Zenon DEF CartEvent, hostVars, views
  <2>2. phase = "draining" /\ ~profileUp
    BY <2>1 DEF HostInv, Changing
  <2>3. \/ replacement' /\ Flushing' /\ (armed' => armed) /\ (armed => Flushing)
        \/ ~replacement' /\ state' = "WAIT_MOUNT" /\ ~armed'
    <3>1. CASE Flushing \/ (state = "READY" /\ MustFlush)
      BY <3>1, <1>3 DEF CartEvent, StartFlush
    <3>2. CASE ~Flushing /\ ~(state = "READY" /\ MustFlush)
      BY <3>2, <1>3 DEF CartEvent, ResetForNewCart
    <3> QED
      BY <3>1, <3>2
  <2> QED
    BY <2>1, <2>2, <2>3
<1>4. CASE BridgeSteps
  <2>1. HostStays
    BY <1>4, HostRests
  <2>2. UNCHANGED <<vProfile, inHand, file>>
    BY <1>4, BridgeStepRests
  <2>3. CASE WaitMount \/ ArmProfile
    <3>1. /\ Waiting /\ Waiting' /\ ~Flushing /\ ~Flushing'
          /\ \/ UNCHANGED armed /\ state = "WAIT_MOUNT"
             \/ armed' /\ vProfile = NoGame /\ state' = "WAIT_PROFILE"
          /\ UNCHANGED replacement
      BY <2>3 DEF WaitMount, ArmProfile, lines
    <3> QED
      BY <2>1, <2>2, <3>1 DEF HostStays
  <2>4. CASE JudgeFile
    <3>1. /\ Waiting /\ ~Waiting' /\ ~Flushing' /\ armed /\ vProfile # NoGame
          /\ ~armed' /\ UNCHANGED replacement
      BY <2>4 DEF JudgeFile, Fresh
    <3>2. profileUp \/ edge
      BY <3>1
    <3> QED
      BY <2>1, <2>2, <3>1, <3>2 DEF HostStays
  <2>5. CASE FlushWait
    <3>1. \/ replacement /\ Waiting' /\ ~armed' /\ ~replacement'
          \/ ~replacement /\ ~Waiting' /\ ~Flushing' /\ UNCHANGED <<armed, replacement>>
      BY <2>5 DEF FlushWait, ResetForNewCart, Fetch, judged
    <3>2. state = "FLUSH_WAIT"
      BY <2>5 DEF FlushWait
    <3>3. replacement => ~profileUp /\ phase = "draining"
      BY DEF HostInv, Changing
    <3> QED
      BY <2>1, <2>2, <3>1, <3>2, <3>3 DEF HostStays
  <2>6. CASE CacheClear \/ InitWait \/ Miss \/ LoadCommit \/ QuietFlush \/ HostReads
    <3>1. /\ state \in {"CACHE_CLEAR", "INIT_WAIT", "READY", "LOAD_COMMIT",
                        "LOAD_REQUEST"}
          /\ state' \notin {"WAIT_MOUNT", "WAIT_PROFILE"}
          /\ UNCHANGED <<armed, replacement>>
      BY <2>6 DEF CacheClear, InitWait, Miss, LoadCommit, QuietFlush, HostReads,
         Fetch, StartFlush, judged, lines
    <3> QED
      BY <2>1, <2>2, <3>1 DEF HostStays, HostInv, Changing
  <2> QED
    BY <1>4, <2>3, <2>4, <2>5, <2>6 DEF BridgeSteps
<1>5. CASE CardSteps
  <2>1. HostStays
    BY <1>5, HostRests
  <2>2. UNCHANGED <<state, armed, replacement, file, inHand>>
    BY <1>5, CardStepRests
  <2>3. CASE CardArrives
    <3>1. vProfile' = profile
      BY <2>3 DEF CardArrives
    <3>2. profile # NoGame => profileUp /\ profile = fd /\ ~mountQueued
      BY DEF CardInv, HostInv
    <3> QED
      BY <2>1, <2>2, <3>1, <3>2 DEF HostStays
  <2>4. CASE ~CardArrives
    <3>1. UNCHANGED vProfile
      BY <1>5, <2>4, Zenon DEF CardSteps, ReadyArrives, WriteArrives, ResetCard,
         CardCloses, CardReads, EraseStep, PublishProfile, CardOpens, CardWrites,
         CardErases,
         views
    <3> QED
      BY <2>1, <2>2, <3>1 DEF HostStays
  <2> QED
    BY <2>3, <2>4
<1>6. CASE HostTakes
  <2>1. HostStays
    BY <1>6, HostRests
  <2>2. /\ UNCHANGED <<vProfile, file, armed, replacement>>
        /\ \/ state = "FLUSH_REQUEST" /\ state' = "FLUSH_WAIT"
           \/ state = "INIT_REQUEST" /\ state' = "INIT_WAIT"
    BY <1>6 DEF HostTakes, views, judged, lines
  <2> QED
    BY <2>1, <2>2 DEF HostStays, HostInv, Changing
<1>7. CASE HostStores
  <2>1. HostStays
    BY <1>7, HostRests
  <2>2. /\ UNCHANGED <<vProfile, state, armed, replacement>>
        /\ inHand # <<>> /\ inHand' = <<>>
    BY <1>7, Zenon DEF HostStores, views, judged, lines, bridgeVars
  <2> QED
    BY <2>1, <2>2 DEF HostStays
<1>8. CASE UNCHANGED saveVars
  <2>1. HostStays
    BY <1>8, HostRests
  <2>2. UNCHANGED <<vProfile, file, inHand, state, armed, replacement>>
    BY <1>8, BridgeStutters DEF CardRests, BridgeRests
  <2> QED
    BY <2>1, <2>2 DEF HostStays
<1> QED
  BY <1>1, <1>2, <1>3, <1>4, <1>5, <1>6, <1>7, <1>8, Steps

\* The verdict of ST_WAIT_PROFILE holds as long as the file is mounted, and
\* the bridge's addresses stay within the chip.
LEMMA JudgeStep ==
  ASSUME TypeInv, HostInv, CardInv, ChangeInv, JudgeInv, ReadyInv,
         [BridgeNext]_saveVars
  PROVE  JudgeInv'
<1> USE DEF JudgeInv, Waiting, Creating, Flushing, Fetching
<1>1. CASE ChangeSteps
  <2>1. CardRests /\ BridgeRests
    BY <1>1, ChangeRests
  <2>2. CASE UNCHANGED <<fd, queuedLen>>
    BY <2>1, <2>2, Zenon DEF CardRests, BridgeRests, Acceptable
  <2>3. CASE Mounts
    <3>1. Waiting
      BY <2>3, MountFacts DEF HostInv, ChangeInv, Changing
    <3>2. ~allowed /\ ~cacheValid
      BY <3>1
    <3> QED
      BY <2>1, <3>1, <3>2, Zenon DEF CardRests, BridgeRests
  <2>4. Mounts \/ UNCHANGED <<fd, queuedLen>>
    BY <1>1, RaiseFacts, DrainFacts, ReleaseFacts, FinishFacts, AbortFacts,
       LoadFacts, ResetFacts, ExitFacts, Zenon DEF ChangeSteps
  <2> QED
    BY <2>2, <2>3, <2>4
<1>2. CASE MountPulse
  <2>1. /\ CardRests /\ UNCHANGED <<fd, queuedLen, state, lba, target, runReady,
              allowed, known, activeSize, lines, initVars>>
    BY <1>2, Zenon DEF MountPulse, hostVars, cardVars, views, judged, CardRests
  <2> QED
    BY <2>1, Zenon DEF CardRests, lines, initVars, Acceptable
<1>3. CASE CartEvent
  <2>1. UNCHANGED <<fd, queuedLen, wrote, odd, vProfile, cache>> /\ edge
    BY <1>3, Zenon DEF CartEvent, hostVars, cardVars, views
  <2>2. ~wrote /\ ~odd
    BY <2>1 DEF HostInv, CardInv, Changing
  <2>3. CASE Flushing
    <3>1. UNCHANGED <<state, lba, allowed, known, activeSize, cacheValid, cacheLba,
                      cacheDirty, target, forInit, initSector, postFlushLoad>>
      BY <1>3, <2>3, Zenon DEF CartEvent, initVars
    <3> QED
      BY <2>1, <2>3, <3>1 DEF Acceptable
  <2>4. CASE state = "READY" /\ MustFlush
    <3>1. /\ state' = "FLUSH_REQUEST" /\ lba' = cacheLba /\ ~postFlushLoad'
          /\ UNCHANGED <<allowed, known, activeSize, cacheValid, cacheLba,
                         cacheDirty, target, forInit, initSector>>
      BY <1>3, <2>4 DEF CartEvent, initVars, StartFlush
    <3> QED
      BY <2>1, <2>4, <3>1 DEF Acceptable, MustFlush
  <2>5. CASE ~Flushing /\ ~(state = "READY" /\ MustFlush)
    <3>1. ResetForNewCart
      BY <1>3, <2>5, Zenon DEF CartEvent
    <3> QED
      BY <2>1, <2>2, <3>1 DEF ResetForNewCart
  <2> QED
    BY <2>3, <2>4, <2>5
<1>4. CASE BridgeSteps
  <2>1. HostStays
    BY <1>4, HostRests
  <2>2. UNCHANGED <<vProfile, wrote, odd>>
    BY <1>4, BridgeStepRests
  <2> USE <2>1, <2>2 DEF HostStays, Acceptable
  <2>3. CASE WaitMount
    BY <2>3 DEF WaitMount, lines
  <2>4. CASE ArmProfile
    BY <2>4 DEF ArmProfile, lines
  <2>5. CASE JudgeFile
    <3>1. /\ fd \in Games /\ vProfile = fd /\ mountedLen = queuedLen
          /\ ~cacheValid /\ ~wrote /\ ~odd
      BY <2>5 DEF JudgeFile, Fresh, ChangeInv, Announced, HostInv
    <3>2. Size[fd] \in Nat \ {0} /\ queuedLen \in Nat
      BY <3>1, SaveBridgeAssumption DEF TypeInv
    <3> DEFINE full  == queuedLen = Size[fd]
               short == Short(fd, queuedLen)
    <3>3. /\ activeSize' = Size[fd] /\ ~cacheValid' /\ ~cacheDirty'
          /\ (allowed' <=> (queuedLen = 0 \/ full \/ short))
          /\ known' = IF full THEN Size[fd] ELSE IF short THEN ShortLen ELSE 0
          /\ UNCHANGED <<target, lba, postFlushLoad>>
      BY <2>5, <3>1, Zenon DEF JudgeFile
    <3>4. CASE queuedLen = 0 \/ short
      <4>1. /\ initSector' = (IF short THEN ShortLen ELSE 0) + 1
            /\ forInit' /\ state' = "CACHE_CLEAR" /\ UNCHANGED runReady
        BY <2>5, <3>1, <3>4, Zenon DEF JudgeFile
      <4>2. initSector' \in 1 .. Size[fd]
        BY <4>1, <3>2 DEF Short, ShortLen
      <4>3. ~runReady /\ Creating'
        BY <2>5, <4>1 DEF JudgeFile
      <4> QED
        BY <3>1, <3>3, <3>4, <4>1, <4>2, <4>3
    <3>5. CASE ~(queuedLen = 0 \/ short)
      <4>1. state' = "READY" /\ UNCHANGED <<initSector, forInit>>
        BY <2>5, <3>1, <3>5, Zenon DEF JudgeFile, initVars
      <4> QED
        BY <3>1, <3>2, <3>3, <3>5, <4>1
    <3> QED
      BY <3>4, <3>5
  <2>6. CASE CacheClear
    BY <2>6 DEF CacheClear, judged, lines, initVars
  <2>7. CASE InitWait
    <3>1. /\ state = "INIT_WAIT"
          /\ UNCHANGED <<cache, target, allowed, activeSize, cacheLba, cacheDirty,
                         postFlushLoad>>
      BY <2>7, Zenon DEF InitWait
    <3>2. /\ fd \in Games /\ activeSize = Size[fd] /\ allowed /\ ~runReady
          /\ ~cacheValid /\ initSector \in 1 .. activeSize /\ activeSize \in Nat
      BY <3>1 DEF TypeInv
    <3>3. CASE initSector = activeSize
      <4>1. /\ known' = activeSize /\ ~cacheValid' /\ state' = "READY"
            /\ ~forInit'
        BY <2>7, <3>3, Zenon DEF InitWait
      <4> QED
        BY <3>1, <3>2, <4>1
    <3>4. CASE initSector # activeSize
      <4>1. /\ initSector' = initSector + 1 /\ lba' = initSector + 1
            /\ state' = "INIT_REQUEST"
            /\ UNCHANGED <<known, runReady, cacheValid, forInit>>
        BY <2>7, <3>4, Zenon DEF InitWait
      <4>2. initSector' \in 1 .. activeSize
        BY <3>2, <3>4, <4>1
      <4> QED
        BY <3>1, <3>2, <4>1, <4>2
    <3> QED
      BY <3>3, <3>4
  <2>8. CASE Miss
    <3>1. /\ state = "READY" /\ vAccess /\ target' = vAt
          /\ UNCHANGED <<cache, runReady, allowed, known, activeSize, cacheLba,
                         cacheValid, cacheDirty, initSector>>
      BY <2>8, Zenon DEF Miss, Misses, judged
    <3>2. vProfile = fd /\ fd \in Games /\ vAt \in 1 .. Size[fd]
      BY <3>1 DEF CardInv
    <3>3. CASE MustFlush
      <4>1. state' = "FLUSH_REQUEST" /\ lba' = cacheLba /\ UNCHANGED forInit
        BY <2>8, <3>3 DEF Miss, StartFlush
      <4> QED
        BY <3>1, <3>2, <3>3, <4>1 DEF MustFlush
    <3>4. CASE ~MustFlush
      <4>1. \/ state' = "LOAD_REQUEST" /\ lba' = vAt /\ UNCHANGED forInit
            \/ vAt > known /\ state' = "CACHE_CLEAR" /\ ~forInit'
        BY <2>8, <3>4, Zenon DEF Miss, Fetch
      <4>2. vAt > known => ~allowed
        BY <3>1, <3>2, SaveBridgeAssumption
      <4> QED
        BY <3>1, <3>2, <4>1, <4>2
    <3> QED
      BY <3>3, <3>4
  <2>9. CASE LoadCommit
    BY <2>9 DEF LoadCommit, judged, initVars
  <2>10. CASE FlushWait
    <3>1. state = "FLUSH_WAIT" /\ allowed /\ cacheValid /\ fd \in Games
      BY <2>10 DEF FlushWait
    <3>2. CASE replacement
      <4>1. ResetForNewCart /\ UNCHANGED cache
        BY <2>10, <3>2, Zenon DEF FlushWait
      <4>2. ~wrote /\ ~odd
        BY <3>2 DEF ChangeInv, CardInv, Changing
      <4> QED
        BY <4>1, <4>2 DEF ResetForNewCart
    <3>3. CASE ~replacement
      <4>1. UNCHANGED <<cache, target, runReady, allowed, known, activeSize,
                        cacheLba, cacheValid, initSector>>
        BY <2>10, <3>3, Zenon DEF FlushWait, judged
      <4>2. \/ postFlushLoad /\ Fetch(target)
            \/ state' = "READY" /\ UNCHANGED <<lba, forInit>>
        BY <2>10, <3>3, Zenon DEF FlushWait
      <4>3. postFlushLoad => target \in 1 .. Size[fd]
        BY <3>1
      <4>4. \/ postFlushLoad /\ state' = "LOAD_REQUEST" /\ lba' = target
            \/ state' = "READY"
        BY <3>1, <4>2, <4>3, SaveBridgeAssumption DEF Fetch
      <4> QED
        BY <3>1, <4>1, <4>3, <4>4
    <3> QED
      BY <3>2, <3>3
  <2>11. CASE QuietFlush
    BY <2>11 DEF QuietFlush, judged, initVars, StartFlush, MustFlush
  <2>12. CASE HostReads
    BY <2>12 DEF HostReads, judged, lines, initVars
  <2> QED
    BY <1>4, <2>3, <2>4, <2>5, <2>6, <2>7, <2>8, <2>9, <2>10, <2>11, <2>12
    DEF BridgeSteps
<1>5. CASE CardSteps
  <2>1. HostStays
    BY <1>5, HostRests
  <2>2. /\ UNCHANGED <<state, lba, target, runReady, allowed, known, activeSize,
                       cacheLba, cacheValid, postFlushLoad, initSector, forInit>>
    BY <1>5, CardStepRests
  <2>3. /\ vProfile' = vProfile \/ (vProfile' = profile /\ UNCHANGED cacheDirty)
        /\ wrote' \/ odd' \/ cacheDirty' => wrote \/ odd \/ cacheDirty \/ cacheValid
        /\ cacheDirty => cacheDirty'
        /\ state \in {"INIT_REQUEST", "INIT_WAIT"} => UNCHANGED cache
    <3>1. CASE CardArrives
      BY <3>1, Zenon DEF CardArrives, cardVars, bridgeVars, lines
    <3>2. CASE ReadyArrives
      BY <3>2, Zenon DEF ReadyArrives, views, bridgeVars, lines
    <3>3. CASE WriteArrives
      BY <3>3, Zenon DEF WriteArrives, views, cardVars
    <3>4. CASE ResetCard
      BY <3>4, Zenon DEF ResetCard, views, bridgeVars, lines
    <3>5. CASE CardCloses \/ CardReads \/ PublishProfile \/ CardOpens \/ CardErases
      <4>1. UNCHANGED <<vProfile, wrote, odd, cache, cacheDirty>>
        BY <3>5, Zenon DEF CardCloses, CardReads, PublishProfile, CardOpens, CardErases,
           views,
           bridgeVars, lines
      <4> QED
        BY <4>1, Zenon
    <3>6. CASE EraseStep \/ CardWrites
      <4>1. /\ access /\ cardReady /\ UNCHANGED <<vProfile>>
            /\ cacheDirty => cacheDirty'
        BY <3>6, Zenon DEF EraseStep, CardWrites, CardInv, views, bridgeVars, lines
      <4>2. cacheValid /\ runReady
        BY <4>1 DEF ReadyInv, CardInv
      <4> QED
        BY <4>1, <4>2
    <3> QED
      BY <1>5, <3>1, <3>2, <3>3, <3>4, <3>5, <3>6 DEF CardSteps
  <2>4. profile \in {NoGame, fd}
    BY DEF CardInv, HostInv
  <2> QED
    BY <2>1, <2>2, <2>3, <2>4 DEF HostStays, Acceptable
<1>6. CASE HostTakes
  <2>1. HostStays
    BY <1>6, HostRests
  <2> QED
    BY <1>6, <2>1 DEF HostTakes, cardVars, views, judged, lines, initVars, HostStays,
       Acceptable
<1>7. CASE HostStores \/ UNCHANGED saveVars
  <2>1. HostStays
    BY <1>7, HostRests
  <2>2. CardRests /\ BridgeRests
    BY <1>7, BridgeStutters, Zenon DEF HostStores, cardVars, views, bridgeVars,
       mountVars, judged, lines, initVars, CardRests, BridgeRests
  <2> QED
    BY <2>1, <2>2, Zenon DEF HostStays, CardRests, BridgeRests, Acceptable
<1> QED
  BY <1>1, <1>2, <1>3, <1>4, <1>5, <1>6, <1>7, Steps

\* A card that sees the ready level is served the sector it asks for, or the
\* one before while its dirty mark is up and the card has just run over its
\* end.
LEMMA ReadyStep ==
  ASSUME TypeInv, HostInv, CardInv, ChangeInv, JudgeInv, ReadyInv,
         [BridgeNext]_saveVars
  PROVE  ReadyInv'
<1> USE DEF ReadyInv, Ready, Served, RunsOn
<1>1. CASE ChangeSteps \/ MountPulse \/ HostStores \/ UNCHANGED saveVars
  <2>1. CardRests /\ UNCHANGED <<state, runReady, cacheValid, cacheLba, allowed,
                                 cacheDirty>>
    <3>1. CASE ChangeSteps \/ UNCHANGED saveVars
      BY <3>1, ChangeRests, BridgeStutters, Zenon DEF BridgeRests
    <3>2. CASE MountPulse
      BY <3>2, Zenon DEF MountPulse, CardRests, cardVars, views, judged, lines
    <3>3. CASE HostStores
      BY <3>3, Zenon DEF HostStores, CardRests, cardVars, views, bridgeVars, judged,
         lines
    <3> QED
      BY <1>1, <3>1, <3>2, <3>3
  <2> QED
    BY <2>1, Zenon DEF CardRests
<1>2. CASE CartEvent
  <2>1. ~access' /\ edge
    <3>1. edge /\ UNCHANGED access
      BY <1>2, Zenon DEF CartEvent, cardVars
    <3> QED
      BY <3>1 DEF HostInv, CardInv, Changing
  <2> QED
    BY <2>1
<1>3. CASE BridgeSteps
  <2>1. UNCHANGED <<access, at, left, cell, cardReady, vAccess, vAt>>
    BY <1>3, BridgeStepRests
  <2>2. CASE ~access
    BY <2>1, <2>2
  <2>3. CASE access
    <3>1. runReady /\ ~Waiting /\ ~Creating /\ ~replacement
      BY <2>3 DEF CardInv, JudgeInv, ChangeInv, Changing
    <3>2. ~WaitMount /\ ~ArmProfile /\ ~JudgeFile /\ ~InitWait
      BY <3>1 DEF WaitMount, ArmProfile, JudgeFile, InitWait, Waiting, Creating
    <3>3. CASE CacheClear
      BY <2>1, <2>3, <3>1, <3>3 DEF CacheClear, Crossed, Creating, JudgeInv, judged
    <3>4. CASE Miss
      BY <2>1, <2>3, <3>4 DEF Miss, Misses, MustFlush, StartFlush, Fetch, judged
    <3>5. CASE LoadCommit
      BY <2>1, <2>3, <3>5 DEF LoadCommit, judged
    <3>6. CASE FlushWait
      <4>1. state = "FLUSH_WAIT" /\ allowed
        BY <2>3, <3>6 DEF FlushWait, JudgeInv, Flushing
      <4>2. vAccess => at = vAt
        BY <4>1, <2>3
      <4>3. UNCHANGED <<cacheValid, allowed, cacheLba>>
        BY <3>1, <3>6, Zenon DEF FlushWait, judged
      <4> QED
        BY <2>1, <2>3, <4>1, <4>2, <4>3
    <3>7. CASE QuietFlush
      BY <2>1, <2>3, <3>7 DEF QuietFlush, judged
    <3>8. CASE HostReads
      BY <2>1, <2>3, <3>8 DEF HostReads, Crossed, judged, lines
    <3> QED
      BY <1>3, <3>2, <3>3, <3>4, <3>5, <3>6, <3>7, <3>8 DEF BridgeSteps
  <2> QED
    BY <2>2, <2>3
<1>4. CASE HostTakes
  BY <1>4 DEF HostTakes, Crossed, cardVars, views, judged, lines
<1>5. CASE CardSteps
  <2>1. UNCHANGED <<state, runReady, cacheValid, cacheLba, allowed>>
    BY <1>5, CardStepRests
  <2> USE <2>1
  <2>2. CASE CardArrives
    BY <2>2 DEF CardArrives, cardVars, bridgeVars, lines
  <2>3. CASE ReadyArrives
    <3>1. /\ (cardReady' <=> Ready) /\ (cardReady <=> ~Ready)
          /\ UNCHANGED <<access, at, left, cell, vAccess, vAt, cacheDirty>>
      <4>1. cardReady' = Ready /\ cardReady # Ready
            /\ UNCHANGED <<access, at, left, cell, vAccess, vAt, cacheDirty>>
        BY <2>3, Zenon DEF ReadyArrives, views, bridgeVars, lines
      <4>2. Ready \in BOOLEAN /\ cardReady \in BOOLEAN
        BY DEF TypeInv
      <4> QED
        BY <4>1, <4>2
    <3>2. access /\ vAccess => at = vAt \/ ~Ready'
      BY <3>1
    <3> QED
      BY <3>1, <3>2
  <2>4. CASE WriteArrives
    BY <2>4 DEF WriteArrives, views, cardVars
  <2>5. CASE ResetCard
    BY <2>5 DEF ResetCard
  <2>6. CASE CardCloses
    BY <2>6 DEF CardCloses
  <2>7. CASE EraseStep
    <3>1. /\ left > 0 /\ cardReady /\ (cell = 1 \/ Settled)
          /\ left' = left - 1 /\ (access' <=> left > 1)
          /\ cell' = IF left > 1 THEN 3 - cell ELSE 1
          /\ at' = IF cell = 2 /\ left > 1 THEN at + 1 ELSE at
          /\ UNCHANGED <<cardReady, vAccess, vAt>>
          /\ (cacheDirty' <=> cacheDirty \/ Settled)
      BY <2>7, Zenon DEF EraseStep, views
    <3>2. access
      BY <3>1 DEF CardInv
    <3>3. Settled => Ready /\ at = vAt
      <4>1. SUFFICES ASSUME Settled PROVE Ready /\ at = vAt
        OBVIOUS
      <4>2. vAt = at /\ cardReady = Ready
        BY <4>1, Zenon DEF Settled
      <4> QED
        BY <4>2, <3>1
    <3>4. cell \in {1, 2} /\ left \in Nat
      BY DEF TypeInv, Cells
    <3>5. CASE cell = 1 \/ left = 1
      <4>1. at' = at /\ (access' => cell' = 2)
        BY <3>1, <3>4, <3>5
      <4> QED
        BY <3>1, <3>2, <4>1
    <3>6. CASE cell = 2 /\ left > 1
      <4>1. Ready /\ at = vAt /\ cacheDirty'
        BY <3>1, <3>3, <3>6
      <4>2. profile # NoGame /\ left = 2 * (Size[profile] - at) + (3 - cell)
            /\ at \in 1 .. Size[profile]
        BY <3>1, <3>6 DEF CardInv
      <4>3. Size[profile] \in Nat
        BY <4>2, SaveBridgeAssumption DEF TypeInv, Cartridges
      <4>4. left' > 1 /\ at' = cacheLba + 1
        BY <3>1, <3>4, <3>6, <4>1, <4>2, <4>3
      <4> QED
        BY <3>1, <3>2, <4>1, <4>4
    <3> QED
      BY <3>1, <3>4, <3>5, <3>6
  <2>8. CASE PublishProfile
    BY <2>8 DEF PublishProfile, views, bridgeVars, lines
  <2>9. CASE CardOpens
    BY <2>9 DEF CardOpens, Settled, GameRuns, views, bridgeVars, lines
  <2>10. CASE CardWrites
    <3>1. /\ access /\ cardReady /\ left = 0 /\ Settled
          /\ UNCHANGED <<access, cardReady, left, vAccess, vAt>>
      BY <2>10, Zenon DEF CardWrites, GameRuns, views
    <3>2. cardReady = Ready
      BY <3>1, Zenon DEF Settled
    <3>3. Ready /\ Ready'
      BY <3>1, <3>2
    <3> QED
      BY <3>1, <3>3
  <2>11. CASE CardErases
    BY <2>11 DEF CardErases, Settled, GameRuns, views, bridgeVars, lines
  <2>12. CASE CardReads
    <3>1. /\ access /\ cardReady /\ left = 0 /\ Settled
          /\ UNCHANGED <<access, cardReady, left, vAccess, vAt>>
      BY <2>12, Zenon DEF CardReads, GameRuns, views
    <3>2. cardReady = Ready
      BY <3>1, Zenon DEF Settled
    <3>3. Ready /\ Ready'
      BY <3>1, <3>2
    <3> QED
      BY <3>1, <3>3
  <2> QED
    BY <1>5, <2>2, <2>3, <2>4, <2>5, <2>6, <2>7, <2>8, <2>9, <2>10, <2>11, <2>12
    DEF CardSteps
<1> QED
  BY <1>1, <1>2, <1>3, <1>4, <1>5, Steps

\* A sector is two bytes, and a chip has at least one and at most MaxSize of
\* them.
LEMMA Constants ==
  /\ Blank \in Sector /\ Old \in Sector /\ Hole \in Sector
  /\ \A g \in Games : Size[g] \in Nat \ {0} /\ Size[g] \in Sectors
                      /\ \A s \in 1 .. Size[g] : s \in Sectors
<1>1. Blank \in Sector /\ Old \in Sector /\ Hole \in Sector
  BY SaveBridgeAssumption DEF Blank, Old, Hole, Sector
<1>2. ASSUME NEW g \in Games
      PROVE  Size[g] \in Nat \ {0} /\ Size[g] \in Sectors
             /\ \A s \in 1 .. Size[g] : s \in Sectors
  BY SaveBridgeAssumption DEF Sectors
<1> QED
  BY <1>1, <1>2

\* What a write of one sector to a file does (pwrite in sector).
LEMMA StoredFacts ==
  ASSUME NEW f \in Seq(Sector), NEW s \in Nat, s # 0, NEW d \in Sector
  PROVE  /\ Stored(f, s, d) \in Seq(Sector)
         /\ Len(Stored(f, s, d)) = IF s > Len(f) THEN s ELSE Len(f)
<1> DEFINE n == IF s > Len(f) THEN s ELSE Len(f)
<1>1. n \in Nat
  OBVIOUS
<1>2. \A i \in 1 .. n :
        (IF i = s THEN d ELSE IF i <= Len(f) THEN f[i] ELSE Hole) \in Sector
  BY Constants
<1>3. Stored(f, s, d) =
        [i \in 1 .. n |-> IF i = s THEN d ELSE IF i <= Len(f) THEN f[i] ELSE Hole]
  BY Zenon DEF Stored
<1> HIDE DEF n
<1>4. Stored(f, s, d) \in [1 .. n -> Sector]
  BY <1>2, <1>3
<1>5. Stored(f, s, d) \in Seq(Sector) /\ Len(Stored(f, s, d)) = n
  BY <1>1, <1>4
<1> QED
  BY <1>5 DEF n

\* Every step keeps the types of the host and the files.
LEMMA HostTypesStep ==
  ASSUME TypeInv, HostInv, CardInv, JudgeInv, FileInv, [BridgeNext]_saveVars
  PROVE  HostTypes'
<1> USE DEF TypeInv, Cartridges
<1>1. CASE ChangeSteps
  <2>1. UNCHANGED <<file, chip, writes, inHand>>
    BY <1>1, ChangeRests
  <2>2. loads' \in Nat
    <3>1. loads' = loads + 1 \/ UNCHANGED loads
      BY <1>1, Zenon DEF ChangeSteps, RaiseDownload, Drained, Mounts, Releases,
         FinishReset, Exit, StartLoad, Aborts, StartReset, StartExit, aside
    <3> QED
      BY <3>1
  <2>3. /\ phase' \in {"serving", "holding", "draining", "copying", "mounted",
                       "resetting", "leaving", "exited"}
        /\ next' \in Cartridges /\ fd' \in Cartridges /\ game' \in Cartridges
        /\ edge' \in BOOLEAN /\ mountQueued' \in BOOLEAN /\ queuedLen' \in Nat
    <3>1. CASE Mounts
      <4>1. next \in Games
        BY <3>1, MountFacts DEF HostInv, Changing
      <4>2. Len(file[next]) \in Nat
        BY <4>1
      <4> QED
        BY <3>1, <4>2, MountFacts
    <3>2. CASE ~Mounts
      BY <1>1, <3>2, RaiseFacts, DrainFacts, ReleaseFacts, FinishFacts, AbortFacts,
         LoadFacts, ResetFacts, ExitFacts DEF ChangeSteps
    <3> QED
      BY <3>1, <3>2
  <2>4. hold' \in BOOLEAN /\ download' \in BOOLEAN /\ profileUp' \in BOOLEAN
    BY <1>1 DEF ChangeSteps, RaiseDownload, Drained, Mounts, Releases,
       FinishReset, Exit, StartLoad, Aborts, StartReset, StartExit
  <2> QED
    BY <2>1, <2>2, <2>3, <2>4
<1>2. CASE CartEvent \/ MountPulse
  <2>1. /\ UNCHANGED <<phase, next, fd, hold, download, profileUp, queuedLen, game>>
        /\ edge' \in BOOLEAN /\ mountQueued' \in BOOLEAN
    BY <1>2 DEF CartEvent, MountPulse, hostVars
  <2>2. UNCHANGED <<file, chip, writes, loads, inHand>>
    BY <1>2, BridgeStepRests
  <2> QED
    BY <2>1, <2>2
<1>3. CASE BridgeSteps
  BY <1>3, BridgeStepRests, HostRests DEF HostStays
<1>4. CASE CardSteps
  <2>1. HostStays
    BY <1>4, HostRests
  <2>2. UNCHANGED <<file, inHand, loads>>
    BY <1>4, CardStepRests
  <2>3. /\ UNCHANGED chip
           \/ \E c \in Cells, stamp \in Nat :
                chip' = [chip EXCEPT ![game][at][c] = stamp]
        /\ writes' \in Nat
    <3>1. CASE EraseStep
      <4>1. /\ UNCHANGED writes
            /\ UNCHANGED chip \/ chip' = [chip EXCEPT ![game][at][cell] = 0]
        BY <3>1, Zenon DEF EraseStep, WriteByte
      <4>2. cell \in Cells /\ 0 \in Nat
        BY DEF TypeInv
      <4> QED
        BY <4>1, <4>2, Zenon
    <3>2. CASE CardWrites
      <4>1. /\ writes' = writes + 1
            /\ \E c \in Cells :
                 UNCHANGED chip \/ chip' = [chip EXCEPT ![game][at][c] = writes + 2]
        BY <3>2, Zenon DEF CardWrites, WriteByte
      <4>2. writes + 2 \in Nat /\ writes' \in Nat
        BY <4>1
      <4> QED
        BY <4>1, <4>2, Zenon
    <3>3. CASE CardErases
      BY <3>3 DEF CardErases
    <3>4. CASE ~EraseStep /\ ~CardWrites /\ ~CardErases
      BY <1>4, <3>4, Zenon DEF CardSteps, CardArrives, ReadyArrives, WriteArrives,
         ResetCard, CardCloses, CardReads, PublishProfile, CardOpens, history
    <3> QED
      BY <3>1, <3>2, <3>3, <3>4
  <2>4. chip' \in [Games -> [Sectors -> Sector]]
    <3>1. ASSUME NEW c \in Cells, NEW stamp \in Nat
          PROVE  [chip EXCEPT ![game][at][c] = stamp]
                   \in [Games -> [Sectors -> Sector]]
      <4> DEFINE cells == [chip[game][at] EXCEPT ![c] = stamp]
                 row   == [chip[game] EXCEPT ![at] = cells]
      <4>1. game \in Games => row \in [Sectors -> Sector]
        <5>1. ASSUME game \in Games, at \in Sectors
              PROVE  row \in [Sectors -> Sector]
          <6>1. chip[game][at] \in [Cells -> Nat]
            BY <5>1 DEF Sector
          <6>2. cells \in Sector
            BY <6>1 DEF Sector
          <6> HIDE DEF cells
          <6> QED
            BY <5>1, <6>2
        <5>2. ASSUME game \in Games, at \notin Sectors
              PROVE  row \in [Sectors -> Sector]
          <6> HIDE DEF cells
          <6>1. chip[game] \in [Sectors -> Sector]
            BY <5>2
          <6> QED
            BY <5>2, <6>1
        <5> QED
          BY <5>1, <5>2
      <4>2. [chip EXCEPT ![game][at][c] = stamp] = [chip EXCEPT ![game] = row]
        BY Zenon
      <4> HIDE DEF row
      <4>3. [chip EXCEPT ![game] = row] \in [Games -> [Sectors -> Sector]]
        BY <4>1
      <4> QED
        BY <4>2, <4>3
    <3>2. CASE UNCHANGED chip
      BY <3>2
    <3>3. CASE ~UNCHANGED chip
      <4>1. PICK c \in Cells, stamp \in Nat :
              chip' = [chip EXCEPT ![game][at][c] = stamp]
        BY <2>3, <3>3, Zenon
      <4> QED
        BY <3>1, <4>1
    <3> QED
      BY <3>2, <3>3
  <2> QED
    BY <2>1, <2>2, <2>3, <2>4 DEF HostStays
<1>5. CASE HostTakes
  <2>1. HostStays
    BY <1>5, HostRests
  <2>2. inHand' \in Nat \X Sector /\ UNCHANGED <<file, chip, writes, loads>>
    BY <1>5 DEF HostTakes, history
  <2> QED
    BY <2>1, <2>2 DEF HostStays
<1>6. CASE HostStores
  <2>1. HostStays
    BY <1>6, HostRests
  <2>2. /\ inHand # <<>> /\ inHand' = <<>> /\ UNCHANGED <<chip, writes, loads>>
        /\ file' = [file EXCEPT ![fd] = Stored(@, inHand[1], inHand[2])]
    BY <1>6, Zenon DEF HostStores, history
  <2>3. fd \in Games /\ inHand[1] \in Nat \ {0} /\ inHand[2] \in Sector
    BY <2>2, Constants DEF FileInv
  <2>4. file' \in [Games -> Seq(Sector)]
    <3>1. file[fd] \in Seq(Sector)
      BY <2>3
    <3>2. Stored(file[fd], inHand[1], inHand[2]) \in Seq(Sector)
      BY <2>3, <3>1, StoredFacts
    <3> QED
      BY <2>2, <3>2
  <2> QED
    BY <2>1, <2>2, <2>4 DEF HostStays
<1>7. CASE UNCHANGED saveVars
  BY <1>7, BridgeStutters, HostRests DEF HostStays
<1> QED
  BY <1>1, <1>2, <1>3, <1>4, <1>5, <1>6, <1>7, Steps

\* Every step keeps the types of the card.
LEMMA CardTypesStep ==
  ASSUME TypeInv, HostInv, CardInv, JudgeInv, [BridgeNext]_saveVars
  PROVE  CardTypes'
<1>1. CardTypes /\ (HostTypes => fd \in Cartridges)
  BY Zenon DEF TypeInv
<1>2. writes \in Nat
  BY DEF TypeInv
<1>3. CASE ChangeSteps
  BY <1>1, <1>3, ChangeRests DEF CardRests
<1>4. CASE CartEvent \/ MountPulse
  <2>1. UNCHANGED cache
    BY <1>4, Zenon DEF CartEvent, MountPulse
  <2> QED
    BY <1>1, <1>4, <2>1, BridgeStepRests
<1>5. CASE BridgeSteps
  <2>1. cache' \in Sector
    <3>1. CASE HostReads
      <4>1. fd \in Games /\ state = "LOAD_REQUEST"
        BY <3>1 DEF HostReads, Serving, TypeInv, Cartridges
      <4>2. lba \in Sectors
        BY <4>1, Constants DEF JudgeInv, Waiting, Creating, Flushing, Fetching
      <4>3. Padded(file[fd])[lba] \in Sector
        BY <4>1, <4>2, Constants DEF Padded, Sectors, TypeInv
      <4> QED
        BY <3>1, <4>3 DEF HostReads
    <3>2. CASE CacheClear
      BY <3>2, Constants DEF CacheClear
    <3>3. CASE ~HostReads /\ ~CacheClear
      <4>1. UNCHANGED cache
        BY <1>5, <3>3, Zenon DEF BridgeSteps, WaitMount, ArmProfile, JudgeFile,
           InitWait, Miss, LoadCommit, FlushWait, QuietFlush
      <4> QED
        BY <1>1, <4>1
    <3> QED
      BY <3>1, <3>2, <3>3
  <2> QED
    BY <1>1, <1>5, <2>1, BridgeStepRests
<1>6. CASE CardSteps
  <2> USE <1>1
  <2>1. CASE CardArrives
    BY <2>1 DEF CardArrives, cardVars
  <2>2. CASE ReadyArrives
    BY <2>2 DEF ReadyArrives, Ready, views
  <2>3. CASE WriteArrives
    BY <2>3 DEF WriteArrives, views, cardVars
  <2>4. CASE ResetCard
    BY <2>4 DEF ResetCard, Cells, views, Cartridges
  <2>5. CASE CardCloses
    BY <2>5 DEF CardCloses, views
  <2>6. CASE PublishProfile
    <3>1. game \in Cartridges
      BY DEF TypeInv
    <3> QED
      BY <2>6, <3>1 DEF PublishProfile, views
  <2>7. CASE EraseStep
    <3>1. cache' \in Sector /\ wrote' = TRUE
      BY <2>7 DEF EraseStep, WriteByte, Sector
    <3>2. /\ access' \in BOOLEAN /\ odd' \in BOOLEAN
          /\ left' \in Nat /\ cell' \in Cells /\ at' \in Nat
          /\ UNCHANGED <<profile, cardReady, views>>
      BY <2>7 DEF EraseStep, Cells
    <3> QED
      BY <3>1, <3>2 DEF views
  <2>8. CASE CardWrites
    <3>1. cache' \in Sector /\ wrote' = TRUE
      <4>1. /\ \E c \in Cells : cache' = [cache EXCEPT ![c] = writes + 2]
            /\ wrote' = TRUE
        BY <2>8, Zenon DEF CardWrites, WriteByte
      <4>2. writes + 2 \in Nat /\ cache \in [Cells -> Nat]
        BY <1>2 DEF Sector
      <4> QED
        BY <4>1, <4>2 DEF Sector
    <3>2. at' \in Nat
      <4>1. Size[game] \in Nat
        BY <2>8, Constants DEF CardWrites, GameRuns, CardInv, HostInv
      <4> QED
        BY <2>8, <4>1 DEF CardWrites, NextSector
    <3>3. /\ odd' \in BOOLEAN
          /\ UNCHANGED <<profile, access, cell, left, cardReady, views>>
      BY <2>8 DEF CardWrites
    <3> QED
      BY <3>1, <3>2, <3>3 DEF views
  <2>10. CASE CardReads
    <3>1. at' \in Nat
      <4>1. Size[game] \in Nat
        BY <2>10, Constants DEF CardReads, GameRuns, CardInv, HostInv
      <4> QED
        BY <2>10, <4>1 DEF CardReads, NextSector
    <3> QED
      BY <2>10, <3>1 DEF CardReads, views
  <2>9. CASE CardOpens \/ CardErases
    <3>1. Size[game] \in Nat
      <4>1. profile # NoGame
        BY <2>9 DEF CardOpens, CardErases, GameRuns
      <4> QED
        BY <4>1, Constants DEF CardInv, HostInv
    <3>2. CASE CardOpens
      BY <3>1, <3>2 DEF CardOpens, views
    <3>3. CASE CardErases
      <4>1. /\ access' = TRUE /\ at' \in Nat /\ cell' \in Cells /\ left' \in Nat
            /\ UNCHANGED <<profile, odd, cardReady, cache, wrote, views>>
        BY <3>1, <3>3 DEF CardErases, Cells
      <4> QED
        BY <4>1 DEF views
    <3> QED
      BY <2>9, <3>2, <3>3
  <2> QED
    BY <1>6, <2>1, <2>2, <2>3, <2>4, <2>5, <2>6, <2>7, <2>8, <2>9, <2>10
    DEF CardSteps
<1>7. CASE HostTakes
  BY <1>1, <1>7 DEF HostTakes, cardVars, views
<1>8. CASE HostStores \/ UNCHANGED saveVars
  <2>1. CardRests
    BY <1>8, BridgeStutters, Zenon DEF HostStores, CardRests, cardVars, views
  <2> QED
    BY <1>1, <2>1 DEF CardRests
<1> QED
  BY <1>3, <1>4, <1>5, <1>6, <1>7, <1>8, Steps

\* Every step keeps the types of the bridge.
LEMMA BridgeTypesStep ==
  ASSUME TypeInv, [BridgeNext]_saveVars
  PROVE  BridgeTypes'
<1>1. BridgeTypes
  BY Zenon DEF TypeInv
<1>2. queuedLen \in Nat /\ vAt \in Nat
  BY DEF TypeInv
<1>3. vProfile # NoGame => Size[vProfile] \in Nat
  BY Constants DEF TypeInv, Cartridges
<1> USE <1>1
<1>4. CASE ChangeSteps
  BY <1>4, ChangeRests DEF BridgeRests
<1>5. CASE CartEvent
  <2>1. UNCHANGED <<mountPending, mountedLen>> /\ epoch' = TRUE
    BY <1>5, Zenon DEF CartEvent
  <2>2. CASE Flushing \/ (state = "READY" /\ MustFlush)
    <3>1. /\ state' \in {state, "FLUSH_REQUEST"} /\ lba' \in {lba, cacheLba}
          /\ saveReady' = FALSE /\ runReady' = FALSE /\ replacement' = TRUE
      BY <1>5, <2>2, Zenon DEF CartEvent, StartFlush
    <3>2. dirtyDuringFlush' \in BOOLEAN /\ postFlushLoad' \in BOOLEAN
      BY <1>5, <2>2 DEF CartEvent, StartFlush
    <3>3. UNCHANGED <<target, armed, allowed, known, activeSize, initSector, forInit,
                      cacheLba, cacheValid, cacheDirty>>
      BY <1>5, <2>2, Zenon DEF CartEvent, initVars
    <3> QED
      BY <2>1, <3>1, <3>2, <3>3
  <2>3. CASE ~Flushing /\ ~(state = "READY" /\ MustFlush)
    <3>1. ResetForNewCart
      BY <1>5, <2>3, Zenon DEF CartEvent
    <3> QED
      BY <2>1, <3>1 DEF ResetForNewCart, initVars
  <2> QED
    BY <2>2, <2>3
<1>6. CASE MountPulse
  BY <1>2, <1>6 DEF MountPulse, judged, lines, initVars
<1>7. CASE BridgeSteps
  <2>3. CASE WaitMount
    BY <2>3 DEF WaitMount, lines, initVars
  <2>4. CASE ArmProfile
    BY <2>4 DEF ArmProfile, mountVars, lines, initVars
  <2>5. CASE JudgeFile
    <3>1. Size[vProfile] \in Nat
      BY <1>3, <2>5 DEF JudgeFile
    <3>2. /\ armed' \in BOOLEAN /\ activeSize' \in Nat /\ allowed' \in BOOLEAN
          /\ known' \in Nat /\ cacheValid' \in BOOLEAN /\ cacheDirty' \in BOOLEAN
          /\ initSector' \in Nat /\ forInit' \in BOOLEAN /\ runReady' \in BOOLEAN
          /\ state' \in {"CACHE_CLEAR", "READY"}
      <4>1. /\ armed' = FALSE /\ activeSize' = Size[vProfile]
            /\ allowed' \in BOOLEAN
            /\ known' \in {0, ShortLen, Size[vProfile]}
            /\ cacheValid' = FALSE /\ cacheDirty' = FALSE
        BY <2>5 DEF JudgeFile
      <4>2. initSector' \in {0 + 1, ShortLen + 1, initSector}
        BY <2>5, Zenon DEF JudgeFile, initVars
      <4>3. forInit' \in BOOLEAN /\ runReady' \in BOOLEAN
        BY <2>5 DEF JudgeFile, initVars
      <4>4. state' \in {"CACHE_CLEAR", "READY"}
        BY <2>5, Zenon DEF JudgeFile
      <4>5. initSector' \in Nat /\ known' \in Nat
        BY <3>1, <4>1, <4>2 DEF ShortLen
      <4> QED
        BY <3>1, <4>1, <4>3, <4>4, <4>5
    <3> QED
      BY <2>5, <3>2 DEF JudgeFile, mountVars
  <2>6. CASE CacheClear
    <3>1. /\ state' \in {"INIT_REQUEST", "READY"} /\ lba' \in {lba, initSector}
          /\ cacheLba' \in {cacheLba, target}
      BY <2>6, Zenon DEF CacheClear
    <3>2. cacheValid' \in BOOLEAN /\ cacheDirty' \in BOOLEAN
      BY <2>6 DEF CacheClear
    <3>3. UNCHANGED <<target, mountVars, judged, dirtyDuringFlush, postFlushLoad,
                      replacement, initVars>>
      BY <2>6, Zenon DEF CacheClear
    <3> QED
      BY <3>1, <3>2, <3>3 DEF mountVars, judged, initVars
  <2>7. CASE InitWait
    <3>1. /\ initSector' \in {initSector, initSector + 1}
          /\ known' \in {known, activeSize} /\ lba' \in {1, initSector + 1}
          /\ state' \in {"READY", "INIT_REQUEST"}
      BY <2>7, Zenon DEF InitWait
    <3>2. /\ runReady' \in BOOLEAN /\ cacheValid' \in BOOLEAN
          /\ forInit' \in BOOLEAN
          /\ UNCHANGED <<mountVars, target, armed, saveReady, allowed, activeSize,
                         cacheLba, cacheDirty, dirtyDuringFlush, postFlushLoad,
                         replacement>>
      BY <2>7 DEF InitWait
    <3> QED
      BY <3>1, <3>2 DEF mountVars
  <2>8. CASE Miss
    <3>1. /\ target' = vAt /\ lba' \in {lba, cacheLba, vAt}
          /\ state' \in {"FLUSH_REQUEST", "LOAD_REQUEST", "CACHE_CLEAR"}
      BY <2>8, Zenon DEF Miss, StartFlush, Fetch
    <3>3. /\ forInit' \in BOOLEAN /\ dirtyDuringFlush' \in BOOLEAN
          /\ postFlushLoad' \in BOOLEAN
      BY <2>8 DEF Miss, StartFlush, Fetch
    <3>2. UNCHANGED <<mountVars, judged, cacheLba, cacheValid, cacheDirty,
                      replacement, initSector>>
      BY <2>8, Zenon DEF Miss
    <3> QED
      BY <1>2, <3>1, <3>2, <3>3 DEF mountVars, judged
  <2>9. CASE LoadCommit
    BY <2>9 DEF LoadCommit, mountVars, judged, initVars
  <2>10. CASE FlushWait
    <3>1. UNCHANGED mountVars
      BY <2>10 DEF FlushWait
    <3>2. CASE replacement
      <4>1. ResetForNewCart
        BY <2>10, <3>2, Zenon DEF FlushWait
      <4> QED
        BY <3>1, <4>1 DEF ResetForNewCart, initVars, mountVars
    <3>3. CASE ~replacement
      <4>1. /\ UNCHANGED <<target, armed, saveReady, runReady, allowed, known,
                           activeSize, cacheLba, cacheValid, dirtyDuringFlush,
                           replacement, initSector>>
            /\ cacheDirty' = dirtyDuringFlush
        BY <2>10, <3>3, Zenon DEF FlushWait, judged
      <4>2. \/ postFlushLoad' = FALSE /\ Fetch(target)
            \/ state' = "READY" /\ UNCHANGED <<postFlushLoad, lba, forInit>>
        BY <2>10, <3>3, Zenon DEF FlushWait
      <4>3. /\ state' \in {"READY", "LOAD_REQUEST", "CACHE_CLEAR"}
            /\ lba' \in {lba, target}
        BY <4>2, Zenon DEF Fetch
      <4>4. postFlushLoad' \in BOOLEAN /\ forInit' \in BOOLEAN
        BY <4>2 DEF Fetch
      <4> QED
        BY <3>1, <4>1, <4>3, <4>4 DEF mountVars
    <3> QED
      BY <3>2, <3>3
  <2>11. CASE QuietFlush
    BY <2>11 DEF QuietFlush, StartFlush, mountVars, judged, initVars
  <2>12. CASE HostReads
    BY <2>12 DEF HostReads, mountVars, judged, lines, initVars
  <2> QED
    BY <1>7, <2>3, <2>4, <2>5, <2>6, <2>7, <2>8, <2>9, <2>10, <2>11, <2>12
    DEF BridgeSteps
<1>8. CASE CardSteps
  <2>1. cacheDirty' \in BOOLEAN /\ dirtyDuringFlush' \in BOOLEAN
    <3>1. CASE WriteArrives
      BY <3>1 DEF WriteArrives
    <3>2. CASE EraseStep
      BY <3>2 DEF EraseStep
    <3>3. CASE ~WriteArrives /\ ~EraseStep
      <4>1. UNCHANGED <<cacheDirty, dirtyDuringFlush>>
        BY <1>8, <3>3, Zenon DEF CardSteps, CardArrives, ReadyArrives, ResetCard,
           CardCloses, CardReads, PublishProfile, CardOpens, CardWrites,
           CardErases, bridgeVars,
           lines
      <4> QED
        BY <4>1
    <3> QED
      BY <3>1, <3>2, <3>3
  <2> QED
    BY <1>8, <2>1, CardStepRests
<1>9. CASE HostTakes
  BY <1>9 DEF HostTakes, mountVars, judged, lines, initVars
<1>10. CASE HostStores \/ UNCHANGED saveVars
  <2>1. BridgeRests
    BY <1>10, BridgeStutters, Zenon DEF HostStores, BridgeRests, bridgeVars, mountVars,
       judged, lines, initVars
  <2> QED
    BY <2>1 DEF BridgeRests
<1> QED
  BY <1>4, <1>5, <1>6, <1>7, <1>8, <1>9, <1>10, Steps

\* A file and the sector in the hand stay what they are together.
LEMMA SidecarRests ==
  ASSUME UNCHANGED <<file, inHand, fd>>
  PROVE  (\A g : Sidecar(g)' = Sidecar(g)) /\ Sidecar(fd)' = Sidecar(fd)
  BY Zenon DEF Sidecar

\* The store brings the file to what it was with the sector in the host's
\* hand.
LEMMA SidecarStores ==
  ASSUME TypeInv, FileInv, HostStores
  PROVE  /\ \A g \in Games : Sidecar(g)' = Sidecar(g)
         /\ Sidecar(fd)' = Sidecar(fd)
<1>1. /\ inHand # <<>> /\ inHand' = <<>> /\ fd' = fd
      /\ file' = [file EXCEPT ![fd] = Stored(@, inHand[1], inHand[2])]
  BY Zenon DEF HostStores
<1>2. fd \in Games
  BY <1>1 DEF FileInv
<1>3. ASSUME NEW g \in Games
      PROVE  Sidecar(g)' = Sidecar(g)
  BY <1>1, <1>2, Zenon DEF Sidecar, TypeInv
<1>4. Sidecar(fd)' = Sidecar(fd)
  BY <1>1, <1>2, Zenon DEF Sidecar, TypeInv
<1> QED
  BY <1>3, <1>4

\* A file is a sequence of sectors, with or without the sector in the hand.
LEMMA SidecarFacts ==
  ASSUME TypeInv, FileInv
  PROVE  /\ \A g \in Games : Sidecar(g) \in Seq(Sector)
         /\ fd \in Games /\ inHand = <<>> => Sidecar(fd) = file[fd]
<1>1. ASSUME NEW g \in Games, inHand # <<>>, fd = g
      PROVE  Stored(file[g], inHand[1], inHand[2]) \in Seq(Sector)
  <2>1. inHand[1] \in Nat \ {0} /\ inHand[2] \in Sector
    BY <1>1, Constants DEF FileInv, TypeInv
  <2> QED
    BY <2>1, StoredFacts DEF TypeInv
<1> QED
  BY <1>1 DEF Sidecar, TypeInv

\* A file has the length that the bridge has it create, or that of its chip,
\* as soon as the sector in the host's hand is counted (ST_INIT_WRITE_WAIT,
\* ST_READY).
LEMMA FileStep ==
  ASSUME TypeInv, HostInv, CardInv, ChangeInv, JudgeInv, FileInv,
         [BridgeNext]_saveVars
  PROVE  FileInv'
<1> USE DEF FileInv, Waiting, Creating, Flushing
<1>1. CASE ChangeSteps
  <2>1. /\ BridgeRests /\ UNCHANGED file /\ inHand = <<>> /\ UNCHANGED inHand
    BY <1>1, ChangeRests
  <2>2. CASE Mounts
    <3>1. Waiting
      BY <2>2, MountFacts DEF HostInv, ChangeInv, Changing
    <3> QED
      BY <2>1, <3>1 DEF BridgeRests
  <2>3. CASE ~Mounts
    <3>1. UNCHANGED <<fd, queuedLen>>
      BY <1>1, <2>3, RaiseFacts, DrainFacts, ReleaseFacts, FinishFacts, AbortFacts,
         LoadFacts, ResetFacts, ExitFacts, Zenon DEF ChangeSteps
    <3>2. Sidecar(fd)' = Sidecar(fd)
      BY <2>1, <3>1, SidecarRests
    <3> QED
      BY <2>1, <3>1, <3>2 DEF BridgeRests
  <2> QED
    BY <2>2, <2>3
<1>2. CASE CardSteps \/ MountPulse \/ UNCHANGED saveVars
  <2>1. /\ UNCHANGED <<file, inHand, fd, queuedLen>>
        /\ UNCHANGED <<state, forInit, initSector, activeSize, allowed>>
    <3>1. CASE CardSteps
      BY <3>1, CardStepRests, HostRests DEF HostStays
    <3>2. CASE MountPulse
      BY <3>2, Zenon DEF MountPulse, hostVars, judged, initVars
    <3>3. CASE UNCHANGED saveVars
      BY <3>3, BridgeStutters, HostRests DEF HostStays, BridgeRests
    <3> QED
      BY <1>2, <3>1, <3>2, <3>3
  <2>2. Sidecar(fd)' = Sidecar(fd)
    BY <2>1, SidecarRests
  <2> QED
    BY <2>1, <2>2 DEF Acceptable
<1>3. CASE CartEvent
  <2>1. UNCHANGED <<file, inHand, fd, queuedLen>>
    BY <1>3, Zenon DEF CartEvent, hostVars
  <2>2. Sidecar(fd)' = Sidecar(fd)
    BY <2>1, SidecarRests
  <2>3. \/ ~Waiting /\ ~Creating /\ ~Creating' /\ UNCHANGED <<allowed, activeSize>>
        \/ Waiting' /\ ~Creating'
    <3>1. CASE Flushing \/ (state = "READY" /\ MustFlush)
      BY <3>1, <1>3 DEF CartEvent, StartFlush
    <3>2. CASE ~Flushing /\ ~(state = "READY" /\ MustFlush)
      BY <3>2, <1>3 DEF CartEvent, ResetForNewCart
    <3> QED
      BY <3>1, <3>2
  <2> QED
    BY <2>1, <2>2, <2>3 DEF Acceptable
<1>4. CASE BridgeSteps
  <2>1. HostStays
    BY <1>4, HostRests
  <2>2. UNCHANGED <<file, inHand>>
    BY <1>4, BridgeStepRests
  <2>3. Sidecar(fd)' = Sidecar(fd) /\ (Acceptable' <=> Acceptable)
    BY <2>1, <2>2, SidecarRests DEF HostStays, Acceptable
  <2>4. /\ inHand' # <<>> => /\ fd' \in Games /\ inHand'[1] \in 1 .. Size[fd']
                             /\ inHand'[1] <= Len(file'[fd']) + 1 /\ Acceptable'
    BY <2>1, <2>2, <2>3 DEF HostStays
  <2> USE <2>1 DEF HostStays
  <2>5. CASE WaitMount \/ ArmProfile
    BY <2>4, <2>5 DEF WaitMount, ArmProfile
  <2>6. CASE JudgeFile
    <3>1. /\ fd \in Games /\ vProfile = fd /\ mountedLen = queuedLen
          /\ inHand = <<>> /\ queuedLen = Len(file[fd])
      BY <2>6 DEF JudgeFile, Fresh, ChangeInv, Announced, HostInv
    <3>2. Len(Sidecar(fd)') = queuedLen
      BY <2>3, <3>1, SidecarFacts
    <3>3. Size[fd] \in Nat \ {0} /\ queuedLen \in Nat
      BY <3>1, Constants DEF TypeInv
    <3> DEFINE full  == queuedLen = Size[fd]
               short == Short(fd, queuedLen)
    <3>4. /\ activeSize' = Size[fd]
          /\ (allowed' <=> (queuedLen = 0 \/ full \/ short))
      BY <2>6, <3>1, Zenon DEF JudgeFile
    <3>5. CASE queuedLen = 0 \/ short
      <4>1. /\ initSector' = (IF short THEN ShortLen ELSE 0) + 1
            /\ forInit' /\ state' = "CACHE_CLEAR"
        BY <2>6, <3>1, <3>5, Zenon DEF JudgeFile
      <4>2. initSector' - 1 = queuedLen
        BY <4>1, <3>3, <3>5 DEF Short, ShortLen
      <4> QED
        BY <2>4, <3>2, <4>1, <4>2
    <3>6. CASE ~(queuedLen = 0 \/ short)
      <4>1. state' = "READY"
        BY <2>6, <3>1, <3>6, Zenon DEF JudgeFile
      <4> QED
        BY <2>4, <3>2, <3>4, <3>6, <4>1
    <3> QED
      BY <3>5, <3>6
  <2>7. CASE CacheClear
    <3>1. CASE forInit
      <4>1. /\ state = "CACHE_CLEAR" /\ state' = "INIT_REQUEST"
            /\ UNCHANGED initSector
        BY <2>7, <3>1, Zenon DEF CacheClear, initVars
      <4> QED
        BY <2>3, <2>4, <3>1, <4>1
    <3>2. CASE ~forInit
      <4>1. state' = "READY" /\ UNCHANGED allowed /\ ~allowed
        BY <2>7, <3>2 DEF CacheClear, judged, JudgeInv
      <4> QED
        BY <2>4, <4>1
    <3> QED
      BY <3>1, <3>2
  <2>8. CASE InitWait
    <3>1. /\ state = "INIT_WAIT" /\ UNCHANGED activeSize
          /\ Len(Sidecar(fd)') = initSector
      BY <2>3, <2>8 DEF InitWait
    <3>2. CASE initSector = activeSize
      <4>1. state' = "READY"
        BY <2>8, <3>2, Zenon DEF InitWait
      <4> QED
        BY <2>4, <3>1, <3>2, <4>1
    <3>3. CASE initSector # activeSize
      <4>1. initSector' = initSector + 1 /\ state' = "INIT_REQUEST"
        BY <2>8, <3>3, Zenon DEF InitWait
      <4>2. initSector' - 1 = initSector
        BY <4>1 DEF TypeInv
      <4> QED
        BY <2>4, <3>1, <4>1, <4>2
    <3> QED
      BY <3>2, <3>3
  <2>9. CASE Miss \/ LoadCommit \/ QuietFlush \/ HostReads
    <3>1. /\ state \in {"READY", "LOAD_COMMIT", "LOAD_REQUEST"}
          /\ UNCHANGED <<allowed, activeSize>>
      BY <2>9, Zenon DEF Miss, LoadCommit, QuietFlush, HostReads, judged
    <3>2. \/ state' \in {"FLUSH_REQUEST", "LOAD_REQUEST", "READY", "LOAD_COMMIT"}
          \/ state' = "CACHE_CLEAR" /\ ~forInit'
      BY <2>9, Zenon DEF Miss, LoadCommit, QuietFlush, HostReads, StartFlush, Fetch
    <3> QED
      BY <2>3, <2>4, <3>1, <3>2
  <2>10. CASE FlushWait
    <3>1. \/ Waiting' /\ ~Creating'
          \/ ~Waiting' /\ ~Creating' /\ UNCHANGED <<allowed, activeSize>>
      BY <2>10 DEF FlushWait, ResetForNewCart, Fetch, judged
    <3>2. state = "FLUSH_WAIT"
      BY <2>10 DEF FlushWait
    <3> QED
      BY <2>3, <2>4, <3>1, <3>2
  <2> QED
    BY <1>4, <2>5, <2>6, <2>7, <2>8, <2>9, <2>10 DEF BridgeSteps
<1>5. CASE HostTakes
  <2>1. HostStays
    BY <1>5, HostRests
  <2>2. /\ inHand = <<>> /\ inHand' = <<lba, cache>>
        /\ UNCHANGED <<file, allowed, activeSize, initSector>>
        /\ \/ state = "FLUSH_REQUEST" /\ state' = "FLUSH_WAIT"
           \/ state = "INIT_REQUEST" /\ state' = "INIT_WAIT"
    BY <1>5, Zenon DEF HostTakes, judged, initVars
  <2>3. /\ fd \in Games /\ activeSize = Size[fd] /\ allowed /\ Acceptable
        /\ Size[fd] \in Nat \ {0} /\ file[fd] \in Seq(Sector) /\ cache \in Sector
    BY <2>2, Constants DEF JudgeInv, TypeInv
  <2>4. Len(file[fd]) = IF state = "INIT_REQUEST" THEN initSector - 1 ELSE activeSize
    BY <2>2, <2>3, SidecarFacts
  <2>5. /\ lba \in 1 .. Size[fd]
        /\ state = "INIT_REQUEST" => lba = initSector
    BY <2>2, <2>3 DEF JudgeInv
  <2>6. Sidecar(fd)' = Stored(file[fd], lba, cache)
    <3>1. inHand' # <<>> /\ inHand'[1] = lba /\ inHand'[2] = cache
      BY <2>2
    <3> QED
      BY <2>1, <2>2, <3>1 DEF HostStays, Sidecar
  <2>7. Len(Sidecar(fd)') = IF lba > Len(file[fd]) THEN lba ELSE Len(file[fd])
    <3>1. lba \in Nat \ {0}
      BY <2>3, <2>5
    <3>2. Len(Stored(file[fd], lba, cache)) =
            IF lba > Len(file[fd]) THEN lba ELSE Len(file[fd])
      BY <2>3, <3>1, StoredFacts
    <3> QED
      BY <2>6, <3>2
  <2>8. Len(Sidecar(fd)') = IF state = "INIT_REQUEST" THEN initSector ELSE activeSize
    BY <2>2, <2>3, <2>4, <2>5, <2>7
  <2>9. /\ inHand' # <<>> /\ fd' \in Games /\ inHand'[1] \in 1 .. Size[fd']
        /\ inHand'[1] <= Len(file'[fd']) + 1 /\ Acceptable'
    BY <2>1, <2>2, <2>3, <2>4, <2>5 DEF HostStays, Acceptable
  <2> QED
    BY <2>1, <2>2, <2>8, <2>9 DEF HostStays
<1>6. CASE HostStores
  <2>1. UNCHANGED <<state, forInit, initSector, activeSize, allowed>>
        /\ inHand' = <<>>
    BY <1>6, Zenon DEF HostStores, bridgeVars, judged, initVars
  <2>2. Sidecar(fd)' = Sidecar(fd)
    BY <1>6, SidecarStores
  <2> QED
    BY <2>1, <2>2
<1> QED
  BY <1>1, <1>2, <1>3, <1>4, <1>5, <1>6, Steps

\* A byte lands in the cached sector of the game whose file is open; the card asks
\* for that sector, or is one byte of an erase ahead of it (WriteByte).
LEMMA WriterFacts ==
  ASSUME TypeInv, HostInv, CardInv, JudgeInv, ReadyInv, EraseStep \/ CardWrites
  PROVE  /\ access /\ cardReady /\ cacheValid /\ ~hold /\ phase # "exited" /\ wrote'
         /\ profile # NoGame /\ profile = game /\ game = fd /\ game \in Games
         /\ at \in 1 .. Size[game] /\ at \in Sectors
         /\ cacheLba \in 1 .. Size[game] /\ cacheLba \in Sectors
         /\ allowed => Served \/ (EraseStep /\ cell = 1 /\ RunsOn)
         /\ UNCHANGED <<profile, game, fd, phase, vAccess, vAt>>
<1>1. access /\ cardReady /\ ~hold /\ wrote' = TRUE /\ (CardWrites => left = 0)
  <2>1. CASE EraseStep
    <3>1. left > 0 /\ cardReady /\ ~hold /\ wrote' = TRUE
      BY <2>1, Zenon DEF EraseStep, WriteByte, ConsoleReset
    <3> QED
      BY <3>1 DEF CardInv, CardWrites, GameRuns
  <2>2. CASE CardWrites
    BY <2>2, Zenon DEF CardWrites, GameRuns, WriteByte, ConsoleReset
  <2> QED
    BY <2>1, <2>2
<1>2. profile # NoGame
  BY <1>1 DEF CardInv
<1>3. profile = game /\ game = fd /\ game \in Games /\ at \in 1 .. Size[game]
  BY <1>2 DEF CardInv, HostInv
<1>4. cacheValid /\ cacheLba \in 1 .. Size[game]
  BY <1>1, <1>3 DEF ReadyInv, JudgeInv
<1>5. phase # "exited"
  BY <1>1 DEF HostInv
<1>6. at \in Sectors /\ cacheLba \in Sectors
  BY <1>3, <1>4, Constants
<1>7. UNCHANGED <<profile, game, fd, phase, vAccess, vAt>>
  BY Zenon DEF EraseStep, CardWrites, hostVars, views
<1>8. Settled => Served
  <2>1. SUFFICES ASSUME Settled PROVE Served
    OBVIOUS
  <2>2. vAt = at /\ cardReady = Ready
    BY <2>1, Zenon DEF Settled
  <2>3. Ready
    BY <1>1, <2>2
  <2> QED
    BY <2>2, <2>3 DEF Ready, Served
<1>9. allowed => Served \/ (EraseStep /\ cell = 1 /\ RunsOn)
  <2>1. CASE CardWrites
    BY <2>1, <1>8, Zenon DEF CardWrites
  <2>2. CASE EraseStep
    <3>1. left > 0 /\ (cell = 1 \/ Settled)
      BY <2>2, Zenon DEF EraseStep
    <3> QED
      BY <2>2, <3>1, <1>1, <1>8 DEF ReadyInv
  <2> QED
    BY <2>1, <2>2
<1> QED
  BY <1>1, <1>2, <1>3, <1>4, <1>5, <1>6, <1>7, <1>9

\* What a byte does to the chip that lasts and to the account of the lost bytes.
LEMMA ByteFacts ==
  ASSUME TypeInv, game \in Games, at \in Sectors, NEW c \in Cells, NEW stamp \in Nat,
         WriteByte(c, stamp)
  PROVE  /\ cache'[c] = stamp /\ \A d \in Cells : d # c => cache'[d] = cache[d]
         /\ allowed =>
              /\ chip'[game][at][c] = stamp
              /\ \A g \in Games, s \in Sectors, d \in Cells :
                   <<g, s, d>> # <<game, at, c>> => chip'[g][s][d] = chip[g][s][d]
              /\ \A g, s, d : <<g, s, d>> # <<game, at, c>> =>
                   (<<g, s, d>> \in spoiled' <=> <<g, s, d>> \in spoiled)
              /\ <<game, at, c>> \in spoiled' <=> at # cacheLba
         /\ ~allowed => UNCHANGED <<chip, spoiled>>
<1>1. /\ cache' = [cache EXCEPT ![c] = stamp]
      /\ \/ /\ allowed
            /\ chip' = [chip EXCEPT ![game][at][c] = stamp]
            /\ \/ at = cacheLba /\ spoiled' = spoiled \ {<<game, at, c>>}
               \/ at # cacheLba /\ spoiled' = spoiled \cup {<<game, at, c>>}
         \/ ~allowed /\ UNCHANGED <<chip, spoiled>>
  BY Zenon DEF WriteByte
<1>2. cache \in [Cells -> Nat] /\ chip \in [Games -> [Sectors -> [Cells -> Nat]]]
  BY DEF TypeInv, Sector
<1>3. cache'[c] = stamp /\ \A d \in Cells : d # c => cache'[d] = cache[d]
  BY <1>1, <1>2
<1>4. ASSUME allowed
      PROVE  /\ chip'[game][at][c] = stamp
             /\ \A g \in Games, s \in Sectors, d \in Cells :
                  <<g, s, d>> # <<game, at, c>> => chip'[g][s][d] = chip[g][s][d]
  <2>1. chip' = [chip EXCEPT ![game][at][c] = stamp]
    BY <1>1, <1>4
  <2>2. chip[game] \in [Sectors -> [Cells -> Nat]] /\ chip[game][at] \in [Cells -> Nat]
    BY <1>2
  <2> DEFINE bytes == [chip[game][at] EXCEPT ![c] = stamp]
             row   == [chip[game] EXCEPT ![at] = bytes]
  <2>3. chip' = [chip EXCEPT ![game] = row]
    BY <2>1, Zenon
  <2>4. bytes[c] = stamp /\ \A d \in Cells : d # c => bytes[d] = chip[game][at][d]
    BY <2>2
  <2> HIDE DEF bytes
  <2>5. row[at] = bytes /\ \A s \in Sectors : s # at => row[s] = chip[game][s]
    BY <2>2
  <2> HIDE DEF row
  <2>6. chip'[game] = row /\ \A g \in Games : g # game => chip'[g] = chip[g]
    BY <1>2, <2>3
  <2>7. chip'[game][at][c] = stamp
    BY <2>4, <2>5, <2>6
  <2>8. ASSUME NEW g \in Games, NEW s \in Sectors, NEW d \in Cells,
               <<g, s, d>> # <<game, at, c>>
        PROVE  chip'[g][s][d] = chip[g][s][d]
    <3>1. CASE g # game
      BY <2>6, <3>1
    <3>2. CASE g = game /\ s # at
      BY <2>5, <2>6, <3>2
    <3>3. CASE g = game /\ s = at
      <4>1. d # c
        BY <2>8, <3>3
      <4> QED
        BY <2>4, <2>5, <2>6, <3>3, <4>1
    <3> QED
      BY <3>1, <3>2, <3>3
  <2> QED
    BY <2>7, <2>8
<1>5. ASSUME allowed
      PROVE  /\ \A g, s, d : <<g, s, d>> # <<game, at, c>> =>
                  (<<g, s, d>> \in spoiled' <=> <<g, s, d>> \in spoiled)
             /\ <<game, at, c>> \in spoiled' <=> at # cacheLba
  <2>1. \/ at = cacheLba /\ spoiled' = spoiled \ {<<game, at, c>>}
        \/ at # cacheLba /\ spoiled' = spoiled \cup {<<game, at, c>>}
    BY <1>1, <1>5
  <2> QED
    BY <2>1, Zenon
<1>6. ~allowed => UNCHANGED <<chip, spoiled>>
  BY <1>1
<1> QED
  BY <1>3, <1>4, <1>5, <1>6

\* An erase writes the byte it has come to, a write any byte (x"02", the erase loop).
LEMMA WriterByte ==
  ASSUME TypeInv, EraseStep \/ CardWrites
  PROVE  \E c \in Cells, stamp \in Nat :
           /\ WriteByte(c, stamp)
           /\ EraseStep => c = cell /\ stamp = 0
           /\ CardWrites => c = 2 \/ UNCHANGED at
<1>1. CASE EraseStep
  <2>1. cell \in Cells /\ 0 \in Nat /\ WriteByte(cell, 0) /\ left > 0
    BY <1>1, Zenon DEF EraseStep, TypeInv
  <2>2. CardWrites => left = 0
    BY Zenon DEF CardWrites, GameRuns
  <2>3. ~CardWrites
    BY <2>1, <2>2
  <2> QED
    BY <2>1, <2>3, Zenon
<1>2. CASE CardWrites /\ ~EraseStep
  <2>1. PICK c \in Cells :
          /\ WriteByte(c, writes + 2)
          /\ at' = IF c = 2 /\ game \notin Flash THEN NextSector ELSE at
    BY <1>2, Zenon DEF CardWrites
  <2>2. writes + 2 \in Nat /\ (c = 2 \/ UNCHANGED at)
    BY <2>1 DEF TypeInv
  <2> QED
    BY <1>2, <2>1, <2>2, Zenon
<1> QED
  BY <1>1, <1>2

\* The erase leaves first bytes that are erased behind it.
LEMMA EraseRuns ==
  ASSUME TypeInv, HostInv, CardInv, ChangeInv, JudgeInv, ReadyInv, EraseInv,
         [BridgeNext]_saveVars
  PROVE  EraseInv'
<1> USE DEF EraseInv
<1>1. CASE ChangeSteps
  <2>1. UNCHANGED <<left, cell, at, allowed, chip, profile>>
    BY <1>1, ChangeRests DEF CardRests, BridgeRests
  <2>2. UNCHANGED game \/ profile = NoGame
    BY <1>1, RaiseFacts, DrainFacts, MountFacts, ReleaseFacts, FinishFacts, AbortFacts,
       LoadFacts, ResetFacts, ExitFacts, Zenon DEF ChangeSteps
  <2>3. profile = NoGame => left = 0
    BY DEF CardInv
  <2> QED
    BY <2>1, <2>2, <2>3
<1>2. CASE CartEvent
  <2>1. edge /\ UNCHANGED left
    BY <1>2, Zenon DEF CartEvent, cardVars
  <2>2. left = 0
    BY <2>1 DEF HostInv, CardInv, Changing
  <2> QED
    BY <2>1, <2>2
<1>3. CASE MountPulse \/ HostTakes \/ HostStores \/ UNCHANGED saveVars
  <2>1. UNCHANGED <<left, cell, at, allowed, chip, game>>
    BY <1>3, BridgeStutters, Zenon DEF MountPulse, HostTakes, HostStores, saveVars,
       cardVars, judged, history, bridgeVars
  <2> QED
    BY <2>1
<1>4. CASE BridgeSteps
  <2>1. UNCHANGED <<left, cell, at, chip, game>>
    BY <1>4, BridgeStepRests, HostRests DEF HostStays
  <2>2. (allowed' => allowed) \/ left = 0
    <3>1. CASE JudgeFile
      BY <3>1 DEF JudgeFile, JudgeInv, CardInv, Waiting, TypeInv
    <3>2. CASE FlushWait
      BY <3>2, Zenon DEF FlushWait, ResetForNewCart, judged
    <3>3. CASE ~JudgeFile /\ ~FlushWait
      BY <1>4, <3>3, Zenon DEF BridgeSteps, WaitMount, ArmProfile, CacheClear, InitWait,
         Miss, LoadCommit, QuietFlush, HostReads, judged
    <3> QED
      BY <3>1, <3>2, <3>3
  <2> QED
    BY <2>1, <2>2
<1>5. CASE CardSteps
  <2>1. UNCHANGED <<allowed, game>>
    BY <1>5, CardStepRests, HostRests DEF HostStays
  <2>2. CASE EraseStep
    <3>1. /\ game \in Games /\ at \in Sectors /\ at \in Nat /\ cell \in {1, 2}
          /\ left \in Nat
      BY <2>2, WriterFacts DEF TypeInv, Cells
    <3>2. /\ WriteByte(cell, 0) /\ left > 0 /\ left' = left - 1
          /\ cell' = IF left > 1 THEN 3 - cell ELSE 1
          /\ at' = IF cell = 2 /\ left > 1 THEN at + 1 ELSE at
      BY <2>2, Zenon DEF EraseStep
    <3>3. ASSUME allowed, left' > 1, cell = 1
          PROVE  cell' = 2 /\ at' = at /\ chip'[game][at][1] = 0
      <4>1. WriteByte(1, 0) /\ 1 \in Cells /\ 0 \in Nat
        BY <3>2, <3>3 DEF Cells
      <4>2. chip'[game][at][1] = 0
        BY <3>1, <3>3, <4>1, ByteFacts
      <4> QED
        BY <3>1, <3>2, <3>3, <4>2
    <3>4. ASSUME allowed, left' > 1, cell = 2
          PROVE  cell' = 1 /\ at' - 1 = at /\ chip'[game][at][1] = 0
      <4>1. WriteByte(2, 0) /\ 1 \in Cells /\ 2 \in Cells /\ 0 \in Nat
        BY <3>2, <3>4 DEF Cells
      <4>2. <<game, at, 1>> # <<game, at, 2>>
        OBVIOUS
      <4>3. \A g \in Games, s \in Sectors, d \in Cells :
              <<g, s, d>> # <<game, at, 2>> => chip'[g][s][d] = chip[g][s][d]
        BY <3>1, <3>4, <4>1, ByteFacts, Zenon
      <4>4. chip'[game][at][1] = chip[game][at][1]
        BY <3>1, <4>1, <4>2, <4>3
      <4> QED
        BY <3>1, <3>2, <3>4, <4>4
    <3>5. left' > 0 => game' \in Flash
      BY <2>1, <3>2
    <3> QED
      BY <2>1, <3>1, <3>3, <3>4, <3>5
  <2>3. CASE CardErases
    <3>1. /\ game \in Flash /\ UNCHANGED chip
          /\ \/ at' = 1 /\ cell' = 1
             \/ left' = 1
      BY <2>3, Zenon DEF CardErases
    <3> QED
      BY <2>1, <3>1
  <2>4. CASE ~EraseStep /\ ~CardErases
    <3>1. \/ left' = 0
          \/ left = 0 /\ left' = left
          \/ UNCHANGED <<left, cell, at, chip>>
      <4>1. CASE CardArrives \/ ReadyArrives \/ WriteArrives \/ ResetCard
        BY <4>1, Zenon DEF CardArrives, ReadyArrives, WriteArrives, ResetCard, cardVars,
           history
      <4>2. CASE CardCloses \/ CardReads \/ CardOpens \/ CardWrites
        BY <4>2, Zenon DEF CardCloses, CardReads, CardOpens, CardWrites, GameRuns
      <4>3. CASE PublishProfile
        BY <4>3, Zenon DEF PublishProfile, history
      <4> QED
        BY <1>5, <2>4, <4>1, <4>2, <4>3, Zenon DEF CardSteps
    <3> QED
      BY <2>1, <3>1
  <2> QED
    BY <2>2, <2>3, <2>4
<1> QED
  BY <1>1, <1>2, <1>3, <1>4, <1>5, Steps

\* The notice of a write is overtaken by a miss only at the end of a sector
\* of a chip that is not flash, and bytes are lost at the ends of sectors
\* only (ST_READY, the erase loop).
LEMMA NoticeStep ==
  ASSUME TypeInv, HostInv, CardInv, ChangeInv, JudgeInv, ReadyInv, EraseInv, NoticeInv,
         [BridgeNext]_saveVars
  PROVE  NoticeInv'
<1> DEFINE First == wrote /\ profile # NoGame /\ allowed /\ ~cacheDirty =>
                      (game \notin Flash /\ Size[game] > 1) \/ (cacheValid /\ Stays)
           Second == wrote /\ allowed /\ state \in {"FLUSH_WAIT", "LOAD_COMMIT"}
                       => profile = NoGame
<1>1. First /\ Second /\ OnlyAtTheEnds
  BY Zenon DEF NoticeInv
<1>2. UNCHANGED spoiled => OnlyAtTheEnds'
  BY <1>1, Zenon DEF OnlyAtTheEnds
<1>3. SUFFICES First' /\ Second' /\ OnlyAtTheEnds'
  BY Zenon DEF NoticeInv
<1>4. ~wrote' \/ ~allowed' \/ profile' = NoGame => First' /\ Second'
  OBVIOUS
<1>5. CASE ChangeSteps
  <2>1. CardRests /\ BridgeRests /\ UNCHANGED spoiled
    BY <1>5, ChangeRests
  <2>2. UNCHANGED game \/ profile = NoGame
    BY <1>5, RaiseFacts, DrainFacts, MountFacts, ReleaseFacts, FinishFacts, AbortFacts,
       LoadFacts, ResetFacts, ExitFacts, Zenon DEF ChangeSteps
  <2> QED
    BY <1>1, <1>2, <2>1, <2>2 DEF CardRests, BridgeRests, Stays
<1>6. CASE CartEvent
  <2>1. edge /\ UNCHANGED <<wrote, spoiled>>
    BY <1>6, Zenon DEF CartEvent, history
  <2>2. ~wrote
    BY <2>1 DEF HostInv, CardInv, Changing
  <2> QED
    BY <1>2, <1>4, <2>1, <2>2
<1>7. CASE MountPulse \/ HostStores \/ UNCHANGED saveVars
  <2>1. UNCHANGED <<wrote, profile, allowed, cacheDirty, cacheValid, cacheLba, access,
                    at, vAccess, vAt, state, spoiled, game>>
    BY <1>7, BridgeStutters, HostRests, Zenon DEF MountPulse, HostStores, cardVars,
       views, judged, lines, history, bridgeVars, CardRests, BridgeRests, HostStays
  <2> QED
    BY <1>1, <1>2, <2>1 DEF Stays
<1>8. CASE HostTakes
  <2>1. ~wrote /\ UNCHANGED <<wrote, spoiled>>
    BY <1>8, Zenon DEF HostTakes, Crossed, history
  <2> QED
    BY <1>2, <1>4, <2>1
<1>9. CASE BridgeSteps
  <2>1. UNCHANGED <<profile, access, at, wrote, vAccess, vAt, game>>
    BY <1>9, BridgeStepRests, HostRests DEF HostStays
  <2>2. CASE WaitMount \/ ArmProfile
    <3>1. ~allowed /\ UNCHANGED <<allowed, spoiled>>
      BY <2>2, Zenon DEF WaitMount, ArmProfile, JudgeInv, Waiting, around, history
    <3> QED
      BY <1>2, <1>4, <3>1
  <2>3. CASE JudgeFile \/ InitWait
    <3>1. state \in {"WAIT_PROFILE", "INIT_WAIT"} /\ UNCHANGED spoiled
      BY <2>3, Zenon DEF JudgeFile, InitWait, around, history
    <3>2. ~wrote
      BY <3>1 DEF JudgeInv, Waiting, Creating
    <3> QED
      BY <1>2, <1>4, <2>1, <3>1, <3>2
  <2>4. CASE CacheClear \/ HostReads
    <3>1. ~wrote /\ UNCHANGED spoiled
      BY <2>4, Zenon DEF CacheClear, HostReads, Crossed, around, history
    <3> QED
      BY <1>2, <1>4, <2>1, <3>1
  <2>5. CASE Miss
    <3>1. /\ Misses /\ state' \in {"FLUSH_REQUEST", "LOAD_REQUEST", "CACHE_CLEAR"}
          /\ \/ UNCHANGED spoiled
             \/ /\ ~MustFlush
                /\ spoiled' = spoiled \cup
                     IF Overtakes THEN {<<game, cacheLba, 2>>} ELSE {}
          /\ UNCHANGED <<allowed, cacheLba, cacheValid, cacheDirty>>
      BY <2>5, Zenon DEF Miss, StartFlush, Fetch, judged
    <3>2. First' /\ Second'
      BY <1>1, <2>1, <3>1 DEF Stays
    <3>3. OnlyAtTheEnds'
      <4>1. CASE Overtakes
        <5>1. ~Stays \/ ~cacheValid
          BY <3>1 DEF Misses, Stays
        <5>2. game \notin Flash /\ Size[game] > 1
          BY <1>1, <4>1, <5>1 DEF Overtakes
        <5>3. spoiled' \subseteq spoiled \cup {<<game, cacheLba, 2>>}
          BY <3>1
        <5> QED
          BY <1>1, <5>2, <5>3 DEF OnlyAtTheEnds
      <4>2. CASE ~Overtakes
        BY <1>2, <3>1, <4>2
      <4> QED
        BY <4>1, <4>2
    <3> QED
      BY <3>2, <3>3
  <2>6. CASE LoadCommit \/ FlushWait
    <3>1. /\ state \in {"FLUSH_WAIT", "LOAD_COMMIT"} /\ UNCHANGED spoiled
          /\ UNCHANGED allowed \/ ~allowed'
      BY <2>6, Zenon DEF LoadCommit, FlushWait, ResetForNewCart, judged, around, history
    <3>2. ~wrote \/ ~allowed \/ profile = NoGame
      BY <1>1, <3>1
    <3> QED
      BY <1>2, <1>4, <2>1, <3>1, <3>2
  <2>7. CASE QuietFlush
    <3>1. cacheDirty' /\ state' = "FLUSH_REQUEST" /\ UNCHANGED spoiled
      BY <2>7, Zenon DEF QuietFlush, StartFlush, MustFlush, around, history
    <3> QED
      BY <1>2, <3>1
  <2> QED
    BY <1>9, <2>2, <2>3, <2>4, <2>5, <2>6, <2>7 DEF BridgeSteps
<1>10. CASE CardSteps /\ ~EraseStep /\ ~CardWrites
  <2>1. UNCHANGED <<state, allowed, cacheLba, cacheValid, game>>
    BY <1>10, CardStepRests, HostRests DEF HostStays
  <2>2. UNCHANGED spoiled
    BY <1>10, Zenon DEF CardSteps, CardArrives, ReadyArrives, WriteArrives, ResetCard,
       CardCloses, CardReads, PublishProfile, CardOpens, CardErases, history
  <2>3. CASE CardArrives \/ ReadyArrives \/ CardCloses
    <3>1. /\ UNCHANGED <<profile, wrote, cacheDirty>>
          /\ \/ UNCHANGED <<access, at>> /\ vAccess' = access /\ vAt' = at
             \/ UNCHANGED <<access, at, vAccess, vAt>>
             \/ ~access' /\ UNCHANGED <<vAccess, vAt>>
      BY <2>3, Zenon DEF CardArrives, ReadyArrives, CardCloses, cardVars, views,
         bridgeVars, lines
    <3> QED
      BY <1>1, <1>2, <2>1, <2>2, <3>1 DEF Stays
  <2>4. CASE WriteArrives \/ ResetCard
    <3>1. ~wrote' \/ profile' = NoGame
      BY <2>4, Zenon DEF WriteArrives, ResetCard
    <3> QED
      BY <1>2, <1>4, <2>2, <3>1
  <2>5. CASE PublishProfile
    <3>1. ~hold /\ profile = NoGame /\ UNCHANGED wrote
      BY <2>5, Zenon DEF PublishProfile, ConsoleReset
    <3>2. ~wrote
      BY <3>1 DEF CardInv
    <3> QED
      BY <1>2, <1>4, <2>2, <3>1, <3>2
  <2>6. CASE CardOpens \/ CardReads \/ CardErases
    <3>1. ~wrote /\ UNCHANGED wrote
      BY <2>6, Zenon DEF CardOpens, CardReads, CardErases, Settled
    <3> QED
      BY <1>2, <1>4, <2>2, <3>1
  <2> QED
    BY <1>10, <2>3, <2>4, <2>5, <2>6 DEF CardSteps
<1>11. CASE EraseStep \/ CardWrites
  <2>1. /\ cacheValid /\ game \in Games /\ at \in 1 .. Size[game] /\ at \in Sectors
        /\ cacheLba \in Sectors
        /\ allowed => Served \/ (EraseStep /\ cell = 1 /\ RunsOn)
        /\ UNCHANGED <<profile, vAccess, vAt>>
    BY <1>11, WriterFacts
  <2>2. UNCHANGED <<state, allowed, cacheLba, cacheValid, game>>
    BY <1>11, CardStepRests, HostRests DEF CardSteps, HostStays
  <2>3. Second'
    BY <2>1, <2>2 DEF Served, RunsOn
  <2>4. PICK c \in Cells, stamp \in Nat :
          /\ WriteByte(c, stamp)
          /\ EraseStep => c = cell /\ stamp = 0
    BY <1>11, WriterByte
  <2>5. First'
    <3>1. CASE CardWrites /\ allowed
      <4>1. at' = at \/ (game \notin Flash /\ at' = NextSector)
        BY <3>1, Zenon DEF CardWrites
      <4>2. EraseStep \/ Served
        BY <2>1, <3>1
      <4>3. CASE EraseStep
        <5>1. left = 0 /\ left > 0
          BY <3>1, <4>3, Zenon DEF CardWrites, GameRuns, EraseStep
        <5> QED
          BY <5>1 DEF TypeInv
      <4>4. CASE Served
        <5>1. Size[game] \in Nat /\ Size[game] > 0 /\ at \in Nat
          BY <2>1, Constants DEF TypeInv
        <5>2. (game \notin Flash /\ Size[game] > 1) \/ at' = at
          BY <2>1, <4>1, <5>1 DEF NextSector
        <5> QED
          BY <2>1, <2>2, <4>4, <5>2 DEF Served, Stays
      <4> QED
        BY <4>2, <4>3, <4>4
    <3>2. CASE EraseStep /\ allowed
      <4>1. /\ cacheDirty' <=> cacheDirty \/ Settled
            /\ cell = 1 \/ Settled
            /\ at' = IF cell = 2 /\ left > 1 THEN at + 1 ELSE at
        BY <3>2, Zenon DEF EraseStep
      <4>2. CASE RunsOn \/ cell # 1
        BY <4>1, <4>2 DEF RunsOn
      <4>3. CASE Served /\ cell = 1
        BY <2>1, <2>2, <4>1, <4>3 DEF Served, Stays
      <4> QED
        BY <2>1, <3>2, <4>2, <4>3
    <3> QED
      BY <1>4, <1>11, <2>2, <3>1, <3>2
  <2>6. OnlyAtTheEnds'
    <3>1. CASE ~allowed
      BY <1>2, <2>1, <2>4, <3>1, ByteFacts
    <3>2. CASE allowed
      <4>1. at # cacheLba => c = 1 /\ game \in Flash /\ at > 1
        <5>1. Served => at = cacheLba
          BY DEF Served
        <5>2. RunsOn => at = cacheLba + 1 /\ left > 0
          BY DEF RunsOn, TypeInv
        <5>3. cacheLba > 0 /\ cacheLba \in Nat
          BY <2>1 DEF Sectors
        <5> QED
          BY <2>1, <2>4, <3>2, <5>1, <5>2, <5>3 DEF EraseInv
      <4>2. /\ \A g, s, d : <<g, s, d>> # <<game, at, c>> =>
                 (<<g, s, d>> \in spoiled' <=> <<g, s, d>> \in spoiled)
            /\ <<game, at, c>> \in spoiled' <=> at # cacheLba
        BY <2>1, <2>4, <3>2, ByteFacts, Zenon
      <4>3. SUFFICES ASSUME NEW g \in Games, NEW s \in Sectors, NEW d \in Cells,
                            <<g, s, d>> \in spoiled'
                     PROVE  \/ g \in Flash /\ d = 1 /\ s > 1
                            \/ g \notin Flash /\ d = 2 /\ Size[g] > 1
        BY Zenon DEF OnlyAtTheEnds
      <4>4. CASE <<g, s, d>> = <<game, at, c>>
        <5>1. g = game /\ s = at /\ d = c
          BY <4>4
        <5> QED
          BY <4>1, <4>2, <4>3, <5>1
      <4>5. CASE <<g, s, d>> # <<game, at, c>>
        BY <1>1, <4>2, <4>3, <4>5, Zenon DEF OnlyAtTheEnds
      <4> QED
        BY <4>4, <4>5
    <3> QED
      BY <3>1, <3>2
  <2> QED
    BY <2>3, <2>5, <2>6
<1> QED
  BY <1>5, <1>6, <1>7, <1>8, <1>9, <1>10, <1>11, Steps DEF CardSteps

\* A store at most one sector behind the end changes what the chip reads in
\* that sector alone.
LEMMA PaddedStored ==
  ASSUME NEW f \in Seq(Sector), NEW n \in 1 .. Len(f) + 1, NEW d \in Sector,
         NEW s \in Sectors
  PROVE  Padded(Stored(f, n, d))[s] = IF s = n THEN d ELSE Padded(f)[s]
<1>1. n \in Nat \ {0} /\ n <= Len(f) + 1 /\ Len(f) \in Nat /\ s \in Nat \ {0}
  BY SaveBridgeAssumption DEF Sectors
<1> DEFINE h == Stored(f, n, d)
<1>2. /\ Len(h) = IF n > Len(f) THEN n ELSE Len(f)
      /\ s <= Len(h) =>
           h[s] = IF s = n THEN d ELSE IF s <= Len(f) THEN f[s] ELSE Hole
  <2>1. Len(h) = IF n > Len(f) THEN n ELSE Len(f)
    BY <1>1, StoredFacts
  <2>2. s <= Len(h) => s \in 1 .. (IF n > Len(f) THEN n ELSE Len(f))
    BY <1>1, <2>1
  <2>3. ASSUME s \in 1 .. (IF n > Len(f) THEN n ELSE Len(f))
        PROVE  h[s] = IF s = n THEN d ELSE IF s <= Len(f) THEN f[s] ELSE Hole
    BY <2>3, Zenon DEF Stored
  <2> QED
    BY <2>1, <2>2, <2>3
<1>3. /\ Padded(h)[s] = IF s <= Len(h) THEN h[s] ELSE Blank
      /\ Padded(f)[s] = IF s <= Len(f) THEN f[s] ELSE Blank
  BY DEF Padded
<1> HIDE DEF h
<1>4. Padded(h)[s] = IF s = n THEN d ELSE Padded(f)[s]
  BY <1>1, <1>2, <1>3
<1> QED
  BY <1>4 DEF h

\* With files and chips at rest, it is enough that what is only in the cache
\* stays there, or is accounted for as lost.
LEMMA SavedStay ==
  ASSUME Kept, UNCHANGED chip, \A g \in Games : Sidecar(g)' = Sidecar(g),
         \A x : x \in spoiled => x \in spoiled',
         \A c \in Cells : OnlyCached(c) =>
           \/ OnlyCached(c)' /\ UNCHANGED <<fd, cacheLba>>
           \/ <<fd, cacheLba, c>> \in spoiled'
  PROVE  Kept'
<1>1. SUFFICES ASSUME NEW g \in Games, NEW s \in Sectors, NEW c \in Cells
               PROVE  \/ <<g, s, c>> \in spoiled'
                      \/ Saved(g, s, c)'
                      \/ g = fd' /\ s = cacheLba' /\ OnlyCached(c)'
  BY Zenon DEF Kept
<1>2. \/ <<g, s, c>> \in spoiled
      \/ Saved(g, s, c)
      \/ g = fd /\ s = cacheLba /\ OnlyCached(c)
  BY Zenon DEF Kept
<1>3. CASE <<g, s, c>> \in spoiled
  BY <1>3
<1>4. CASE Saved(g, s, c)
  BY <1>4, Zenon DEF Saved, Padded
<1>5. CASE g = fd /\ s = cacheLba /\ OnlyCached(c)
  <2>1. \/ OnlyCached(c)' /\ UNCHANGED <<fd, cacheLba>>
        \/ <<fd, cacheLba, c>> \in spoiled'
    BY <1>5
  <2> QED
    BY <1>5, <2>1
<1> QED
  BY <1>2, <1>3, <1>4, <1>5

\* The cache stands for a sector as long as chip and cache rest.
LEMMA MirrorsStay ==
  ASSUME UNCHANGED <<cache, chip, fd>>, \A x : x \in spoiled => x \in spoiled',
         NEW s, Mirrors(s)
  PROVE  \A c \in Cells : <<fd', s, c>> \in spoiled' \/ cache'[c] = chip'[fd'][s][c]
  BY Zenon DEF Mirrors

\* A flush or a new sector that the host takes leaves nothing out of the
\* files: the cache stands for the sector it flushes, and a new one is blank
\* (sector).
LEMMA TakenIsKept ==
  ASSUME TypeInv, JudgeInv, FileInv, ContentInv, HostTakes
  PROVE  Kept'
<1>1. /\ inHand = <<>> /\ inHand' = <<lba, cache>>
      /\ UNCHANGED <<file, chip, spoiled, fd, allowed, cacheLba>>
      /\ \/ state = "FLUSH_REQUEST" /\ state' = "FLUSH_WAIT"
         \/ state = "INIT_REQUEST" /\ state' = "INIT_WAIT"
  BY Zenon DEF HostTakes, history, judged, lines
<1>2. /\ fd \in Games /\ activeSize = Size[fd] /\ allowed
      /\ Size[fd] \in Nat \ {0} /\ file[fd] \in Seq(Sector) /\ cache \in Sector
  BY <1>1, Constants DEF JudgeInv, TypeInv, Waiting, Creating, Flushing
<1>3. Len(file[fd]) = IF state = "INIT_REQUEST" THEN initSector - 1 ELSE activeSize
  BY <1>1, <1>2, SidecarFacts DEF FileInv, Waiting, Creating
<1>4. /\ lba \in 1 .. Len(file[fd]) + 1 /\ lba \in Sectors
      /\ state = "INIT_REQUEST" => cache = Blank /\ lba = Len(file[fd]) + 1
      /\ state = "FLUSH_REQUEST" => lba = cacheLba /\ cacheValid
  <2>1. CASE state = "INIT_REQUEST"
    BY <1>2, <1>3, <2>1, Constants DEF JudgeInv, Creating
  <2>2. CASE state = "FLUSH_REQUEST"
    BY <1>2, <1>3, <2>2, Constants DEF JudgeInv, Flushing
  <2> QED
    BY <1>1, <2>1, <2>2
<1>5. inHand' # <<>> /\ inHand'[1] = lba /\ inHand'[2] = cache
  BY <1>1
<1>6. Sidecar(fd)' = Stored(file[fd], lba, cache)
  BY <1>1, <1>5, Zenon DEF Sidecar
<1>7. \A g \in Games : g # fd => Sidecar(g)' = Sidecar(g)
  BY <1>1, Zenon DEF Sidecar
<1>8. \A s \in Sectors :
        Padded(Sidecar(fd)')[s] = IF s = lba THEN cache ELSE Padded(file[fd])[s]
  BY <1>2, <1>4, <1>6, PaddedStored
<1>9. SUFFICES ASSUME NEW g \in Games, NEW s \in Sectors, NEW c \in Cells
               PROVE  <<g, s, c>> \in spoiled' \/ Saved(g, s, c)'
  BY Zenon DEF Kept
<1>10. \/ <<g, s, c>> \in spoiled
       \/ Saved(g, s, c)
       \/ g = fd /\ s = cacheLba /\ OnlyCached(c)
  BY Zenon DEF ContentInv, Kept
<1>11. CASE g # fd
  <2>1. <<g, s, c>> \in spoiled \/ Saved(g, s, c)
    BY <1>10, <1>11
  <2>2. Saved(g, s, c)' <=> Saved(g, s, c)
    BY <1>1, <1>7, <1>11, Zenon DEF Saved, Padded
  <2> QED
    BY <1>1, <2>1, <2>2
<1>12. CASE g = fd
  <2>1. Saved(g, s, c)' <=> Padded(Sidecar(fd)')[s][c] = chip[fd][s][c]
    BY <1>1, <1>12, Zenon DEF Saved, Padded
  <2>2. Saved(g, s, c) <=> Padded(file[fd])[s][c] = chip[fd][s][c]
    BY <1>1, <1>12, Zenon DEF Saved, Sidecar
  <2>3. CASE state = "INIT_REQUEST"
    <3>1. <<g, s, c>> \in spoiled \/ Padded(file[fd])[s][c] = chip[fd][s][c]
      BY <1>10, <2>2, <2>3 DEF OnlyCached
    <3>2. s = lba => Padded(file[fd])[s] = cache
      BY <1>2, <1>4, <2>3 DEF Padded
    <3> QED
      BY <1>1, <1>8, <2>1, <3>1, <3>2
  <2>4. CASE state = "FLUSH_REQUEST"
    <3>1. <<fd, lba, c>> \in spoiled \/ cache[c] = chip[fd][lba][c]
      BY <1>2, <1>4, <2>4 DEF ContentInv, Mirrors, Flushing
    <3>2. s # lba => <<g, s, c>> \in spoiled \/ Padded(file[fd])[s][c] = chip[fd][s][c]
      BY <1>4, <1>10, <2>2, <2>4
    <3> QED
      BY <1>1, <1>8, <1>12, <2>1, <3>1, <3>2
  <2> QED
    BY <1>1, <2>3, <2>4
<1> QED
  BY <1>11, <1>12

\* A byte that is written is marked to be flushed with its sector, or is the
\* first byte of a sector that an erase has run into, and lost.
LEMMA WriterKeeps ==
  ASSUME TypeInv, HostInv, CardInv, JudgeInv, ReadyInv, EraseInv, ContentInv,
         EraseStep \/ CardWrites
  PROVE  ContentInv'
<1>1. /\ access /\ cardReady /\ cacheValid /\ phase # "exited" /\ wrote'
      /\ profile # NoGame /\ game = fd /\ game \in Games
      /\ at \in Sectors /\ cacheLba \in Sectors
      /\ allowed => Served \/ (EraseStep /\ cell = 1 /\ RunsOn)
      /\ UNCHANGED <<profile, game, fd, phase, vAccess, vAt>>
  BY WriterFacts
<1>2. UNCHANGED <<file, inHand, state, target, allowed, cacheLba, cacheValid>>
  BY CardStepRests DEF CardSteps
<1>3. \A g \in Games : Sidecar(g)' = Sidecar(g)
  BY <1>1, <1>2, SidecarRests, Zenon
<1>4. PICK c \in Cells, stamp \in Nat :
        /\ WriteByte(c, stamp)
        /\ EraseStep => c = cell /\ stamp = 0
        /\ CardWrites => c = 2 \/ UNCHANGED at
  BY WriterByte
<1>5. /\ Kept
      /\ allowed /\ cacheValid /\ (state = "READY" \/ Flushing) => Mirrors(cacheLba)
  BY Zenon DEF ContentInv
<1>6. CASE ~allowed
  <2>1. UNCHANGED <<chip, spoiled>>
    BY <1>4, <1>6, Zenon DEF WriteByte
  <2>2. \A d \in Cells : ~OnlyCached(d)
    BY <1>6 DEF OnlyCached
  <2>3. Kept'
    BY <1>3, <1>5, <2>1, <2>2, SavedStay, Zenon
  <2> QED
    BY <1>2, <1>6, <2>3 DEF ContentInv
<1>7. CASE allowed
  <2>1. /\ cache'[c] = stamp /\ \A d \in Cells : d # c => cache'[d] = cache[d]
        /\ chip'[game][at][c] = stamp
        /\ \A g \in Games, s \in Sectors, d \in Cells :
             <<g, s, d>> # <<game, at, c>> => chip'[g][s][d] = chip[g][s][d]
        /\ \A g, s, d : <<g, s, d>> # <<game, at, c>> =>
             (<<g, s, d>> \in spoiled' <=> <<g, s, d>> \in spoiled)
        /\ <<game, at, c>> \in spoiled' <=> at # cacheLba
    BY <1>1, <1>4, <1>7, ByteFacts, Zenon
  <2>2. Served \/ (EraseStep /\ cell = 1 /\ RunsOn)
    BY <1>1, <1>7
  <2>3. state \in {"READY", "FLUSH_REQUEST"} /\ Mirrors(cacheLba)
    BY <1>1, <1>5, <1>7, <2>2 DEF Served, RunsOn, Flushing
  <2>4. (cacheDirty => cacheDirty') /\ (c = 2 \/ cacheDirty' \/ UNCHANGED at)
        /\ (wrote => cacheDirty' \/ UNCHANGED at)
    <3>1. CASE EraseStep
      <4>1. /\ cacheDirty' <=> cacheDirty \/ Settled
            /\ cell = 1 \/ Settled
            /\ at' = IF cell = 2 /\ left > 1 THEN at + 1 ELSE at
        BY <3>1, Zenon DEF EraseStep
      <4> QED
        BY <3>1, <4>1
    <3>2. CASE CardWrites
      <4>1. UNCHANGED cacheDirty /\ ~wrote
        BY <3>2, Zenon DEF CardWrites, Settled, bridgeVars, lines
      <4>2. c = 2 \/ UNCHANGED at
        BY <1>4, <3>2
      <4> QED
        BY <4>1, <4>2
    <3> QED
      BY <3>1, <3>2
  <2>5. at = cacheLba => OnlyCached(c)'
    <3>1. SUFFICES ASSUME at = cacheLba PROVE OnlyCached(c)'
      OBVIOUS
    <3>2. CASE Served
      BY <1>1, <1>2, <1>7, <2>4, <3>1, <3>2 DEF OnlyCached, Served, Stays
    <3>3. CASE RunsOn
      BY <3>1, <3>3 DEF RunsOn, TypeInv
    <3> QED
      BY <2>2, <3>2, <3>3
  <2>6. \A d \in Cells : OnlyCached(d) => OnlyCached(d)'
    <3>1. SUFFICES ASSUME NEW d \in Cells, OnlyCached(d)
                   PROVE  OnlyCached(d)'
      OBVIOUS
    <3> QED
      BY <1>1, <1>2, <2>4, <3>1 DEF OnlyCached, Stays
  <2>7. Kept'
    <3>1. SUFFICES ASSUME NEW g \in Games, NEW s \in Sectors, NEW d \in Cells
                   PROVE  \/ <<g, s, d>> \in spoiled'
                          \/ Saved(g, s, d)'
                          \/ g = fd' /\ s = cacheLba' /\ OnlyCached(d)'
      BY Zenon DEF Kept
    <3>2. CASE <<g, s, d>> = <<game, at, c>>
      <4>1. g = fd /\ s = at /\ d = c
        BY <1>1, <3>2
      <4> QED
        BY <1>1, <1>2, <2>1, <2>5, <4>1
    <3>3. CASE <<g, s, d>> # <<game, at, c>>
      <4>1. /\ chip'[g][s][d] = chip[g][s][d]
            /\ <<g, s, d>> \in spoiled' <=> <<g, s, d>> \in spoiled
        BY <2>1, <3>3, Zenon
      <4>2. Saved(g, s, d)' <=> Saved(g, s, d)
        BY <1>3, <4>1, Zenon DEF Saved, Padded
      <4>3. \/ <<g, s, d>> \in spoiled
            \/ Saved(g, s, d)
            \/ g = fd /\ s = cacheLba /\ OnlyCached(d)
        BY <1>5, Zenon DEF Kept
      <4> QED
        BY <1>1, <1>2, <2>6, <4>1, <4>2, <4>3
    <3> QED
      BY <3>2, <3>3
  <2>8. ASSUME NEW d \in Cells
        PROVE  <<fd, cacheLba, d>> \in spoiled' \/ cache'[d] = chip'[fd][cacheLba][d]
    <3>1. CASE <<fd, cacheLba, d>> = <<game, at, c>>
      <4>1. at = cacheLba /\ d = c
        BY <3>1
      <4> QED
        BY <1>1, <2>1, <4>1
    <3>2. CASE <<fd, cacheLba, d>> # <<game, at, c>>
      <4>1. /\ chip'[fd][cacheLba][d] = chip[fd][cacheLba][d]
            /\ <<fd, cacheLba, d>> \in spoiled' <=> <<fd, cacheLba, d>> \in spoiled
        BY <1>1, <2>1, <3>2, Zenon
      <4>2. CASE d # c
        BY <2>1, <2>3, <4>1, <4>2 DEF Mirrors
      <4>3. CASE d = c
        <5>1. at # cacheLba
          BY <1>1, <3>2, <4>3
        <5>2. EraseStep /\ cell = 1 /\ RunsOn
          BY <2>2, <5>1 DEF Served
        <5>3. c = 1 /\ stamp = 0
          BY <1>4, <5>2
        <5>4. at - 1 = cacheLba /\ at > 1
          BY <1>1, <5>2 DEF RunsOn, Sectors
        <5>5. chip[game][cacheLba][1] = 0
          BY <1>7, <5>2, <5>4 DEF EraseInv, RunsOn
        <5> QED
          BY <1>1, <2>1, <4>1, <4>3, <5>3, <5>5
      <4> QED
        BY <4>2, <4>3
    <3> QED
      BY <3>1, <3>2
  <2> QED
    BY <1>1, <1>2, <2>3, <2>7, <2>8 DEF ContentInv, Mirrors
<1> QED
  BY <1>6, <1>7

\* But for the lost bytes, every byte is in its file or in the cached sector
\* with a flush to come (a miss, ST_FLUSH, reset_for_new_cart, load).
LEMMA ContentStep ==
  ASSUME TypeInv, HostInv, CardInv, ChangeInv, JudgeInv, FileInv, ReadyInv, EraseInv,
         NoticeInv, ContentInv, [BridgeNext]_saveVars
  PROVE  ContentInv'
<1> DEFINE Grow == \A x : x \in spoiled => x \in spoiled'
           Cached == /\ allowed' /\ cacheValid' /\ (state' = "READY" \/ Flushing')
                          => Mirrors(cacheLba)'
                     /\ allowed' /\ state' = "LOAD_COMMIT" => Mirrors(target)'
<1>1. SUFFICES Kept' /\ Cached
  BY DEF ContentInv
<1>2. /\ Kept
      /\ allowed /\ cacheValid /\ (state = "READY" \/ Flushing) => Mirrors(cacheLba)
      /\ allowed /\ state = "LOAD_COMMIT" => Mirrors(target)
  BY Zenon DEF ContentInv
<1>3. ASSUME UNCHANGED <<cache, chip, fd>>, Grow
      PROVE  /\ Mirrors(cacheLba) /\ UNCHANGED cacheLba => Mirrors(cacheLba)'
             /\ Mirrors(target) /\ UNCHANGED target => Mirrors(target)'
             /\ Mirrors(target) /\ cacheLba' = target => Mirrors(cacheLba)'
  <2>1. Mirrors(cacheLba) => \A c \in Cells :
          <<fd', cacheLba, c>> \in spoiled' \/ cache'[c] = chip'[fd'][cacheLba][c]
    BY <1>3, MirrorsStay
  <2>2. Mirrors(target) => \A c \in Cells :
          <<fd', target, c>> \in spoiled' \/ cache'[c] = chip'[fd'][target][c]
    BY <1>3, MirrorsStay
  <2> QED
    BY <2>1, <2>2, Zenon DEF Mirrors
<1>4. UNCHANGED spoiled => Grow
  OBVIOUS
<1> HIDE DEF Grow
<1>5. CASE ChangeSteps
  <2>1. /\ CardRests /\ BridgeRests /\ UNCHANGED <<file, chip, spoiled>>
        /\ inHand = <<>> /\ UNCHANGED inHand
    BY <1>5, ChangeRests
  <2>2. \A g \in Games : Sidecar(g)' = Sidecar(g)
    BY <2>1, Zenon DEF Sidecar
  <2>3. CASE Mounts
    <3>1. ~allowed
      BY <2>3, MountFacts DEF HostInv, ChangeInv, Changing, JudgeInv
    <3>2. \A c \in Cells : ~OnlyCached(c)
      BY <3>1 DEF OnlyCached
    <3>3. Kept'
      BY <1>2, <2>1, <2>2, <3>2, SavedStay, Zenon
    <3> QED
      BY <2>1, <3>1, <3>3 DEF BridgeRests
  <2>4. CASE Exit
    <3>1. /\ ~Flushing /\ ~wrote /\ ~(state = "READY" /\ MustFlush)
          /\ UNCHANGED fd
      BY <2>4, ExitFacts
    <3>2. \A c \in Cells : ~OnlyCached(c)
      BY <3>1 DEF OnlyCached, Flushing, MustFlush
    <3>3. Kept'
      BY <1>2, <2>1, <2>2, <3>2, SavedStay, Zenon
    <3> QED
      BY <1>2, <1>3, <1>4, <2>1, <3>1, <3>3 DEF BridgeRests, CardRests, Flushing
  <2>5. CASE ~Mounts /\ ~Exit
    <3>1. UNCHANGED fd /\ phase' # "exited"
      BY <1>5, <2>5, RaiseFacts, DrainFacts, ReleaseFacts, FinishFacts, AbortFacts,
         LoadFacts, ResetFacts DEF ChangeSteps
    <3>2. \A c \in Cells : OnlyCached(c) => OnlyCached(c)' /\ UNCHANGED <<fd, cacheLba>>
      BY <2>1, <3>1 DEF OnlyCached, Stays, CardRests, BridgeRests
    <3>3. Kept'
      BY <1>2, <2>1, <2>2, <3>2, SavedStay, Zenon
    <3> QED
      BY <1>2, <1>3, <1>4, <2>1, <3>1, <3>3 DEF BridgeRests, CardRests, Flushing
  <2> QED
    BY <2>3, <2>4, <2>5
<1>6. CASE MountPulse \/ HostStores \/ UNCHANGED saveVars
  <2>1. UNCHANGED <<chip, spoiled, cache, wrote, profile, access, at, vAccess, vAt,
                    phase, fd, state, target, allowed, cacheLba, cacheValid,
                    cacheDirty>>
    <3>1. CASE MountPulse
      BY <3>1, Zenon DEF MountPulse, history, hostVars, cardVars, views, judged, lines
    <3>2. CASE HostStores
      BY <3>2, Zenon DEF HostStores, history, cardVars, views, bridgeVars, judged, lines
    <3>3. CASE UNCHANGED saveVars
      BY <3>3, BridgeStutters, HostRests, Zenon DEF HostStays, CardRests, BridgeRests
    <3> QED
      BY <1>6, <3>1, <3>2, <3>3
  <2>2. \A g \in Games : Sidecar(g)' = Sidecar(g)
    <3>1. CASE HostStores
      BY <3>1, SidecarStores, Zenon
    <3>2. CASE MountPulse \/ UNCHANGED saveVars
      <4>1. UNCHANGED <<file, inHand, fd>>
        BY <3>2, Zenon DEF MountPulse, hostVars, saveVars
      <4> QED
        BY <4>1, SidecarRests, Zenon
    <3> QED
      BY <1>6, <3>1, <3>2
  <2>3. \A c \in Cells : OnlyCached(c) => OnlyCached(c)' /\ UNCHANGED <<fd, cacheLba>>
    BY <2>1 DEF OnlyCached, Stays
  <2>4. Kept'
    BY <1>2, <2>1, <2>2, <2>3, SavedStay, Zenon
  <2> QED
    BY <1>2, <1>3, <1>4, <2>1, <2>4 DEF Flushing
<1>7. CASE CartEvent
  <2>1. UNCHANGED <<file, chip, spoiled, inHand, fd, phase, wrote, cache>> /\ edge
    BY <1>7, Zenon DEF CartEvent, history, hostVars
  <2>2. ~wrote /\ phase # "exited"
    BY <2>1 DEF HostInv, CardInv, Changing
  <2>3. \A g \in Games : Sidecar(g)' = Sidecar(g)
    BY <2>1, SidecarRests, Zenon
  <2>4. CASE Flushing \/ (state = "READY" /\ MustFlush)
    <3>1. /\ Flushing'
          /\ UNCHANGED <<target, allowed, cacheLba, cacheValid, cacheDirty>>
          /\ \/ Flushing /\ UNCHANGED state
             \/ state = "READY" /\ MustFlush /\ state' = "FLUSH_REQUEST"
      BY <1>7, <2>4 DEF CartEvent, StartFlush, Flushing
    <3>2. \A c \in Cells : OnlyCached(c) => OnlyCached(c)' /\ UNCHANGED <<fd, cacheLba>>
      BY <2>1, <2>2, <3>1 DEF OnlyCached
    <3>3. Kept'
      BY <1>2, <2>1, <2>3, <3>2, SavedStay, Zenon
    <3> QED
      BY <1>2, <1>3, <1>4, <2>1, <3>1, <3>3 DEF Flushing
  <2>5. CASE ~(Flushing \/ (state = "READY" /\ MustFlush))
    <3>1. ~allowed'
      BY <1>7, <2>5 DEF CartEvent, ResetForNewCart
    <3>2. \A c \in Cells : ~OnlyCached(c)
      BY <2>2, <2>5 DEF OnlyCached, Flushing, MustFlush
    <3>3. Kept'
      BY <1>2, <2>1, <2>3, <3>2, SavedStay, Zenon
    <3> QED
      BY <3>1, <3>3
  <2> QED
    BY <2>4, <2>5
<1>8. CASE BridgeSteps
  <2>1. UNCHANGED <<file, chip, inHand, profile, wrote, access, at, vAccess, vAt>>
    BY <1>8, BridgeStepRests
  <2>2. UNCHANGED <<fd, phase>>
    BY <1>8, HostRests DEF HostStays
  <2>3. \A g \in Games : Sidecar(g)' = Sidecar(g)
    BY <2>1, <2>2, SidecarRests, Zenon
  <2>4. ASSUME Grow, \A c \in Cells : OnlyCached(c) =>
                 \/ OnlyCached(c)' /\ UNCHANGED cacheLba
                 \/ <<fd, cacheLba, c>> \in spoiled'
        PROVE  Kept'
    BY <1>2, <2>1, <2>2, <2>3, <2>4, SavedStay, Zenon DEF Grow
  <2>5. CASE WaitMount \/ ArmProfile
    <3>1. ~allowed /\ UNCHANGED <<allowed, spoiled>>
      BY <2>5, Zenon DEF WaitMount, ArmProfile, JudgeInv, Waiting, around, history
    <3> QED
      BY <1>4, <2>4, <3>1 DEF OnlyCached
  <2>6. CASE JudgeFile
    <3>1. ~allowed /\ ~cacheValid' /\ state' # "LOAD_COMMIT" /\ UNCHANGED spoiled
      BY <2>6 DEF JudgeFile, JudgeInv, Waiting, around, history
    <3> QED
      BY <1>4, <2>4, <3>1 DEF OnlyCached
  <2>7. CASE CacheClear
    <3>1. /\ state = "CACHE_CLEAR" /\ UNCHANGED <<allowed, spoiled>>
          /\ state' = "INIT_REQUEST" \/ (~forInit /\ state' = "READY")
      BY <2>7, Zenon DEF CacheClear, judged, around, history
    <3>2. ~forInit => ~allowed
      BY <3>1 DEF JudgeInv
    <3> QED
      BY <1>4, <2>4, <3>1, <3>2 DEF OnlyCached, Flushing
  <2>8. CASE InitWait
    <3>1. /\ state = "INIT_WAIT" /\ UNCHANGED spoiled
          /\ state' = "INIT_REQUEST" \/ (state' = "READY" /\ ~cacheValid')
      BY <2>8 DEF InitWait, around, history
    <3> QED
      BY <1>4, <2>4, <3>1 DEF OnlyCached, Flushing
  <2>9. CASE Miss
    <3>1. /\ state = "READY" /\ Misses
          /\ UNCHANGED <<cache, allowed, cacheLba, cacheValid, cacheDirty>>
      BY <2>9, Zenon DEF Miss, judged
    <3>2. CASE MustFlush
      <4>1. state' = "FLUSH_REQUEST" /\ UNCHANGED spoiled
        BY <2>9, <3>2 DEF Miss, StartFlush
      <4>2. \A c \in Cells : OnlyCached(c) => OnlyCached(c)'
        BY <2>1, <2>2, <3>1, <4>1 DEF OnlyCached
      <4> QED
        BY <1>2, <1>3, <1>4, <2>1, <2>2, <2>4, <3>1, <4>1, <4>2
    <3>3. CASE ~MustFlush
      <4>1. /\ state' \in {"LOAD_REQUEST", "CACHE_CLEAR"}
            /\ spoiled' = spoiled \cup
                 IF Overtakes THEN {<<game, cacheLba, 2>>} ELSE {}
        BY <2>9, <3>3, Zenon DEF Miss, Fetch
      <4>2. ASSUME NEW c \in Cells, OnlyCached(c)
            PROVE  <<fd, cacheLba, c>> \in spoiled'
        <5>1. /\ wrote /\ profile # NoGame /\ allowed /\ ~cacheDirty
              /\ c = 2 \/ Stays
          BY <3>1, <3>3, <4>2 DEF OnlyCached, MustFlush
        <5>2. ~(cacheValid /\ Stays)
          BY <3>1 DEF Misses, Stays
        <5>3. c = 2 /\ Overtakes
          BY <4>2, <5>1, <5>2 DEF Overtakes, OnlyCached
        <5>4. game = fd
          BY <5>1 DEF CardInv, HostInv
        <5> QED
          BY <4>1, <5>3, <5>4
      <4>3. Grow
        BY <4>1 DEF Grow
      <4>4. Kept'
        BY <2>4, <4>2, <4>3
      <4> QED
        BY <4>1, <4>4 DEF Flushing
    <3> QED
      BY <3>2, <3>3
  <2>10. CASE LoadCommit
    <3>1. /\ state = "LOAD_COMMIT" /\ state' = "READY" /\ cacheLba' = target
          /\ UNCHANGED <<cache, allowed, spoiled>>
      BY <2>10, Zenon DEF LoadCommit, judged, around, history
    <3> QED
      BY <1>2, <1>3, <1>4, <2>1, <2>2, <2>4, <3>1 DEF OnlyCached
  <2>11. CASE FlushWait
    <3>1. state = "FLUSH_WAIT" /\ UNCHANGED <<cache, spoiled>>
      BY <2>11, Zenon DEF FlushWait, around, history
    <3>2. \A c \in Cells : ~OnlyCached(c)
      BY <3>1 DEF OnlyCached
    <3>3. \/ ~allowed'
          \/ state' \in {"LOAD_REQUEST", "CACHE_CLEAR"}
          \/ state' = "READY" /\ UNCHANGED <<allowed, cacheValid, cacheLba>>
      BY <2>11, Zenon DEF FlushWait, ResetForNewCart, Fetch, judged
    <3>4. Kept'
      BY <1>4, <2>4, <3>1, <3>2
    <3> QED
      BY <1>2, <1>3, <1>4, <2>1, <2>2, <3>1, <3>3, <3>4 DEF Flushing
  <2>12. CASE QuietFlush
    <3>1. /\ state = "READY" /\ MustFlush /\ state' = "FLUSH_REQUEST"
          /\ UNCHANGED <<cache, allowed, cacheLba, cacheValid, spoiled>>
      BY <2>12, Zenon DEF QuietFlush, StartFlush, judged, around, history
    <3>2. \A c \in Cells : OnlyCached(c) => OnlyCached(c)'
      BY <2>1, <2>2, <3>1 DEF OnlyCached
    <3>3. Kept'
      BY <1>4, <2>4, <3>1, <3>2
    <3> QED
      BY <1>2, <1>3, <1>4, <2>1, <2>2, <3>1, <3>3
  <2>13. CASE HostReads
    <3>1. /\ inHand = <<>> /\ state = "LOAD_REQUEST" /\ fd \in Games
          /\ cache' = Padded(file[fd])[lba] /\ state' = "LOAD_COMMIT"
          /\ UNCHANGED <<target, spoiled>>
      BY <2>13 DEF HostReads, Serving, TypeInv, Cartridges, around, history
    <3>2. lba = target /\ target \in Sectors
      BY <3>1, Constants DEF JudgeInv, Fetching
    <3>3. \A c \in Cells : ~OnlyCached(c)
      BY <3>1 DEF OnlyCached
    <3>4. \A c \in Cells : <<fd, lba, c>> \in spoiled \/ Saved(fd, lba, c)
      BY <1>2, <3>1, <3>2, <3>3, Zenon DEF Kept
    <3>5. \A c \in Cells :
            <<fd, lba, c>> \in spoiled \/ Padded(file[fd])[lba][c] = chip[fd][lba][c]
      BY <3>1, <3>4, Zenon DEF Saved, Sidecar
    <3>6. Mirrors(target)'
      BY <2>1, <2>2, <3>1, <3>2, <3>5 DEF Mirrors
    <3>7. Kept'
      BY <1>4, <2>4, <3>1, <3>3
    <3> QED
      BY <3>1, <3>6, <3>7 DEF Flushing
  <2> QED
    BY <1>8, <2>5, <2>6, <2>7, <2>8, <2>9, <2>10, <2>11, <2>12, <2>13 DEF BridgeSteps
<1>9. CASE CardSteps /\ ~EraseStep /\ ~CardWrites
  <2>1. /\ UNCHANGED <<file, inHand, state, target, allowed, cacheLba, cacheValid>>
        /\ UNCHANGED <<fd, phase>>
    BY <1>9, CardStepRests, HostRests DEF HostStays
  <2>2. UNCHANGED <<chip, cache, spoiled>>
    BY <1>9, Zenon DEF CardSteps, CardArrives, ReadyArrives, WriteArrives, ResetCard,
       CardCloses, CardReads, PublishProfile, CardOpens, CardErases, history
  <2>3. \A g \in Games : Sidecar(g)' = Sidecar(g)
    BY <2>1, SidecarRests, Zenon
  <2>4. /\ cacheDirty => cacheDirty'
        /\ wrote /\ profile # NoGame =>
             cacheDirty' \/ (wrote' /\ profile' # NoGame /\ (Stays => Stays'))
    <3>1. CASE CardArrives \/ ReadyArrives \/ CardCloses
      <4>1. /\ UNCHANGED <<profile, wrote, cacheDirty>>
            /\ \/ UNCHANGED <<access, at>> /\ vAccess' = access /\ vAt' = at
               \/ UNCHANGED <<access, at, vAccess, vAt>>
               \/ ~access' /\ UNCHANGED <<vAccess, vAt>>
        BY <3>1, Zenon DEF CardArrives, ReadyArrives, CardCloses, cardVars, views,
           bridgeVars, lines
      <4> QED
        BY <2>1, <4>1 DEF Stays
    <3>2. CASE WriteArrives
      BY <3>2, Zenon DEF WriteArrives
    <3>3. CASE ResetCard \/ CardOpens \/ CardReads \/ CardErases
      <4>1. UNCHANGED cacheDirty /\ ~wrote
        BY <3>3, Zenon DEF ResetCard, CardOpens, CardReads, CardErases, Settled,
           bridgeVars, lines
      <4> QED
        BY <4>1
    <3>4. CASE PublishProfile
      <4>1. UNCHANGED cacheDirty /\ profile = NoGame
        BY <3>4, Zenon DEF PublishProfile, bridgeVars, lines
      <4> QED
        BY <4>1
    <3> QED
      BY <1>9, <3>1, <3>2, <3>3, <3>4 DEF CardSteps
  <2>5. \A c \in Cells : OnlyCached(c) => OnlyCached(c)' /\ UNCHANGED <<fd, cacheLba>>
    BY <2>1, <2>4 DEF OnlyCached
  <2>6. Kept'
    BY <1>2, <2>2, <2>3, <2>5, SavedStay, Zenon
  <2> QED
    BY <1>2, <1>3, <1>4, <2>1, <2>2, <2>6 DEF Flushing
<1>10. CASE EraseStep \/ CardWrites
  BY <1>10, WriterKeeps DEF ContentInv
<1>11. CASE HostTakes
  <2>1. /\ UNCHANGED <<chip, spoiled, fd, cache, target, allowed, cacheLba, cacheValid>>
        /\ \/ state = "FLUSH_REQUEST" /\ state' = "FLUSH_WAIT"
           \/ state = "INIT_REQUEST" /\ state' = "INIT_WAIT"
    BY <1>11, Zenon DEF HostTakes, history, judged, lines
  <2>2. Cached
    BY <1>2, <1>3, <1>4, <2>1 DEF Flushing
  <2> QED
    BY <1>11, <2>2, TakenIsKept
<1> QED
  BY <1>5, <1>6, <1>7, <1>8, <1>9, <1>10, <1>11, Steps DEF CardSteps

\* The initial states satisfy the invariant.
LEMMA InitBridgeInv ==
  ASSUME BridgeInit
  PROVE  BridgeInv
<1> USE DEF BridgeInit
<1>1. PICK len \in Lengths : file = [g \in Games |-> [s \in 1 .. len[g] |-> Old]]
  OBVIOUS
<1>2. ASSUME NEW g \in Games
      PROVE  file[g] \in Seq(Sector) /\ Padded(file[g]) \in [Sectors -> Sector]
  <2>1. len[g] \in Nat /\ file[g] = [s \in 1 .. len[g] |-> Old]
    BY <1>1, SaveBridgeAssumption
  <2>2. file[g] \in Seq(Sector)
    <3>1. Old \in Sector
      BY Constants
    <3>2. file[g] \in [1 .. len[g] -> Sector]
      BY <2>1, <3>1
    <3> QED
      BY <2>1, <3>2
  <2>3. \A s \in Sectors : s <= Len(file[g]) => file[g][s] \in Sector
    BY <2>2 DEF Sectors
  <2> QED
    BY <2>2, <2>3, Constants DEF Padded
<1>3. HostTypes
  <2>1. file \in [Games -> Seq(Sector)] /\ chip \in [Games -> [Sectors -> Sector]]
    BY <1>1, <1>2
  <2> QED
    BY <2>1 DEF Cartridges
<1>4. CardTypes /\ BridgeTypes
  BY Constants DEF Cartridges, Cells
<1>5. HostInv /\ CardInv
  BY DEF HostInv, CardInv, Changing
<1>6. ChangeInv
  BY SaveBridgeAssumption DEF ChangeInv, Waiting, Flushing
<1>7. JudgeInv /\ FileInv /\ ReadyInv
  BY DEF JudgeInv, FileInv, ReadyInv, Waiting, Creating, Flushing, Fetching
<1>8. EraseInv /\ NoticeInv
  BY DEF EraseInv, NoticeInv, OnlyAtTheEnds
<1>9. ContentInv
  <2>1. ASSUME NEW g \in Games, NEW s \in Sectors, NEW c \in Cells
        PROVE  Saved(g, s, c)
    BY Zenon DEF Saved, Sidecar
  <2> QED
    BY <2>1 DEF ContentInv, Kept, Flushing
<1> QED
  BY <1>3, <1>4, <1>5, <1>6, <1>7, <1>8, <1>9 DEF BridgeInv, TypeInv

\* Every step keeps the invariant.
LEMMA BridgeInvStep ==
  ASSUME BridgeInv, [BridgeNext]_saveVars
  PROVE  BridgeInv'
<1>1. /\ TypeInv /\ HostInv /\ CardInv /\ ChangeInv
      /\ JudgeInv /\ FileInv /\ ReadyInv /\ EraseInv /\ NoticeInv /\ ContentInv
  BY Zenon DEF BridgeInv
<1>2. TypeInv'
  BY <1>1, HostTypesStep, CardTypesStep, BridgeTypesStep, Zenon DEF TypeInv
<1>3. HostInv' /\ CardInv'
  BY <1>1, HostStep, CardStep, Zenon
<1>4. ChangeInv' /\ JudgeInv' /\ FileInv'
  BY <1>1, ChangeStep, JudgeStep, FileStep, Zenon
<1>5. ReadyInv' /\ EraseInv' /\ NoticeInv'
  BY <1>1, ReadyStep, EraseRuns, NoticeStep, Zenon
<1>6. ContentInv'
  BY <1>1, ContentStep, Zenon
<1> QED
  BY <1>2, <1>3, <1>4, <1>5, <1>6, Zenon DEF BridgeInv

\* The inductive invariant of the save bridge holds in every reachable state.
THEOREM BridgeInvariant == BridgeSpec => []BridgeInv
  BY InitBridgeInv, BridgeInvStep, PTL DEF BridgeSpec

\* With the invariant nothing else is lost: what is only cached is marked to
\* be flushed.
LEMMA NothingIsLost ==
  ASSUME BridgeInv
  PROVE  NothingLost
<1>1. TypeInv /\ FileInv /\ ContentInv
  BY Zenon DEF BridgeInv
<1>2. SUFFICES ASSUME NEW g \in Games, NEW s \in Sectors, NEW c \in Cells,
                      <<g, s, c>> \notin spoiled
               PROVE  \/ Padded(file[g])[s][c] = chip[g][s][c]
                      \/ InCache(g, s, c)
                      \/ InHand(g, s, c)
  BY Zenon DEF NothingLost
<1>3. CASE g = fd /\ s = cacheLba /\ OnlyCached(c)
  <2>1. state \in {"READY", "FLUSH_REQUEST"} /\ allowed /\ cacheValid
    BY <1>3 DEF OnlyCached
  <2>2. cache[c] = chip[fd][cacheLba][c]
    BY <1>1, <1>2, <1>3, <2>1 DEF ContentInv, Mirrors, Flushing
  <2> QED
    BY <1>3, <2>2 DEF OnlyCached, InCache, Flushing
<1>4. CASE Saved(g, s, c) /\ ~(inHand # <<>> /\ fd = g)
  BY <1>4, Zenon DEF Saved, Sidecar
<1>5. CASE Saved(g, s, c) /\ inHand # <<>> /\ fd = g
  <2>1. Padded(Stored(file[g], inHand[1], inHand[2]))[s][c] = chip[g][s][c]
    BY <1>5, Zenon DEF Saved, Sidecar
  <2>2. /\ file[g] \in Seq(Sector) /\ inHand[2] \in Sector
        /\ inHand[1] \in 1 .. Len(file[g]) + 1
    BY <1>1, <1>5, Constants DEF FileInv, TypeInv
  <2>3. Padded(Stored(file[g], inHand[1], inHand[2]))[s] =
          IF s = inHand[1] THEN inHand[2] ELSE Padded(file[g])[s]
    BY <2>2, PaddedStored
  <2> QED
    BY <1>5, <2>1, <2>3 DEF InHand
<1> QED
  BY <1>1, <1>2, <1>3, <1>4, <1>5, Zenon DEF ContentInv, Kept

\* With the invariant a chip that lasts reads back what was commanded, but
\* for the lost bytes.
LEMMA CacheReadsBack ==
  ASSUME BridgeInv
  PROVE  ReadsBack
<1>1. SUFFICES ASSUME Ready, allowed, game # NoGame, ~ConsoleReset
               PROVE  Mirrors(cacheLba) /\ cacheLba = vAt /\ fd = game
  BY Zenon DEF ReadsBack, Mirrors
<1>2. state = "READY" /\ cacheValid /\ cacheLba = vAt
  BY <1>1 DEF Ready
<1>3. fd = game
  BY <1>1 DEF BridgeInv, HostInv, ConsoleReset
<1> QED
  BY <1>1, <1>2, <1>3 DEF BridgeInv, ContentInv

\* What a game commands to a chip that lasts is in its file, or in the cache
\* and marked to be flushed, or in the host's hand; and it reads back.
\* Excepted are the bytes that card and bridge lose: first bytes of further
\* sectors, of flash chips only, and last bytes of sectors, of the other
\* chips only.
THEOREM SaveIsKept == BridgeSpec => []SaveKept
<1>1. BridgeInv => OnlyAtTheEnds
  BY Zenon DEF BridgeInv, NoticeInv
<1>2. BridgeInv => SaveKept
  BY <1>1, NothingIsLost, CacheReadsBack, Zenon DEF SaveKept
<1> QED
  BY <1>2, BridgeInvariant, PTL

\* The action of WrongSizeUntouched.
FileIsRespected ==
  \A g \in Games :
    /\ (fd = g /\ queuedLen \notin {0, Size[g]} /\ ~Short(g, queuedLen))
         => file'[g] = file[g]
    /\ Len(file[g]) = Size[g] => Len(file'[g]) = Size[g]

\* Only a store changes a file, and it is made to files that the bridge has
\* accepted.
LEMMA StoreRespectsFile ==
  ASSUME BridgeInv, [BridgeNext]_saveVars
  PROVE  [FileIsRespected]_file
<1>1. TypeInv /\ FileInv
  BY Zenon DEF BridgeInv
<1>2. CASE ~HostStores
  <2>1. UNCHANGED file
    BY <1>2, Steps, CardStepRests, BridgeStepRests, ChangeRests, BridgeStutters,
       Zenon DEF HostTakes
  <2> QED
    BY <2>1
<1>3. CASE HostStores
  <2>1. /\ inHand # <<>>
        /\ file' = [file EXCEPT ![fd] = Stored(@, inHand[1], inHand[2])]
    BY <1>3, Zenon DEF HostStores
  <2>2. /\ fd \in Games /\ Acceptable /\ file[fd] \in Seq(Sector)
        /\ inHand[1] \in Nat \ {0} /\ inHand[1] <= Size[fd] /\ inHand[2] \in Sector
    BY <1>1, <2>1, Constants DEF FileInv, TypeInv
  <2>3. ASSUME NEW g \in Games
        PROVE  /\ (fd = g /\ queuedLen \notin {0, Size[g]} /\ ~Short(g, queuedLen))
                    => file'[g] = file[g]
               /\ Len(file[g]) = Size[g] => Len(file'[g]) = Size[g]
    <3>1. CASE g # fd
      BY <1>1, <2>1, <3>1 DEF TypeInv
    <3>2. CASE g = fd
      <4>1. file'[g] = Stored(file[fd], inHand[1], inHand[2])
        BY <1>1, <2>1, <3>2 DEF TypeInv
      <4>2. Len(file'[g]) = IF inHand[1] > Len(file[fd]) THEN inHand[1]
                            ELSE Len(file[fd])
        <5>1. Len(Stored(file[fd], inHand[1], inHand[2])) =
                IF inHand[1] > Len(file[fd]) THEN inHand[1] ELSE Len(file[fd])
          BY <2>2, StoredFacts
        <5> QED
          BY <4>1, <5>1
      <4>3. Len(file[g]) = Size[g] => Len(file'[g]) = Size[g]
        BY <2>2, <3>2, <4>2
      <4> QED
        BY <2>2, <3>2, <4>3 DEF Acceptable
    <3> QED
      BY <3>1, <3>2
  <2> QED
    BY <2>3 DEF FileIsRespected
<1> QED
  BY <1>2, <1>3

\* A file of a wrong size is never touched, and a file that has the size of
\* its chip keeps it.
THEOREM FilesAreRespected == BridgeSpec => WrongSizeUntouched
<1>1. BridgeSpec => [][FileIsRespected]_file
  BY BridgeInvariant, StoreRespectsFile, PTL DEF BridgeSpec
<1> QED
  BY <1>1, PTL DEF WrongSizeUntouched, FileIsRespected

(* The file of every game whose file is not open is complete, and once the *)
(* host has ended, so are all (host.cpp load and the end of run): but for  *)
(* the bytes that are lost at the ends of sectors.                         *)
FilesComplete ==
  \A g \in Games, s \in Sectors, c \in Cells :
    <<g, s, c>> \notin spoiled /\ (g # fd \/ phase = "exited")
      => Padded(file[g])[s][c] = chip[g][s][c]

EmptyHanded == phase = "exited" => inHand = <<>>

\* A host that has ended takes no sector any more.
LEMMA EmptyHandedStep ==
  ASSUME EmptyHanded, [BridgeNext]_saveVars
  PROVE  EmptyHanded'
<1> USE DEF EmptyHanded
<1>1. CASE ChangeSteps
  BY <1>1, ChangeRests
<1>2. CASE CardSteps \/ BridgeSteps \/ CartEvent \/ MountPulse \/ UNCHANGED saveVars
  <2>1. UNCHANGED <<phase, inHand>>
    <3>1. CASE CartEvent \/ MountPulse
      BY <3>1, Zenon DEF CartEvent, MountPulse, hostVars
    <3>2. CASE ~(CartEvent \/ MountPulse)
      BY <1>2, <3>2, HostRests, CardStepRests, BridgeStepRests, BridgeStutters, Zenon
      DEF HostStays
    <3> QED
      BY <3>1, <3>2
  <2> QED
    BY <2>1
<1>3. CASE HostTakes
  BY <1>3, Zenon DEF HostTakes, Serving
<1>4. CASE HostStores
  BY <1>4, Zenon DEF HostStores
<1> QED
  BY <1>1, <1>2, <1>3, <1>4, Steps

\* Whatever was commanded to a game that lasts, but for those bytes, is in
\* its file as soon as that file is not open any more, and at the latest when
\* the host has ended.
THEOREM FilesAreComplete == BridgeSpec => []FilesComplete
<1>1. BridgeInit => EmptyHanded
  BY DEF BridgeInit, EmptyHanded
<1>2. BridgeSpec => []EmptyHanded
  BY <1>1, EmptyHandedStep, PTL DEF BridgeSpec
<1>3. BridgeInv /\ EmptyHanded => FilesComplete
  <2>1. SUFFICES ASSUME BridgeInv, EmptyHanded, NEW g \in Games, NEW s \in Sectors,
                        NEW c \in Cells, <<g, s, c>> \notin spoiled,
                        g # fd \/ phase = "exited"
                 PROVE  Padded(file[g])[s][c] = chip[g][s][c]
    BY Zenon DEF FilesComplete
  <2>2. ~InCache(g, s, c) /\ ~InHand(g, s, c)
    BY <2>1 DEF InCache, InHand, EmptyHanded
  <2> QED
    BY <2>1, <2>2, NothingIsLost, Zenon DEF NothingLost
<1> QED
  BY <1>2, <1>3, BridgeInvariant, PTL

-----------------------------------------------------------------------------
(***************************************************************************)
(* SaveManager.                                                            *)
(***************************************************************************)
USE DEF Image, File, WorkerPC, OwnerPC, CommitSteps, BeforeRename, AfterRename

\* The initial state satisfies the invariant.
LEMMA InitSaveInv == Init => SaveInv
<1> SUFFICES ASSUME Init PROVE SaveInv
  OBVIOUS
<1>1. FlagsOK
  BY Zenon DEF Init, FlagsOK
<1>2. TypeOK
  BY <1>1, SaveAssumption DEF Init, TypeOK
<1> QED
  BY <1>2, SaveAssumption
  DEF Init, SaveInv, PhaseInv, GenerationInv, CommitInv, DiskInv, NeverTorn,
      PromiseKept

\* Every step keeps the flags Boolean.
LEMMA FlagsStep == FlagsOK /\ [Next]_vars => FlagsOK'
<1> SUFFICES ASSUME FlagsOK, [Next]_vars PROVE FlagsOK'
  OBVIOUS
<1> USE DEF FlagsOK, FreshManager, written, orders, done, commit
<1>1. CASE Owner
  <2>1. CASE Open \/ RequestWrite
    BY <2>1, Zenon DEF Open, RequestWrite
  <2>2. CASE FlushAtOnce \/ FlushRequest
    BY <2>2, Zenon DEF FlushAtOnce, FlushRequest
  <2>3. CASE ShutdownRequest \/ Destroy
    BY <2>3, Zenon DEF ShutdownRequest, Destroy
  <2>4. CASE OwnerReturns
    BY <2>4, Zenon DEF OwnerReturns, FlushReturn, FlushBlock, ShutdownReturn
  <2> QED
    BY <1>1, <2>1, <2>2, <2>3, <2>4, Zenon DEF Owner
<1>2. CASE WorkerIdle \/ WorkerDebounce \/ Commit
  <2>1. CASE WorkerIdle \/ WorkerDebounce
    BY <2>1, Zenon DEF WorkerIdle, WorkerDebounce, WorkerMoves
  <2>2. CASE CreateTemp \/ WriteSome \/ WriteRest \/ SyncTemp
    BY <2>2, Zenon DEF WorkerMoves, CreateTemp, WriteSome, WriteRest, SyncTemp
  <2>3. CASE CloseTemp \/ RenameTemp \/ OpenDirectory
    BY <2>3, Zenon DEF WorkerMoves, CloseTemp, RenameTemp, OpenDirectory
  <2>4. CASE SyncDirectory \/ CloseDirectory
    BY <2>4, Zenon DEF WorkerMoves, SyncDirectory, CloseDirectory
  <2> QED
    BY <1>2, <2>1, <2>2, <2>3, <2>4, Zenon DEF Commit
<1>3. CASE WorkerStopClean \/ WorkerSnapshot
  BY <1>3, Zenon DEF WorkerStopClean, WorkerSnapshot
<1>4. CASE WorkerReport
  BY <1>4, Zenon DEF WorkerReport
<1>5. CASE Fault
  BY <1>5, Zenon DEF Fault, RejectWrite, WorkerSnapshotFails, CommitFails
<1>6. CASE Kill \/ PowerLoss
  BY <1>6, Zenon DEF Kill, PowerLoss, Die
<1>7. CASE UNCHANGED vars
  BY <1>7, Zenon DEF vars
<1> QED
  BY <1>1, <1>2, <1>3, <1>4, <1>5, <1>6, <1>7 DEF Next, Worker

\* Every step keeps the types.
LEMMA TypeStep == SaveInv /\ [Next]_vars => TypeOK'
<1> SUFFICES ASSUME TypeOK, GenerationInv, [Next]_vars
             PROVE  TypeOK'
  BY DEF SaveInv
<1> FlagsOK'
  BY FlagsStep DEF TypeOK
<1> USE SaveAssumption DEF TypeOK, FreshManager, WakeWorker, WakeOwner, written,
        orders, done, commit, request, files, told, bounds
<1>1. CASE Open  BY <1>1 DEF Open
<1>2. CASE RequestWrite  BY <1>2 DEF RequestWrite
<1>3. CASE RejectWrite  BY <1>3 DEF RejectWrite
<1>4. CASE FlushAtOnce  BY <1>4 DEF FlushAtOnce, Answer
<1>5. CASE FlushRequest  BY <1>5 DEF FlushRequest, AttemptsSoFar
<1>6. CASE FlushReturn  BY <1>6 DEF FlushReturn, Answer
<1>7. CASE FlushBlock  BY <1>7 DEF FlushBlock
<1>8. CASE ShutdownRequest  BY <1>8 DEF ShutdownRequest
<1>9. CASE ShutdownReturn  BY <1>9 DEF ShutdownReturn, Answer
<1>10. CASE Destroy  BY <1>10 DEF Destroy
<1>11. CASE WorkerIdle  BY <1>11 DEF WorkerIdle, WorkerMoves
<1>12. CASE WorkerDebounce  BY <1>12 DEF WorkerDebounce, WorkerMoves
<1>13. CASE WorkerStopClean  BY <1>13 DEF WorkerStopClean
<1>14. CASE WorkerSnapshot  BY <1>14 DEF WorkerSnapshot, TakenSnapshot
<1>15. CASE WorkerSnapshotFails  BY <1>15 DEF WorkerSnapshotFails
<1>16. CASE Commit
  <2>1. CASE RenameTemp
    <3>1. [image |-> snapshot, whole |-> TRUE] \in File
      OBVIOUS
    <3>2. [image |-> snapshot, whole |-> FALSE] \in File
      OBVIOUS
    <3>3. \A b : [image |-> snapshot, whole |-> (b = "synced")] \in File
      <4> TAKE b
      <4>1. (b = "synced") = TRUE \/ (b = "synced") = FALSE
        OBVIOUS
      <4> QED
        BY ONLY <3>1, <3>2, <4>1, Zenon
    <3>4. [image |-> snapshot, whole |-> tmp \in {"whole", "synced"}] \in File
      <4>1. (tmp \in {"whole", "synced"}) = TRUE \/ (tmp \in {"whole", "synced"}) = FALSE
        OBVIOUS
      <4> QED
        BY ONLY <3>1, <3>2, <4>1, Zenon
    <3>5. sav' \in File /\ survivors' \subseteq File
      BY ONLY <2>1, <3>3, <3>4, TypeOK, Zenon DEF RenameTemp, TypeOK
    <3> QED
      BY <2>1, <3>5 DEF RenameTemp, WorkerMoves
  <2>2. CASE CreateTemp \/ WriteSome \/ WriteRest \/ SyncTemp \/ CloseTemp
    BY <2>2 DEF CreateTemp, WriteSome, WriteRest, SyncTemp, CloseTemp, WorkerMoves
  <2>3. CASE OpenDirectory \/ SyncDirectory \/ CloseDirectory
    BY <2>3 DEF OpenDirectory, SyncDirectory, CloseDirectory, WorkerMoves
  <2> QED
    BY <1>16, <2>1, <2>2, <2>3 DEF Commit
<1>17. CASE CommitFails  BY <1>17 DEF CommitFails
<1>18. CASE WorkerReport  BY <1>18 DEF WorkerReport, WorkerStops, CommitCleans
<1>19. CASE Kill  BY <1>19 DEF Kill, Die
<1>20. CASE PowerLoss  BY <1>20 DEF PowerLoss, Die
<1>21. CASE UNCHANGED vars  BY <1>21 DEF vars
<1> QED
  BY <1>1, <1>2, <1>3, <1>4, <1>5, <1>6, <1>7, <1>8, <1>9, <1>10, <1>11, <1>12,
     <1>13, <1>14, <1>15, <1>16, <1>17, <1>18, <1>19, <1>20, <1>21
  DEF Next, Owner, OwnerReturns, Worker, Fault

\* Every step keeps the phases of the two threads.
LEMMA PhaseStep == SaveInv /\ [Next]_vars => PhaseInv'
<1> SUFFICES ASSUME FlagsOK, FlagsOK', PhaseInv, TypeOK, [Next]_vars
             PROVE  PhaseInv'
  BY TypeStep DEF SaveInv, TypeOK
<1> USE DEF FlagsOK, PhaseInv, FreshManager, WakeWorker, WakeOwner, written, orders,
        done, commit, request
<1>1. CASE Open  BY <1>1 DEF Open
<1>2. CASE RequestWrite  BY <1>2 DEF RequestWrite
<1>3. CASE RejectWrite  BY <1>3 DEF RejectWrite
<1>4. CASE FlushAtOnce  BY <1>4 DEF FlushAtOnce
<1>5. CASE FlushRequest  BY <1>5 DEF FlushRequest
<1>6. CASE FlushReturn  BY <1>6 DEF FlushReturn
<1>7. CASE FlushBlock  BY <1>7 DEF FlushBlock
<1>8. CASE ShutdownRequest  BY <1>8 DEF ShutdownRequest
<1>9. CASE ShutdownReturn  BY <1>9 DEF ShutdownReturn
<1>10. CASE Destroy  BY <1>10 DEF Destroy
<1>11. CASE WorkerIdle  BY <1>11 DEF WorkerIdle, WorkerMoves
<1>12. CASE WorkerDebounce  BY <1>12 DEF WorkerDebounce, WorkerMoves
<1>13. CASE WorkerStopClean  BY <1>13 DEF WorkerStopClean, TypeOK
<1>14. CASE WorkerSnapshot  BY <1>14 DEF WorkerSnapshot, MayCommit
<1>15. CASE WorkerSnapshotFails  BY <1>15 DEF WorkerSnapshotFails, MayCommit, TypeOK
<1>16. CASE Commit
  BY <1>16 DEF Commit, CreateTemp, WriteSome, WriteRest, SyncTemp, CloseTemp,
     RenameTemp, OpenDirectory, SyncDirectory, CloseDirectory, WorkerMoves
<1>17. CASE CommitFails  BY <1>17 DEF CommitFails
<1>18. CASE WorkerReport  BY <1>18 DEF WorkerReport, WorkerStops, CommitCleans, TypeOK
<1>19. CASE Kill  BY <1>19 DEF Kill, Die
<1>20. CASE PowerLoss  BY <1>20 DEF PowerLoss, Die
<1>21. CASE UNCHANGED vars  BY <1>21 DEF vars
<1> QED
  BY <1>1, <1>2, <1>3, <1>4, <1>5, <1>6, <1>7, <1>8, <1>9, <1>10, <1>11, <1>12,
     <1>13, <1>14, <1>15, <1>16, <1>17, <1>18, <1>19, <1>20, <1>21
  DEF Next, Owner, OwnerReturns, Worker, Fault

\* Every step keeps the generations and the session's images in step.
LEMMA GenerationStep == SaveInv /\ [Next]_vars => GenerationInv'
<1> SUFFICES ASSUME SaveInv, TypeOK', [Next]_vars
             PROVE  GenerationInv'
  BY TypeStep
<1> USE SaveAssumption DEF SaveInv, TypeOK, PhaseInv, GenerationInv, DiskInv,
        FreshManager, WakeOwner, written, orders, done, commit, request, files, told, bounds
<1>1. CASE Open  BY <1>1 DEF Open
<1>2. CASE RequestWrite  BY <1>2 DEF RequestWrite
<1>3. CASE RejectWrite  BY <1>3 DEF RejectWrite
<1>4. CASE FlushAtOnce  BY <1>4 DEF FlushAtOnce
<1>5. CASE FlushRequest  BY <1>5 DEF FlushRequest
<1>6. CASE FlushReturn  BY <1>6 DEF FlushReturn
<1>7. CASE FlushBlock  BY <1>7 DEF FlushBlock
<1>8. CASE ShutdownRequest  BY <1>8 DEF ShutdownRequest
<1>9. CASE ShutdownReturn  BY <1>9 DEF ShutdownReturn
<1>10. CASE Destroy  BY <1>10 DEF Destroy
<1>11. CASE WorkerIdle  BY <1>11 DEF WorkerIdle, WorkerMoves
<1>12. CASE WorkerDebounce  BY <1>12 DEF WorkerDebounce, WorkerMoves
<1>13. CASE WorkerStopClean  BY <1>13 DEF WorkerStopClean
<1>14. CASE WorkerSnapshot  BY <1>14 DEF WorkerSnapshot, TakenSnapshot
<1>15. CASE WorkerSnapshotFails  BY <1>15 DEF WorkerSnapshotFails
<1>16. CASE Commit
  BY <1>16 DEF Commit, CreateTemp, WriteSome, WriteRest, SyncTemp, CloseTemp,
     RenameTemp, OpenDirectory, SyncDirectory, CloseDirectory, WorkerMoves
<1>17. CASE CommitFails  BY <1>17 DEF CommitFails
<1>18. CASE WorkerReport
  <2>1. dirty /\ ~flushInProgress' /\ generation' = generation
    BY <1>18 DEF WorkerReport
  <2>2. CASE success
    <3>1. committedGeneration' = IF committedGeneration < snapshotGeneration
                                   THEN snapshotGeneration ELSE committedGeneration
      BY <1>18, <2>2 DEF WorkerReport
    <3>2. dirty' <=> generation # snapshotGeneration
      BY <1>18, <2>1, <2>2 DEF WorkerReport, CommitCleans
    <3> QED
      BY <1>18, <2>1, <3>1, <3>2 DEF WorkerReport
  <2>3. CASE ~success
    <3>1. committedGeneration' = committedGeneration /\ dirty'
      BY <1>18, <2>1, <2>3 DEF WorkerReport, CommitCleans
    <3> QED
      BY <1>18, <2>1, <3>1 DEF WorkerReport
  <2> QED
    BY <2>2, <2>3
<1>19. CASE Kill  BY <1>19 DEF Kill, Die
<1>20. CASE PowerLoss  BY <1>20 DEF PowerLoss, Die
<1>21. CASE UNCHANGED vars  BY <1>21 DEF vars
<1> QED
  BY <1>1, <1>2, <1>3, <1>4, <1>5, <1>6, <1>7, <1>8, <1>9, <1>10, <1>11, <1>12,
     <1>13, <1>14, <1>15, <1>16, <1>17, <1>18, <1>19, <1>20, <1>21
  DEF Next, Owner, OwnerReturns, Worker, Fault

\* Every step keeps what the system calls of a commit have brought about.
LEMMA CommitStep == SaveInv /\ [Next]_vars => CommitInv'
<1> SUFFICES ASSUME SaveInv, TypeOK', [Next]_vars
             PROVE  CommitInv'
  BY TypeStep
<1> USE SaveAssumption DEF SaveInv, TypeOK, PhaseInv, CommitInv, WakeWorker,
        FreshManager, written, orders, done, commit, request, files, told, bounds
<1>1. CASE Open  BY <1>1 DEF Open
<1>2. CASE RequestWrite  BY <1>2 DEF RequestWrite
<1>3. CASE RejectWrite  BY <1>3 DEF RejectWrite
<1>4. CASE FlushAtOnce  BY <1>4 DEF FlushAtOnce, Answer
<1>5. CASE FlushRequest  BY <1>5 DEF FlushRequest
<1>6. CASE FlushReturn  BY <1>6 DEF FlushReturn, Answer, FlushSucceeds
<1>7. CASE FlushBlock  BY <1>7 DEF FlushBlock
<1>8. CASE ShutdownRequest  BY <1>8 DEF ShutdownRequest
<1>9. CASE ShutdownReturn  BY <1>9 DEF ShutdownReturn, Answer
<1>10. CASE Destroy  BY <1>10 DEF Destroy
<1>11. CASE WorkerIdle  BY <1>11 DEF WorkerIdle, WorkerMoves
<1>12. CASE WorkerDebounce  BY <1>12 DEF WorkerDebounce, WorkerMoves
<1>13. CASE WorkerStopClean  BY <1>13 DEF WorkerStopClean
<1>14. CASE WorkerSnapshot  BY <1>14 DEF WorkerSnapshot, MayCommit, TakenSnapshot
<1>15. CASE WorkerSnapshotFails  BY <1>15 DEF WorkerSnapshotFails, MayCommit
<1>16. CASE Commit
  BY <1>16 DEF Commit, CreateTemp, WriteSome, WriteRest, SyncTemp, CloseTemp,
     RenameTemp, OpenDirectory, SyncDirectory, CloseDirectory, WorkerMoves
<1>17. CASE CommitFails  BY <1>17 DEF CommitFails
<1>18. CASE WorkerReport  BY <1>18 DEF WorkerReport, CommitCleans
<1>19. CASE Kill  BY <1>19 DEF Kill, Die
<1>20. CASE PowerLoss  BY <1>20 DEF PowerLoss, Die
<1>21. CASE UNCHANGED vars  BY <1>21 DEF vars
<1> QED
  BY <1>1, <1>2, <1>3, <1>4, <1>5, <1>6, <1>7, <1>8, <1>9, <1>10, <1>11, <1>12,
     <1>13, <1>14, <1>15, <1>16, <1>17, <1>18, <1>19, <1>20, <1>21
  DEF Next, Owner, OwnerReturns, Worker, Fault

\* Every step keeps the relation of the file to the images in memory.
LEMMA DiskStep == SaveInv /\ [Next]_vars => DiskInv'
<1> SUFFICES ASSUME SaveInv, TypeOK', GenerationInv', [Next]_vars
             PROVE  DiskInv'
  BY TypeStep, GenerationStep
<1> USE SaveAssumption DEF SaveInv, TypeOK, PhaseInv, GenerationInv, CommitInv,
        DiskInv, NeverTorn, FreshManager, written, orders, done, commit, request,
        files, told, bounds
<1>1. CASE Open  BY <1>1 DEF Open
<1>2. CASE RequestWrite  BY <1>2 DEF RequestWrite
<1>3. CASE RejectWrite  BY <1>3 DEF RejectWrite
<1>4. CASE FlushAtOnce  BY <1>4 DEF FlushAtOnce, Answer
<1>5. CASE FlushRequest  BY <1>5 DEF FlushRequest
<1>6. CASE FlushReturn  BY <1>6 DEF FlushReturn, Answer, FlushSucceeds
<1>7. CASE FlushBlock  BY <1>7 DEF FlushBlock
<1>8. CASE ShutdownRequest  BY <1>8 DEF ShutdownRequest
<1>9. CASE ShutdownReturn  BY <1>9 DEF ShutdownReturn, Answer
<1>10. CASE Destroy  BY <1>10 DEF Destroy
<1>11. CASE WorkerIdle  BY <1>11 DEF WorkerIdle, WorkerMoves
<1>12. CASE WorkerDebounce  BY <1>12 DEF WorkerDebounce, WorkerMoves
<1>13. CASE WorkerStopClean  BY <1>13 DEF WorkerStopClean
<1>14. CASE WorkerSnapshot  BY <1>14 DEF WorkerSnapshot, MayCommit, TakenSnapshot
<1>15. CASE WorkerSnapshotFails  BY <1>15 DEF WorkerSnapshotFails, MayCommit
<1>16. CASE Commit
  BY <1>16 DEF Commit, CreateTemp, WriteSome, WriteRest, SyncTemp, CloseTemp,
     RenameTemp, OpenDirectory, SyncDirectory, CloseDirectory, WorkerMoves
<1>17. CASE CommitFails  BY <1>17 DEF CommitFails
<1>18. CASE WorkerReport  BY <1>18 DEF WorkerReport, CommitCleans
<1>19. CASE Kill  BY <1>19 DEF Kill, Die
<1>20. CASE PowerLoss  BY <1>20 DEF PowerLoss, Die
<1>21. CASE UNCHANGED vars  BY <1>21 DEF vars
<1> QED
  BY <1>1, <1>2, <1>3, <1>4, <1>5, <1>6, <1>7, <1>8, <1>9, <1>10, <1>11, <1>12,
     <1>13, <1>14, <1>15, <1>16, <1>17, <1>18, <1>19, <1>20, <1>21
  DEF Next, Owner, OwnerReturns, Worker, Fault

\* Every step keeps the promise.
LEMMA PromiseStep == SaveInv /\ [Next]_vars => PromiseKept'
<1> SUFFICES ASSUME SaveInv, TypeOK', [Next]_vars
             PROVE  PromiseKept'
  BY TypeStep
<1> USE SaveAssumption DEF SaveInv, TypeOK, PhaseInv, GenerationInv, CommitInv,
        DiskInv, PromiseKept, FreshManager, written, orders, done, commit, request,
        files, told, bounds
<1>1. CASE Open  BY <1>1 DEF Open
<1>2. CASE RequestWrite  BY <1>2 DEF RequestWrite
<1>3. CASE RejectWrite  BY <1>3 DEF RejectWrite
<1>4. CASE FlushAtOnce  BY <1>4 DEF FlushAtOnce, Answer
<1>5. CASE FlushRequest  BY <1>5 DEF FlushRequest
<1>6. CASE FlushReturn  BY <1>6 DEF FlushReturn, Answer, FlushSucceeds
<1>7. CASE FlushBlock  BY <1>7 DEF FlushBlock
<1>8. CASE ShutdownRequest  BY <1>8 DEF ShutdownRequest
<1>9. CASE ShutdownReturn  BY <1>9 DEF ShutdownReturn, Answer
<1>10. CASE Destroy  BY <1>10 DEF Destroy
<1>11. CASE WorkerIdle  BY <1>11 DEF WorkerIdle, WorkerMoves
<1>12. CASE WorkerDebounce  BY <1>12 DEF WorkerDebounce, WorkerMoves
<1>13. CASE WorkerStopClean  BY <1>13 DEF WorkerStopClean
<1>14. CASE WorkerSnapshot  BY <1>14 DEF WorkerSnapshot, MayCommit, TakenSnapshot
<1>15. CASE WorkerSnapshotFails  BY <1>15 DEF WorkerSnapshotFails, MayCommit
<1>16. CASE Commit
  BY <1>16 DEF Commit, CreateTemp, WriteSome, WriteRest, SyncTemp, CloseTemp,
     RenameTemp, OpenDirectory, SyncDirectory, CloseDirectory, WorkerMoves
<1>17. CASE CommitFails  BY <1>17 DEF CommitFails
<1>18. CASE WorkerReport  BY <1>18 DEF WorkerReport, CommitCleans
<1>19. CASE Kill  BY <1>19 DEF Kill, Die
<1>20. CASE PowerLoss  BY <1>20 DEF PowerLoss, Die
<1>21. CASE UNCHANGED vars  BY <1>21 DEF vars
<1> QED
  BY <1>1, <1>2, <1>3, <1>4, <1>5, <1>6, <1>7, <1>8, <1>9, <1>10, <1>11, <1>12,
     <1>13, <1>14, <1>15, <1>16, <1>17, <1>18, <1>19, <1>20, <1>21
  DEF Next, Owner, OwnerReturns, Worker, Fault

\* SaveInv is an invariant.
THEOREM SaveInvariant == Spec => []SaveInv
<1>1. SaveInv /\ [Next]_vars => SaveInv'
  BY TypeStep, PhaseStep, GenerationStep, CommitStep, DiskStep, PromiseStep
  DEF SaveInv
<1> QED
  BY InitSaveInv, <1>1, PTL DEF Spec

\* Types: the bounds on writes, faults and crashes are never exceeded.
THEOREM TypeCorrect == Spec => []TypeOK
<1>1. SaveInv => TypeOK
  BY DEF SaveInv
<1> QED
  BY <1>1, SaveInvariant, PTL

\* No kill or power loss ever leaves a torn save file (commitSnapshot).
THEOREM SaveNeverTorn == Spec => []NeverTorn
<1>1. SaveInv => NeverTorn
  BY DEF SaveInv, DiskInv
<1> QED
  BY <1>1, SaveInvariant, PTL

\* A save reported by flush() or shutdown() is never lost where the directory
\* can be synced.
THEOREM SavePromiseKept == Spec => []PromiseKept
<1>1. SaveInv => PromiseKept
  BY DEF SaveInv
<1> QED
  BY <1>1, SaveInvariant, PTL

\* A clean session has its newest image in the file.
THEOREM SaveCleanMeansSaved == Spec => []CleanMeansSaved
<1>1. SaveInv => CleanMeansSaved
  BY DEF SaveInv, DiskInv, CleanMeansSaved
<1> QED
  BY <1>1, SaveInvariant, PTL

\* Every step keeps what is known of a worker that has ended.
LEMMA StopStep == SaveInv /\ StopInv /\ [Next]_vars => StopInv'
<1> SUFFICES ASSUME FlagsOK, PhaseInv, StopInv, [Next]_vars PROVE StopInv'
  BY DEF SaveInv, TypeOK
<1> USE DEF FlagsOK, PhaseInv, StopInv, FreshManager, written, orders, done, commit,
            request, files, told, bounds
<1>1. CASE Open  BY <1>1 DEF Open
<1>2. CASE RequestWrite  BY <1>2 DEF RequestWrite, WakeWorker
<1>3. CASE RejectWrite  BY <1>3 DEF RejectWrite, WakeOwner
<1>4. CASE FlushAtOnce \/ FlushBlock  BY <1>4 DEF FlushAtOnce, FlushBlock
<1>5. CASE FlushRequest \/ ShutdownRequest
  BY <1>5 DEF FlushRequest, ShutdownRequest, WakeWorker
<1>6. CASE FlushReturn  BY <1>6 DEF FlushReturn
<1>7. CASE ShutdownReturn
  <2>1. answer' = "failed" => dirty \/ callbackError
    BY <1>7 DEF ShutdownReturn, Answer
  <2> QED
    BY <1>7, <2>1 DEF ShutdownReturn
<1>8. CASE Destroy  BY <1>8 DEF Destroy
<1>9. CASE WorkerIdle \/ WorkerDebounce
  BY <1>9 DEF WorkerIdle, WorkerDebounce, WorkerMoves
<1>10. CASE WorkerStopClean  BY <1>10 DEF WorkerStopClean, WakeOwner
<1>11. CASE WorkerSnapshot  BY <1>11 DEF WorkerSnapshot
<1>12. CASE WorkerSnapshotFails  BY <1>12 DEF WorkerSnapshotFails, WakeOwner
<1>13. CASE Commit
  BY <1>13 DEF Commit, CreateTemp, WriteSome, WriteRest, SyncTemp, CloseTemp,
     RenameTemp, OpenDirectory, SyncDirectory, CloseDirectory, WorkerMoves
<1>14. CASE CommitFails  BY <1>14 DEF CommitFails
<1>15. CASE WorkerReport
  <2>1. owner' \in {"joined", "closed"} <=> owner \in {"joined", "closed"}
    BY <1>15 DEF WorkerReport, WakeOwner
  <2>2. worker # "none" /\ owner \notin {"joined", "closed"}
    BY <1>15 DEF WorkerReport
  <2>3. CASE WorkerStops
    <3>1. dirty' => ~success
      BY <1>15, <2>3 DEF WorkerReport, WorkerStops
    <3> QED
      BY <1>15, <2>1, <2>2, <3>1 DEF WorkerReport
  <2>4. CASE ~WorkerStops
    BY <1>15, <2>1, <2>2, <2>4 DEF WorkerReport
  <2> QED
    BY <2>3, <2>4
<1>16. CASE Kill \/ PowerLoss  BY <1>16 DEF Kill, PowerLoss, Die
<1>17. CASE UNCHANGED vars  BY <1>17 DEF vars
<1> QED
  BY <1>1, <1>2, <1>3, <1>4, <1>5, <1>6, <1>7, <1>8, <1>9, <1>10, <1>11, <1>12,
     <1>13, <1>14, <1>15, <1>16, <1>17
  DEF Next, Owner, OwnerReturns, Worker, Fault

\* A shutdown fails only for a rejected callback or a failed attempt, never for
\* a newer generation that a commit under way left behind (workerMain).
THEOREM SaveShutdownFailureHasCause == Spec => []ShutdownFailureHasCause
<1>1. Init => StopInv
  BY DEF Init, StopInv
<1>2. SaveInv /\ StopInv => ShutdownFailureHasCause
  BY DEF SaveInv, PhaseInv, StopInv, ShutdownFailureHasCause
<1> QED
  BY <1>1, <1>2, SaveInvariant, StopStep, PTL DEF Spec

\* The file only goes back to an older image when power is lost.
THEOREM SaveNeverGoesBack == Spec => NeverGoesBack
<1>1. SaveInv /\ [Next]_vars => [sav'.image < sav.image => PowerLoss]_vars
  <2> SUFFICES ASSUME SaveInv, Next, ~PowerLoss
               PROVE  ~(sav'.image < sav.image)
    BY DEF vars
  <2> USE DEF SaveInv, TypeOK, PhaseInv, GenerationInv, files
  <2>1. CASE Owner
    BY <2>1 DEF Owner, OwnerReturns, Open, RequestWrite, FlushAtOnce, FlushRequest,
       FlushReturn, FlushBlock, ShutdownRequest, ShutdownReturn, Destroy
  <2>2. CASE Commit
    BY <2>2 DEF Commit, CreateTemp, WriteSome, WriteRest, SyncTemp, CloseTemp,
       RenameTemp, OpenDirectory, SyncDirectory, CloseDirectory, WorkerMoves
  <2>3. CASE Fault
    BY <2>3 DEF Fault, RejectWrite, WorkerSnapshotFails, CommitFails
  <2>4. CASE Kill
    BY <2>4 DEF Kill, Die
  <2>5. CASE Worker /\ ~Commit
    BY <2>5 DEF Worker, WorkerIdle, WorkerDebounce, WorkerStopClean, WorkerSnapshot,
       WorkerReport, WorkerMoves
  <2> QED
    BY <2>1, <2>2, <2>3, <2>4, <2>5 DEF Next
<1> QED
  BY <1>1, SaveInvariant, PTL DEF Spec, NeverGoesBack

\* Where the directory can be synced the manager implements DurableSave: every
\* step is an abstract step or leaves the abstract variables alone.
THEOREM SaveImplementsDurableSave ==
  ASSUME DirSync PROVE Spec => ImplementsDurableSave
<1>1. Init => Abstract!Init
  BY DEF Init, Abstract!Init
<1>2. SaveInv /\ SaveInv' /\ [Next]_vars => [Abstract!Next]_(Abstract!vars)
  <2> SUFFICES ASSUME SaveInv, SaveInv', [Next]_vars
               PROVE  [Abstract!Next]_(Abstract!vars)
    OBVIOUS
  <2> USE DirSync, SaveAssumption
      DEF SaveInv, TypeOK, PhaseInv, GenerationInv, DiskInv, PromiseKept, Abstract!vars,
          FreshManager, written, files, told
  <2>1. CASE Open
    BY <2>1 DEF Open
  <2>2. CASE RequestWrite
    BY <2>2 DEF RequestWrite, Abstract!Next, Abstract!Accept
  <2>3. CASE FlushAtOnce \/ FlushReturn \/ ShutdownReturn
    <3>1. promised' = promised \/ promised' = sav.image
      BY <2>3 DEF FlushAtOnce, FlushReturn, ShutdownReturn, Answer, FlushSucceeds
    <3> QED
      BY <2>3, <3>1 DEF FlushAtOnce, FlushReturn, ShutdownReturn, Abstract!Next,
         Abstract!Promise
  <2>4. CASE FlushRequest \/ FlushBlock \/ ShutdownRequest
    BY <2>4 DEF FlushRequest, FlushBlock, ShutdownRequest
  <2>5. CASE Destroy
    BY <2>5 DEF Destroy, Abstract!Next, Abstract!Lose
  <2>6. CASE RenameTemp
    BY <2>6 DEF RenameTemp, WorkerMoves, Abstract!Next, Abstract!Persist
  <2>7. CASE Worker /\ ~RenameTemp
    BY <2>7 DEF Worker, WorkerIdle, WorkerDebounce, WorkerStopClean, WorkerSnapshot,
       WorkerReport, Commit, CreateTemp, WriteSome, WriteRest, SyncTemp, CloseTemp,
       OpenDirectory, SyncDirectory, CloseDirectory, WorkerMoves
  <2>8. CASE Fault
    BY <2>8 DEF Fault, RejectWrite, WorkerSnapshotFails, CommitFails
  <2>9. CASE Kill
    BY <2>9 DEF Kill, Die, Abstract!Next, Abstract!Lose
  <2>10. CASE PowerLoss
    BY <2>10 DEF PowerLoss, Die, Abstract!Next, Abstract!Lose
  <2>11. CASE UNCHANGED vars
    BY <2>11 DEF vars
  <2> QED
    BY <2>1, <2>2, <2>3, <2>4, <2>5, <2>6, <2>7, <2>8, <2>9, <2>10, <2>11
    DEF Next, Owner, OwnerReturns
<1> QED
  BY <1>1, <1>2, SaveInvariant, PTL DEF Spec, ImplementsDurableSave, Abstract!Spec
============================================================================
