----------------------------- MODULE SaveBridge -----------------------------
(***************************************************************************)
(* The cartridge's save memory.  A game writes its chip over SPI; the chip *)
(* is a cache of one sector in the FPGA; the save bridge loads and flushes *)
(* the cache over the shell's sector channel; the standalone host serves   *)
(* the channel from the save file (the sidecar) of the game, and changes   *)
(* games.  Card, bridge and host run in three clock domains.               *)
(*                                                                         *)
(* A sector is two bytes, its first and its last, each with the stamp of   *)
(* its last write.  Left out: NAND cartridges, games without a save, and   *)
(* the stock frontend.                                                     *)
(***************************************************************************)
EXTENDS Naturals, Sequences

CONSTANTS
  Games,
  Size,        \* sectors of each game's chip
  Flash,       \* games with a flash chip, which can be erased
  Migrated,    \* games whose file of one sector is extended
  Lengths,     \* the sectors of the files that there are at first
  MaxSize,     \* the most sectors that a save address can name
  NoGame,
  MaxGameWrites,   \* bound: writes and erases by the games
  MaxLoads         \* bound: loads, resets and exits by the user

ASSUME SaveBridgeAssumption ==
  /\ MaxSize \in Nat /\ Size \in [Games -> 1 .. MaxSize]
  /\ Flash \subseteq Games /\ Migrated \subseteq Games \ Flash
  /\ NoGame \notin Games
  /\ \A len \in Lengths : len \in [Games -> 0 .. MaxSize]
  /\ MaxGameWrites \in Nat /\ MaxLoads \in Nat

Cells == {1, 2}                               \* the first byte, the last
Blank == [c \in Cells |-> 0]                  \* erased, bytes of FF
Old   == [c \in Cells |-> 1]                  \* saved before the model starts
Hole  == [c \in Cells |-> MaxGameWrites + 2]  \* zeros, read from a hole

Sectors  == 1 .. MaxSize
ShortLen == 1                                 \* the old size that is extended

VARIABLES
  file,                             \* the sidecars: sequences of sectors
  chip,                             \* history: what the games have commanded
  spoiled,                          \* history: bytes that the card has lost
  writes, loads,                    \* history: writes, user's requests
  phase, next, fd, inHand,          \* host: its step, game to load, open file
  hold, download, profileUp,        \* host's levels: CPUs held, ROM transfer
  edge, mountQueued, queuedLen,     \* notices on their way to the bridge
  game,                             \* the cartridge
  profile, access, at, cell, left,  \* card: save type known, SPI, erase
  cache, odd, wrote, cardReady,     \* cache; write toggle, its flip; ready
  vProfile, vAccess, vAt,           \* the card as the bridge sees it
  state, lba, target,               \* bridge
  epoch, mountPending, mountedLen, armed,
  saveReady, runReady, allowed, known, activeSize, initSector, forInit,
  cacheLba, cacheValid, cacheDirty, dirtyDuringFlush, postFlushLoad,
  replacement

hostVars   == <<phase, next, fd, inHand, hold, download, profileUp>>
notices    == <<edge, mountQueued, queuedLen>>
cardVars   == <<profile, access, at, cell, left, odd, cardReady>>
views      == <<vProfile, vAccess, vAt>>
mountVars  == <<epoch, mountPending, mountedLen>>
judged     == <<armed, saveReady, runReady, allowed, known, activeSize>>
lines      == <<cacheLba, cacheValid, cacheDirty, dirtyDuringFlush,
                postFlushLoad, replacement>>
initVars   == <<initSector, forInit>>
bridgeVars == <<state, lba, target, mountVars, judged, lines, initVars>>
history    == <<chip, spoiled, writes, loads>>
saveVars   == <<file, history, hostVars, notices, game, cardVars, cache, wrote,
                views, bridgeVars>>

(* What the chip of g reads where its file f ends: blank. *)
Padded(f) == [s \in Sectors |-> IF s <= Len(f) THEN f[s] ELSE Blank]

BridgeInit ==
  /\ file \in {[g \in Games |-> [s \in 1 .. len[g] |-> Old]] : len \in Lengths}
  /\ chip = [g \in Games |-> Padded(file[g])]
  /\ spoiled = {} /\ writes = 0 /\ loads = 0
  /\ phase = "serving" /\ next = NoGame /\ fd = NoGame /\ inHand = <<>>
  /\ hold = FALSE /\ download = FALSE /\ profileUp = FALSE
  /\ edge = FALSE /\ mountQueued = FALSE /\ queuedLen = 0
  /\ game = NoGame
  /\ profile = NoGame /\ access = FALSE /\ at = 1 /\ cell = 1 /\ left = 0
  /\ cache = Blank /\ odd = FALSE /\ wrote = FALSE /\ cardReady = FALSE
  /\ vProfile = NoGame /\ vAccess = FALSE /\ vAt = 1
  /\ state = "WAIT_MOUNT" /\ lba = 1 /\ target = 1
  /\ epoch = FALSE /\ mountPending = FALSE /\ mountedLen = 0 /\ armed = FALSE
  /\ saveReady = FALSE /\ runReady = FALSE /\ allowed = FALSE /\ known = 0
  /\ activeSize = 0 /\ initSector = 1 /\ forInit = FALSE
  /\ cacheLba = 1 /\ cacheValid = FALSE /\ cacheDirty = FALSE
  /\ dirtyDuringFlush = FALSE /\ postFlushLoad = FALSE /\ replacement = FALSE

(***************************************************************************)
(* The crossings between the clocks.                                       *)
(***************************************************************************)
Ready == state = "READY" /\ runReady /\ vAccess /\ cacheValid /\ cacheLba = vAt

(* Mutant: the console waits for a memory that waits for its profile. *)
ConsoleResetOnRun == hold \/ download \/ ~runReady

ConsoleReset == hold \/ download \/ ~saveReady

Settled == vAccess = access /\ vAt = at /\ ~wrote /\ cardReady = Ready

CardArrives ==
  /\ <<vProfile, vAccess, vAt>> # <<profile, access, at>>
  /\ vProfile' = profile /\ vAccess' = access /\ vAt' = at
  /\ UNCHANGED <<file, history, hostVars, notices, game, cardVars, cache, wrote,
                 bridgeVars>>

ReadyArrives ==
  /\ cardReady # Ready
  /\ cardReady' = Ready
  /\ UNCHANGED <<file, history, hostVars, notices, game, profile, access, at,
                 cell, left, cache, odd, wrote, views, bridgeVars>>

(* The write toggle has flipped. *)
WriteArrives ==
  /\ wrote
  /\ wrote' = FALSE
  /\ cacheDirty' = TRUE
  /\ dirtyDuringFlush' =
       (dirtyDuringFlush \/ state \in {"FLUSH_REQUEST", "FLUSH_WAIT"})
  /\ UNCHANGED <<file, history, hostVars, notices, game, cardVars, cache, views,
                 state, lba, target, mountVars, judged, cacheLba, cacheValid,
                 postFlushLoad, replacement, initVars>>

(***************************************************************************)
(* The card: the console's side.                                           *)
(***************************************************************************)
(* Reset clears the write toggle, and that looks like a write. *)
ResetCard ==
  /\ ConsoleReset /\ ~wrote
  /\ profile # NoGame
  /\ profile' = NoGame /\ access' = FALSE /\ at' = 1 /\ cell' = 1 /\ left' = 0
  /\ odd' = FALSE /\ wrote' = odd
  /\ UNCHANGED <<file, history, hostVars, notices, game, cardReady, cache,
                 views, bridgeVars>>

(* The lookup takes long: the bridge has seen that the profile was gone. *)
PublishProfile ==
  /\ ~ConsoleReset /\ profile = NoGame /\ game # NoGame
  /\ vProfile = NoGame /\ (state = "WAIT_PROFILE" => armed)
  /\ profile' = game
  /\ UNCHANGED <<file, history, hostVars, notices, game, access, at, cell, left,
                 odd, cardReady, cache, wrote, views, bridgeVars>>

GameRuns == ~ConsoleReset /\ profile # NoGame /\ runReady /\ left = 0

(* A byte is meant for the sector at the card's address and lands in the   *)
(* one that the cache holds.  Only a chip that lasts is accounted for.     *)
WriteByte(c, stamp) ==
  /\ cache' = [cache EXCEPT ![c] = stamp]
  /\ wrote' = TRUE
  /\ \/ /\ allowed
        /\ chip' = [chip EXCEPT ![game][at][c] = stamp]
        /\ \/ at = cacheLba /\ spoiled' = spoiled \ {<<game, at, c>>}
           \/ at # cacheLba /\ spoiled' = spoiled \cup {<<game, at, c>>}
     \/ ~allowed /\ UNCHANGED <<chip, spoiled>>

(* The address runs on, and from the end of the chip to its start. *)
NextSector == IF at = Size[game] THEN 1 ELSE at + 1

(* The SPI command has its address; its bytes then wait for the cache. *)
CardOpens ==
  /\ GameRuns /\ Settled /\ ~access
  /\ access' = TRUE
  /\ at' \in 1 .. Size[game]
  /\ UNCHANGED <<file, history, hostVars, notices, game, profile, cell, left,
                 odd, cardReady, cache, wrote, views, bridgeVars>>

(* After the last byte of a sector the address is in the next one, but a   *)
(* write to a flash chip goes round in its page.                           *)
CardWrites ==
  /\ GameRuns /\ Settled /\ access /\ cardReady
  /\ writes < MaxGameWrites
  /\ writes' = writes + 1
  /\ odd' = ~odd
  /\ \E c \in Cells :
       /\ WriteByte(c, writes + 2)
       /\ at' = IF c = 2 /\ game \notin Flash THEN NextSector ELSE at
  /\ UNCHANGED <<file, loads, hostVars, notices, game, profile, access, cell, left,
                 cardReady, views, bridgeVars>>

(* A read takes the last byte of a sector. *)
CardReads ==
  /\ GameRuns /\ Settled /\ access /\ cardReady
  /\ at' = NextSector
  /\ UNCHANGED <<file, history, hostVars, notices, game, profile, access, cell, left,
                 odd, cardReady, cache, wrote, views, bridgeVars>>

(* The next command's first byte clears the address too. *)
CardCloses ==
  /\ GameRuns /\ access
  /\ access' = FALSE /\ at' = 1
  /\ UNCHANGED <<file, history, hostVars, notices, game, profile, cell, left,
                 odd, cardReady, cache, wrote, views, bridgeVars>>

(* A page, which is the half of a sector, or the whole chip. *)
CardErases ==
  /\ GameRuns /\ Settled /\ ~access /\ game \in Flash
  /\ writes < MaxGameWrites
  /\ writes' = writes + 1
  /\ access' = TRUE
  /\ \/ /\ at' = 1 /\ cell' = 1 /\ left' = 2 * Size[game]
     \/ /\ at' \in 1 .. Size[game] /\ cell' \in Cells /\ left' = 1
  /\ UNCHANGED <<file, chip, spoiled, loads, hostVars, notices, game, profile, odd,
                 cardReady, cache, wrote, views, bridgeVars>>

(* A byte per clock, as long as the ready level is up.  The first byte of  *)
(* a further sector goes by the level of the sector before, and lands in   *)
(* that one; until the last byte there is time.  There are many bytes in   *)
(* between: before the last, the bridge has heard of the others.           *)
EraseStep ==
  /\ ~ConsoleReset /\ left > 0 /\ cardReady
  /\ cell = 1 \/ Settled
  /\ WriteByte(cell, 0)
  /\ cacheDirty' = (cacheDirty \/ Settled)
  /\ odd' \in BOOLEAN
  /\ left' = left - 1
  /\ access' = (left > 1)
  /\ cell' = IF left > 1 THEN 3 - cell ELSE 1
  /\ at' = IF cell = 2 /\ left > 1 THEN at + 1 ELSE at
  /\ UNCHANGED <<file, writes, loads, hostVars, notices, game, profile,
                 cardReady, views, state, lba, target, mountVars, judged,
                 cacheLba, cacheValid, dirtyDuringFlush, postFlushLoad,
                 replacement, initVars>>

(***************************************************************************)
(* The bridge.                                                             *)
(***************************************************************************)
(* reset_for_new_cart, which keeps a mount that is already pending. *)
ResetForNewCart ==
  /\ state' = "WAIT_MOUNT" /\ lba' = 1
  /\ saveReady' = FALSE /\ runReady' = FALSE /\ armed' = FALSE
  /\ allowed' = FALSE /\ known' = 0 /\ activeSize' = 0
  /\ cacheValid' = FALSE /\ cacheDirty' = FALSE /\ dirtyDuringFlush' = FALSE
  /\ postFlushLoad' = FALSE /\ replacement' = FALSE
  /\ UNCHANGED <<target, initVars, cacheLba>>

Flushing == state \in {"FLUSH_REQUEST", "FLUSH_WAIT"}

(* Mutant: a miss does not flush the sector it replaces. *)
MustFlushIdle == cacheDirty /\ allowed /\ ~vAccess

MustFlush == cacheDirty /\ allowed

StartFlush(thenLoad) ==
  /\ state' = "FLUSH_REQUEST" /\ lba' = cacheLba
  /\ dirtyDuringFlush' = FALSE
  /\ postFlushLoad' = thenLoad

(* Sectors that the file does not have are blank. *)
Fetch(s) ==
  \/ s <= known /\ state' = "LOAD_REQUEST" /\ lba' = s /\ UNCHANGED forInit
  \/ s > known /\ state' = "CACHE_CLEAR" /\ forInit' = FALSE /\ UNCHANGED lba

CartEvent ==
  /\ edge
  /\ edge' = FALSE
  /\ epoch' = TRUE
  /\ \/ /\ Flushing \/ (state = "READY" /\ MustFlush)
        /\ replacement' = TRUE /\ saveReady' = FALSE /\ runReady' = FALSE
        /\ IF Flushing
           THEN UNCHANGED <<state, lba, dirtyDuringFlush, postFlushLoad>>
           ELSE StartFlush(FALSE)
        /\ UNCHANGED <<target, armed, allowed, known, activeSize, initVars,
                       cacheLba, cacheValid, cacheDirty>>
     \/ /\ ~Flushing /\ ~(state = "READY" /\ MustFlush)
        /\ ResetForNewCart
  /\ UNCHANGED <<file, history, hostVars, mountQueued, queuedLen, game, cardVars,
                 cache, wrote, views, mountPending, mountedLen>>

(* The shell's mount notice, kept by the island for the bridge. *)
MountPulse ==
  /\ mountQueued
  /\ mountQueued' = FALSE
  /\ mountPending' = TRUE /\ mountedLen' = queuedLen
  /\ UNCHANGED <<file, history, hostVars, edge, queuedLen, game, cardVars, cache,
                 wrote, views, state, lba, target, epoch, judged, lines, initVars>>

around == <<file, history, hostVars, notices, game, cardVars, wrote, views>>

WaitMount ==
  /\ state = "WAIT_MOUNT" /\ epoch /\ mountPending
  /\ mountPending' = FALSE
  /\ saveReady' = TRUE /\ runReady' = FALSE
  /\ state' = "WAIT_PROFILE"
  /\ UNCHANGED <<around, cache, lba, target, epoch, mountedLen, armed, allowed,
                 known, activeSize, lines, initVars>>

(* The profile may still be that of the cartridge before. *)
ArmProfile ==
  /\ state = "WAIT_PROFILE" /\ vProfile = NoGame /\ ~armed
  /\ armed' = TRUE
  /\ UNCHANGED <<around, cache, state, lba, target, mountVars, saveReady,
                 runReady, allowed, known, activeSize, lines, initVars>>

Fresh == armed

Short(g, len) == g \in Migrated /\ len = ShortLen /\ Size[g] # ShortLen

JudgeFile ==
  LET len   == mountedLen
      full  == len = Size[vProfile]
      short == Short(vProfile, len) IN
  /\ state = "WAIT_PROFILE" /\ vProfile # NoGame /\ Fresh
  /\ armed' = FALSE
  /\ activeSize' = Size[vProfile]
  /\ allowed' = (len = 0 \/ full \/ short)
  /\ known' = IF full THEN Size[vProfile] ELSE IF short THEN ShortLen ELSE 0
  /\ cacheValid' = FALSE /\ cacheDirty' = FALSE
  /\ \/ /\ len = 0 \/ short           \* create the sectors that are missing
        /\ initSector' = (IF short THEN ShortLen ELSE 0) + 1
        /\ forInit' = TRUE
        /\ state' = "CACHE_CLEAR"
        /\ UNCHANGED runReady
     \/ /\ len # 0 /\ ~short          \* a wrong size: a chip that does not last
        /\ runReady' = TRUE
        /\ state' = "READY"
        /\ UNCHANGED initVars
  /\ UNCHANGED <<around, cache, lba, target, mountVars, saveReady, cacheLba,
                 dirtyDuringFlush, postFlushLoad, replacement>>

(* Clearing and transfers take hundreds of clocks: a write is known by     *)
(* then, and the card knows that the cache is busy.                        *)
Crossed == ~wrote /\ cardReady = Ready

CacheClear ==
  /\ state = "CACHE_CLEAR" /\ Crossed
  /\ cache' = Blank
  /\ \/ /\ forInit
        /\ state' = "INIT_REQUEST" /\ lba' = initSector
        /\ UNCHANGED <<cacheLba, cacheValid, cacheDirty>>
     \/ /\ ~forInit
        /\ state' = "READY"
        /\ cacheLba' = target /\ cacheValid' = TRUE /\ cacheDirty' = FALSE
        /\ UNCHANGED lba
  /\ UNCHANGED <<around, target, mountVars, judged, dirtyDuringFlush,
                 postFlushLoad, replacement, initVars>>

InitWait ==
  /\ state = "INIT_WAIT"
  /\ \/ /\ initSector = activeSize
        /\ known' = activeSize
        /\ runReady' = TRUE /\ cacheValid' = FALSE /\ forInit' = FALSE
        /\ state' = "READY" /\ lba' = 1
        /\ UNCHANGED initSector
     \/ /\ initSector # activeSize
        /\ initSector' = initSector + 1
        /\ state' = "INIT_REQUEST" /\ lba' = initSector + 1
        /\ UNCHANGED <<known, runReady, cacheValid, forInit>>
  /\ UNCHANGED <<around, cache, target, mountVars, armed, saveReady, allowed,
                 activeSize, cacheLba, cacheDirty, dirtyDuringFlush,
                 postFlushLoad, replacement>>

Misses == vAccess /\ ~(cacheValid /\ cacheLba = vAt)

(* The address is there before the notice of the write that moved it, the  *)
(* first one to this sector: the last byte is not flushed.  (The notice of *)
(* a reset is none of a write.)                                            *)
Overtakes == wrote /\ profile # NoGame /\ allowed /\ ~cacheDirty

Miss ==
  /\ state = "READY" /\ Misses
  /\ target' = vAt
  /\ \/ MustFlush /\ StartFlush(TRUE) /\ UNCHANGED <<forInit, spoiled>>
     \/ /\ ~MustFlush /\ Fetch(vAt)
        /\ spoiled' = spoiled \cup IF Overtakes THEN {<<game, cacheLba, 2>>} ELSE {}
        /\ UNCHANGED <<dirtyDuringFlush, postFlushLoad>>
  /\ UNCHANGED <<file, chip, writes, loads, hostVars, notices, game, cardVars, wrote,
                 views, cache, mountVars, judged, cacheLba, cacheValid, cacheDirty,
                 replacement, initSector>>

(* The quiet counter has run out. *)
QuietFlush ==
  /\ state = "READY" /\ MustFlush /\ ~vAccess
  /\ StartFlush(FALSE)
  /\ UNCHANGED <<around, cache, target, mountVars, judged, cacheLba, cacheValid,
                 cacheDirty, replacement, initVars>>

LoadCommit ==
  /\ state = "LOAD_COMMIT"
  /\ state' = "READY"
  /\ cacheLba' = target /\ cacheValid' = TRUE /\ cacheDirty' = FALSE
  /\ UNCHANGED <<around, cache, lba, target, mountVars, judged, dirtyDuringFlush,
                 postFlushLoad, replacement, initVars>>

FlushWait ==
  /\ state = "FLUSH_WAIT"
  /\ \/ replacement /\ ResetForNewCart
     \/ /\ ~replacement
        /\ cacheDirty' = dirtyDuringFlush
        /\ \/ postFlushLoad /\ postFlushLoad' = FALSE /\ Fetch(target)
           \/ /\ ~postFlushLoad
              /\ state' = "READY"
              /\ UNCHANGED <<postFlushLoad, lba, forInit>>
        /\ UNCHANGED <<target, judged, cacheLba, cacheValid, dirtyDuringFlush,
                       replacement, initSector>>
  /\ UNCHANGED <<around, cache, mountVars>>

(***************************************************************************)
(* The standalone host: one thread, which serves the sector channel in     *)
(* between its other steps.                                                *)
(***************************************************************************)
Stored(f, s, data) ==
  [i \in 1 .. (IF s > Len(f) THEN s ELSE Len(f)) |->
     IF i = s THEN data ELSE IF i <= Len(f) THEN f[i] ELSE Hole]

Serving == phase # "exited" /\ fd # NoGame

HostReads ==
  /\ Serving /\ inHand = <<>> /\ state = "LOAD_REQUEST" /\ Crossed
  /\ cache' = Padded(file[fd])[lba]
  /\ state' = "LOAD_COMMIT"
  /\ UNCHANGED <<around, lba, target, mountVars, judged, lines, initVars>>

(* The bridge has its acknowledgement before the data is in the file. *)
HostTakes ==
  /\ Serving /\ inHand = <<>> /\ Crossed
  /\ \/ state = "FLUSH_REQUEST" /\ state' = "FLUSH_WAIT"
     \/ state = "INIT_REQUEST" /\ state' = "INIT_WAIT"
  /\ inHand' = <<lba, cache>>
  /\ UNCHANGED <<file, history, phase, next, fd, hold, download, profileUp,
                 notices, game, cardVars, cache, wrote, views, lba, target,
                 mountVars, judged, lines, initVars>>

HostStores ==
  /\ inHand # <<>>
  /\ file' = [file EXCEPT ![fd] = Stored(@, inHand[1], inHand[2])]
  /\ inHand' = <<>>
  /\ UNCHANGED <<history, phase, next, fd, hold, download, profileUp, notices,
                 game, cardVars, cache, wrote, views, bridgeVars>>

Go(from, to) == phase = from /\ inHand = <<>> /\ phase' = to /\ UNCHANGED inHand

aside == <<file, chip, spoiled, writes, cardVars, cache, wrote, views, bridgeVars>>

(* The host's steps take milliseconds, a reset or a notice a few clocks. *)
CardIsReset == profile = NoGame /\ ~wrote /\ ~mountQueued

(* Hold the CPUs, upload the assets; that ends an earlier ROM transfer. *)
StartLoad(g) ==
  /\ Go("serving", "holding")
  /\ loads < MaxLoads /\ loads' = loads + 1
  /\ next' = g
  /\ hold' = TRUE /\ download' = FALSE
  /\ UNCHANGED <<aside, fd, profileUp, notices, game>>

RaiseDownload ==
  /\ Go("holding", "draining")
  /\ CardIsReset
  /\ download' = TRUE /\ edge' = TRUE
  /\ profileUp' = FALSE
  /\ game' = next
  /\ UNCHANGED <<aside, loads, next, fd, hold, mountQueued, queuedLen>>

(* Mutant: the host mounts as soon as the download is seen. *)
OutgoingNotified == ~edge

(* A tenth of a second, in which the host serves the bridge. *)
OutgoingDrained == ~edge /\ ~Flushing

Drained ==
  /\ Go("draining", "copying")
  /\ OutgoingDrained
  /\ UNCHANGED <<aside, loads, next, fd, hold, download, profileUp, notices, game>>

Mounts ==
  /\ Go("copying", "mounted")
  /\ fd' = next
  /\ mountQueued' = TRUE /\ queuedLen' = Len(file[next])
  /\ UNCHANGED <<aside, loads, next, hold, download, profileUp, edge, game>>

Releases ==
  /\ Go("mounted", "serving")
  /\ CardIsReset
  /\ download' = FALSE
  /\ profileUp' = TRUE
  /\ hold' = FALSE
  /\ UNCHANGED <<aside, loads, next, fd, notices, game>>

(* Any failure; the CPUs stay held. *)
Aborts ==
  /\ \/ Go("holding", "serving") /\ UNCHANGED <<download, profileUp>>
     \/ Go("copying", "serving") /\ UNCHANGED <<download, profileUp>>
     \/ /\ Go("mounted", "serving")
        /\ download' = FALSE
        /\ profileUp' \in BOOLEAN
  /\ UNCHANGED <<aside, loads, next, fd, hold, notices, game>>

StartReset ==
  /\ Go("serving", "resetting")
  /\ loads < MaxLoads /\ loads' = loads + 1
  /\ hold' = TRUE /\ download' = FALSE
  /\ UNCHANGED <<aside, next, fd, profileUp, notices, game>>

(* The control refuses to release CPUs without a save profile. *)
FinishReset ==
  /\ Go("resetting", "serving")
  /\ CardIsReset
  /\ hold' = ~profileUp
  /\ UNCHANGED <<aside, loads, next, fd, download, profileUp, notices, game>>

StartExit ==
  /\ Go("serving", "leaving")
  /\ loads < MaxLoads /\ loads' = loads + 1
  /\ hold' = TRUE
  /\ UNCHANGED <<aside, next, fd, download, profileUp, notices, game>>

(* Half a second: the quiet counter runs out, and the host serves. *)
Exit ==
  /\ Go("leaving", "exited")
  /\ ~Flushing /\ ~wrote /\ ~(state = "READY" /\ MustFlush)
  /\ UNCHANGED <<aside, loads, next, fd, hold, download, profileUp, notices, game>>

-----------------------------------------------------------------------------
Arrives == CardArrives \/ ReadyArrives \/ WriteArrives \/ ResetCard

Bridge ==
  \/ CartEvent \/ MountPulse \/ WaitMount \/ ArmProfile \/ JudgeFile
  \/ CacheClear \/ InitWait \/ Miss \/ LoadCommit \/ FlushWait

Serves == HostReads \/ HostTakes \/ HostStores

Proceeds == RaiseDownload \/ Drained \/ Mounts \/ Releases \/ FinishReset \/ Exit

BridgeNext ==
  \/ Arrives \/ Bridge \/ Serves \/ Proceeds \/ PublishProfile \/ QuietFlush
  \/ CardOpens \/ CardWrites \/ CardReads \/ CardCloses \/ CardErases
  \/ EraseStep
  \/ \E g \in Games : StartLoad(g)
  \/ Aborts \/ StartReset \/ StartExit

BridgeSpec == BridgeInit /\ [][BridgeNext]_saveVars

(* The clocks run, the host is scheduled, and the console's loader finishes: *)
(* while one of them has a step to take, they do not all stop.  Nothing is   *)
(* asked of the game or of the quiet counter.                                *)
FairBridgeSpec ==
  BridgeSpec /\ WF_saveVars(Arrives \/ Bridge \/ Serves \/ Proceeds \/ PublishProfile)

-----------------------------------------------------------------------------
(* The byte of g that is only in the cache, and on its way to the file.    *)
InCache(g, s, c) ==
  /\ phase # "exited" /\ fd = g /\ s = cacheLba
  /\ cacheValid /\ (cacheDirty \/ wrote \/ Flushing)
  /\ cache[c] = chip[g][s][c]

(* The byte is in the host's hand, and the host has the file open. *)
InHand(g, s, c) ==
  inHand # <<>> /\ fd = g /\ inHand[1] = s /\ inHand[2][c] = chip[g][s][c]

(* What a game has commanded to a chip that lasts is in its file, or in    *)
(* the cache and marked to be flushed to that file, or in the host's hand: *)
(* through cache misses, resets, aborted loads, changes of games and the   *)
(* end of the host (nds_nitro_save_bridge.sv, host.cpp load and sector).   *)
(* Excepted are the bytes that the code loses: the first of a sector that  *)
(* an erase runs into, and the last of a sector that a write runs out of   *)
(* when nothing else in that sector was to be flushed.                     *)
NothingLost ==
  \A g \in Games, s \in Sectors, c \in Cells :
    \/ <<g, s, c>> \in spoiled
    \/ Padded(file[g])[s][c] = chip[g][s][c]
    \/ InCache(g, s, c)
    \/ InHand(g, s, c)

(* A chip that lasts reads back what the game has commanded, but for those *)
(* bytes: the cache holds the right sector, of the right game (cache_lba   *)
(* against requested_lba).                                                 *)
ReadsBack ==
  Ready /\ allowed /\ game # NoGame /\ ~ConsoleReset =>
    \A c \in Cells : <<game, vAt, c>> \in spoiled \/ cache[c] = chip[game][vAt][c]

(* Only a chip that can be erased loses first bytes, and no other than the *)
(* first of a further sector; only one that cannot loses last bytes.       *)
OnlyAtTheEnds ==
  \A g \in Games, s \in Sectors, c \in Cells :
    <<g, s, c>> \in spoiled =>
      \/ g \in Flash /\ c = 1 /\ s > 1
      \/ g \notin Flash /\ c = 2 /\ Size[g] > 1

(* What a game has saved is neither lost nor mixed up with other data. *)
SaveKept == NothingLost /\ ReadsBack /\ OnlyAtTheEnds

(* The file of a game that had neither the size of the chip nor the old    *)
(* size when it was mounted is the user's and is not touched, not even by  *)
(* what was left of the cartridge before; and a file that has the size of  *)
(* its chip keeps it (nds_nitro_save_bridge.sv WAIT_PROFILE).              *)
WrongSizeUntouched ==
  [][\A g \in Games :
       /\ (fd = g /\ queuedLen \notin {0, Size[g]} /\ ~Short(g, queuedLen))
            => file'[g] = file[g]
       /\ Len(file[g]) = Size[g] => Len(file'[g]) = Size[g]]_file

(* A game that the host has released gets its save memory, also when its   *)
(* file must be created or the cartridge before still has to be flushed.   *)
LoadRuns ==
  (phase = "serving" /\ ~hold /\ game # NoGame) ~> (runReady \/ hold)

=============================================================================
