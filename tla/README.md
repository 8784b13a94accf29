# NDS4MiSTer: specifications, model checks and proofs

NDS4MiSTer emulates a Nintendo DS on a MiSTer FPGA board. The FPGA runs the
console: both CPUs, memory, DMA, timing and sound. The board's two ARM cores (the
HPS) replay the console's graphics records in order, draw both screens, and
publish complete screen pairs that the FPGA scans out. A standalone host process
owns the menus, the input and the storage, and a supervisor and a guard start it
and give the board back to MiSTer's own Main when it ends.

These parts share a page of DDR memory, a DDR port, two processors and no lock.
Every one of them may be reset or die while the others run on. This directory
holds TLA+ modules of the protocols between them, TLC configurations that check
the modules on small instances, and TLAPS proofs.

All paths below are relative to `src/`, the root of the repository.

## 1. Inventory

### 1.1 The path of a frame

```
console ──records──> record CDC ──> packet writer ──slots in DDR──> packet consumer
   ^                                                                    │
   │ reset / release                                          replay queue (intake -> replay)
   │                                                                    │
control initializer <── control header in DDR ──> service main loop   renderers
                                                                        │
scan-out <── framebuffer <── plane reader <── banks + descriptor <── publication worker
```

Everything the FPGA reads or writes in DDR for this goes through one port that
`nds_ddram_arbiter_4client` shares among four clients. The DDR layout is in
`docs/architecture.md`: the control page at 0x3FC00000, four packet slots of
64 KiB, four picture banks of 512 KiB.

### 1.2 Components

| component | code | state | operations | talks to | what is hard | module |
|---|---|---|---|---|---|---|
| Session handshake | `rtl/nds_h3d_control_init.sv`, `rtl/nds_h3d_session_policy_latch.sv`, main loop of `src/replay/Hybrid3DService.cpp` | header words, a queued DDR command, two state machines | publish a token, quiesce, acknowledge, clear, publish, poll, beat, fault, restart | every part of a session | one word at a time on two sides; either side dies or is reset between any two; stale commands and stale reads | `SessionControl` |
| DDR fabric | `rtl/nds_ddram_arbiter_4client.sv`, `rtl/nds_h3d_ddr_fabric.sv` | one queued command, one read, one burst, the grant | queue, accept, beat, rotate | all FPGA clients | clients are reset while it holds their commands; fairness between clients that show and that hide a request | `DdrFabric` |
| Packet path | `rtl/nds_h3d_frame_packet_writer.sv`, `src/replay/Hybrid3DFramePacket.cpp` | four slots, producer and acknowledge words, the frame chain | gather, write slot, commit, copy, verify, apply, acknowledge | record CDC, replay queue | slot reuse on an old acknowledgement; fences the console waits on; frames that span packets | `FramePacket` |
| Screen publication | publication worker of `Hybrid3DService.cpp`, `FullFramePublisher` in `src/replay/Hybrid3DAbi.h`, `rtl/nds_h3d_plane_reader.sv`, `rtl/nds_nitro_fb_ddr3.sv`, `rtl/nds_nitro_video_scanout.sv` | four banks, a descriptor under a sequence lock, private buffers and a queue, adoption state | reserve, draw, queue, claim, copy, commit, poll, stage, turn, adopt, acknowledge | replay worker, session, display | two processors, four clocks and no lock; a bank rewritten while it is shown; a crash half-way | `ScreenPublication` |
| Save persistence | `src/melonds/HeadlessSaveManager.cpp` | shadow image, generations, temporary and final file | write, flush, shutdown, debounced commit | emulator, file system | two threads, a failing system call, a power loss between any two | `SaveManager` |
| Replay queue | `src/replay/ReplaySpscState.h`, intake and replay workers of `Hybrid3DService.cpp` | a ring of 512, an arena, two words, a futex word | publish, claim, park, sleep, wake, stop | packet path, renderers | lost wake-ups; capacity; indices that wrap; a join of a sleeping worker | `ReplayQueue` |
| Matrix reads | `src/replay/GxMatrixPrefix.h`, fences in `Hybrid3DService.cpp`, `rtl/nds_h3d_gx_readback_owner.vhd`, `rtl/nds_h3d_gx_readback_reply.sv` | a shadow of the matrices, a reply in DDR, a cached reply | post a fence, answer early, answer late, poll, keep | packet path, replay queue, CPU | two threads may answer the same read; a reply read while it is written; a DMA that writes while the CPU waits | `GxQuery` |
| Takeover | `tools/standalone_host/supervisor.py`, `host.cpp`, `Kickstart.sh` | a lease file, a lock file, processes | spawn, journal, guard, kill, restore | Main, helper, FPGA | each of the processes may die before or after it is journaled | `Takeover` |
| Save bridge | `rtl/nds_nitro_save_bridge.sv`, the save chip in `third_party/Nitro_DarkSide/d2dabe/rtl/nds_card.vhd`, `sector`, `mount`, `load` of `host.cpp` | one cached sector, its dirty mark, what was mounted, the save file | access, write, erase, load, flush, create, mount, change of cartridge | console, host | written while it is flushed; a new cartridge while the old one is dirty; three clocks | `SaveBridge` |
| Host storage | `tools/standalone_host/storage_job.h`, `nand_save.h` | one worker process per job, result files | start, poll, commit | menus | a job that dies or that outlives its game | no |
| Renderers | `src/replay/Replay3D.cpp`, `ArmVideoShadow.cpp` | geometry and video memory | apply a record, draw | replay queue | pixel arithmetic | no |
| Scheduling | `AdaptiveCatchup.h`, `MatchedDisplayAdmission.h`, `ScopedQueryPriority.h` | when to draw and to sleep | | renderers | performance only | no |
| Graphics events | `rtl/nds_h3d_vram_record_packer.sv`, `nds_gx_fifo_packet_frontend.sv` | FIFOs and status mirrors | pack, queue | CDC, console | clock crossings | no |
| Console, sound, layout, firmware, menus, movies, diagnostics, experiments, vendored code | see `PROJECT.json` | | | | | no |

### 1.3 What makes each part correct

- **Session.** Nobody uses the header while the FPGA rebuilds it; the console runs
  only against exactly one service, of its own session, with the options selected
  at the load; every load, reset, death or restart comes to an end.
- **Fabric.** Client and fabric count the same beats; nothing of before a reset is
  taken for something of after it; no client that feeds the display starves.
- **Packets.** What the renderer gets is the console's stream, whole and in order;
  a slot in use is not touched; what the console waits on gets through.
- **Screens.** Only complete pictures of this session are shown, in order; nothing
  faults while the session lives; what was drawn gets shown.
- **Saves.** A save file is never torn; what was reported saved survives; whoever
  waits is answered.
- **Save bridge.** What a game wrote is in its file or on the way there, and in no
  other game's file; a file that does not fit is not touched; no load hangs.
- **Replay queue.** Order, no lost wake-up, no overrun of the arena.
- **Matrix reads.** A read shows the matrices as of a command before it, never older
  than the last read; both threads agree; each read is answered.
- **Takeover.** Never two owners of the SPI bus; a host that runs keeps its guard and
  its renderer; the bus gets an owner again.

The hazards behind these, each at its line, are listed in `PROJECT.json`.

## 2. Modules

### 2.1 SessionControl and SessionControlProofs

The handshake between `nds_h3d_control_init` and the main loop of the service. A step
of the HPS makes **one** access to the header, and `pc` names the next one. A command
of the FPGA is issued (`phase = "ready"`), taken by the fabric and answered, three
steps, and `queue` holds it between them. The queue and the DDR survive a reset of
the FPGA and the death of the HPS process, which may both come at any step
(`Mishap`). `Trigger` is a cartridge load or a user's reset.

The words that are cleared and polled are kept in the order of the code
(`ClearWords`, `PollWords`). Two events are abstract: a heartbeat time-out
(`HeartbeatTimeout`), which may come whenever the beat it waits for does, and the end
of scan-out's reads (`Scanout`), which `ScreenPublication` models in full. Left out:
telemetry, the diagnostic hold and words that no step tests.

The checks turned up one thing worth a comment in the code. `acknowledge_quiesce`
reads the magic and the request in separate accesses, so a process that is slow
enough can acknowledge a *later* request than the one it read the magic for. It does
no harm only because `initialize()` ties the policy it reads to the quiesce request
(`policy_epoch_`). Without that tie (mutant `AnyEpoch`) a service starts while the
header is being rebuilt.

### 2.2 DdrFabric

The arbiter on the DDR clock, with the ports of its four clients as the island wires
them: the Nitro controller, the plane reader, the packet writer and the control
client. Only changes are steps; the port's wait states are stuttering. `Unless` and
`Flushed` describe the clients that a reset takes back to idle, while the fabric keeps
their command. At power-up the fabric drops what may still come for the image that ran before,
until the port has been quiet for `QuietCycles` clocks in a row. How long the gaps in front
of such an answer are is not the fabric's to decide: `MaxGap < QuietCycles` is the
assumption under which the quarantine works, and the arbiter's own comment says that the
shell has to see to it. Two constants separate two behaviours of the packet writer from the
rest: `StallsInStream`, a wait state inside a packet's burst, and `FlushesInStream`, a
session that ends inside one. Both lead to the findings below. The run `fabric` has both
on: its properties hold in spite of them, with an abandoned burst as the one excuse, and
the two violation runs have one each. Left out: addresses and data.

### 2.3 FramePacket and RecordStream

`FramePacket` is the writer (`ReadControl` .. `WriteProducer`) and the consumer
(`Initialize` .. `Acknowledge`), with the four words they share. Records are told
apart by a number, packets by a sequence. A write stands for the moment it lands in
DDR, and the header's seven words are one step because nobody reads them before the
commit. `NewSession` keeps what the slots hold, commits included, and only forgets the
identity of their payload, since a new session numbers its records from one again.
`ApplyRecord` is the synchronous service and `AcceptAll` the asynchronous one. The
writer's 1024 records and the consumer's 3840 are one constant, so the consumer's own
limit is not told apart. The linger timer is abstracted: `Flush` may come whenever a
part-filled group exists. Left out: the optional H3V1 diagnostic, the CDC's own FIFO,
packing of three GX commands, record formats.

`RecordStream` is what the path promises: `applied` is always a prefix of `sent`.
`FramePacket` implements it with `Token <- Tokens`.

### 2.4 ScreenPublication, PictureShow and ScreenPublicationProofs

`ScreenPublication` follows a picture from the replay worker's buffer (`BeginDraw`,
`FinishDraw`, `Notify`) through the publication worker, whose program counter is
`worker`, and `FullFramePublisher` (`CopyScreen` .. `Commit`, every store that matters
a step), to the plane reader (`reader`), the framebuffer (`pending`, `queued`,
`reading`) and scan-out (`offered`, `activeBank`, `request`), and back to the
acknowledgement. The session's steps are here in short; `SessionControl` has them in
full. The process may die anywhere and its half-written bank and odd sequence stay.

Choices a reader should know:

- The lines of a frame and both screens are merged: a request is for a bank.
- `Buffers` are two, not a constant: it is what the format of whole pictures has
  (`ArmVideoBufferCount`, `Hybrid3DService.cpp:717`, `3871-3875`). The plane format, which
  is left out, has three.
- Crossings between clock domains are steps that come some time later; the event that
  crosses from the framebuffer to scan-out is taken at the end of a frame.
- `FrameEnd` waits for a burst of an earlier frame's bank. A burst takes microseconds
  and a frame sixteen milliseconds. Without this, a burst stalled over a whole adoption
  could read a bank that is being written: the real protocol relies on time there.
- A new service is only started on a fresh header, as `OneServicePerSession` of
  `SessionControl` establishes.

Left out: the composite and plane formats with the reader's line fetches, the console's
own 2D pictures, the split analog output, and the last of the 2^31 publications.

`PictureShow` is the promise: black, or one complete picture of this session, never an
earlier one than before.

### 2.5 ReplayQueue and ReplayQueueProofs

The queue behind the packet consumer. The intake (`intake` is its program counter) copies
a packet into the arena and publishes it, or parks on the word the worker claims with;
the worker (`worker`) looks, registers, looks again, sleeps, claims, replays. Every access
to a shared word is a step, in program order; what the C++ memory orders allow beyond
that is excluded by the release and acquire pairs named in the module's head, and the one
relaxed load is followed by stores that depend on it. The indices are words that wrap
(`WordSize`) beside slots that wrap elsewhere (`ArenaCapacity`). `Stop` is the destructor
with its join. What is inside a packet is left out. `RecordStream` is its abstraction,
too, now with packets for tokens.

### 2.6 GxQuery and GxQueryProofs

A matrix read from the CPU's bus access to its answer. `owner` is the read's owner at the
bus, with the cached reply that further reads take until a command is written; `phase` is
the scanner that polls the reply in DDR a beat at a time; `pc` holds the two threads that
may write it, the intake from its shadow `prefix` and the replay worker from `engine`.
A command either loads a matrix or swaps the buffers, which holds up what follows until
the next VBlank. Time is counted in commands: `StepTime` is what the worker grants with
a record, never nothing, and `MaxDeferredCost` and `SwapTime` are the code's constants
scaled to it, in the same relation to each other (`QueryAssumption`: 30000 and 325 clocks
of the geometry engine fit the 32768 that 65536 clocks of the ARM9 are). The stream between FPGA and service
and the queue between the threads are taken as FIFOs, which is what `packet_path` and
`replay_queue` establish. Left out: the values of the matrices, box and position tests.

### 2.7 Takeover and TakeoverProofs

Supervisor, guard and host of each launch as processes with a program counter, Main as
the supervisor sees it (`mains`, its command FIFO, the core name), the shell that starts
the helper, and the three files: lease, guard-ready and lock. `Mishaps` kill a process,
let an assertion fail, or let a time limit expire, at any step. Main's own code is not in
the repository; how it leaves and comes back is modelled from what the supervisor waits
for and marked external. The supervisor accepts nine names of Main and the host knows one
of them: `stock` says which kind Main has, and both kinds are checked and proved about. A
step waits for what the code waits for, and `TimesOut` is the guard whose wait is in vain:
a second supervisor may pass its tests (`Retest`) before the first launch's guard is lost,
and kill the Main that this guard waits for.
Process identifiers are never reused here; the code guards against that with start times.
`Settled` lets a command in Main's FIFO be taken, and a host that is about to look at its
parent look, before the next launch gets to its own check, which takes seconds.

### 2.8 SaveBridge

The save chip of the cartridge, which is a cache of one sector; the bridge that loads and
flushes it over the shell's sector channel; and the standalone host that serves the channel
from a file and changes games. All states of the bridge are here with their names (the
request and wait states of a load, in which nothing else can happen, are one). `Settled`,
`CardArrives`, `ReadyArrives` and `WriteArrives` are the clock crossings. `chip` is a
history: what each game would read if its chip were real. It follows the address that the
command or the erase names (`at`), wherever the byte lands (`WriteByte` puts it into the
cache, whichever sector that holds). A sector is two bytes, its first and its last, so that
a byte written into the wrong sector, or into one that was not loaded, shows. Erased is 0, an
older byte 1, a byte of a hole a value of its own. `spoiled` is a history too: the bytes that
card and bridge lose by what 3.3 finds. Two actions add to it, `WriteByte` a byte that lands in
another sector than its own, and `Miss` the byte whose notice comes too late (`Overtakes`);
a later write to the byte takes it out again.
`cacheDirty` is the code's `cache_dirty`, `MaxSize` the number of sectors that `SAVE_ADDR_BITS`
allows. The specification is `BridgeSpec`; its names differ from those of `SaveManager`
because one module, `SaveProofs`, holds the proofs of both (4.1, 4.2).

What the model takes for granted, each from the code's timing:

- The bytes of a command are at least 64 clocks apart (`spi_busy`) and a crossing takes
  four, so a write or a read finds the crossings settled. Its address moves on with it: past
  the last byte of a sector to the next one, and from the end of a chip to its start
  (`NextSector`), but for a write to a flash chip, which goes round in its page.
- The erase writes a byte per clock. The first byte of a further sector goes by the ready
  level of the sector before; the last is hundreds of clocks later, and by then the bridge
  has heard of the others (`EraseStep`).
- A command that ends and the next one, whose first byte clears the address, are one step
  (`CardCloses`): in between the chip is not in use, and the bridge looks at no address.
- The host's steps take milliseconds. A notice to the bridge or a reset of the card is
  done by then (`CardIsReset`), and a sector's transfer starts long after the card has seen
  that the cache is busy.
- The 100 and 500 ms for which the host serves the bridge before it mounts and before it
  exits are long enough for one flush (`OutgoingDrained`, `Exit`).
- Storage does not fail and the host does not die between taking a sector and writing it.

Left out: NAND cartridges, games without a save chip, read-only and oversized files,
truncated transfers, the reset of the media at power-up, native firmware, and MiSTer's
Main as the frontend.

### 2.9 SaveManager, DurableSave and SaveProofs

Every critical section of `mutex_` is one action, and every system call of
`commitSnapshot` is one, so that `Kill` and `PowerLoss` fall between any two. Contents
are image numbers; `survivors` is the set of files that a power loss may leave under
the save's name. `DirSync` says whether the file system syncs directories (FAT and exFAT
do not, and the code tolerates the refusal). Abstracted: byte ranges and wrap of
`requestWrite`, and the debounce interval. `DurableSave` is the promise to the emulator.

## 3. Runs

| run | question | bounds | result |
|---|---|---|---|
| `session` | Header and banks quiet while rebuilt, one service per session, the menu's choice, one release; is every load, restart and death of the helper answered? | 7 tokens, 2 loads or resets, 1 mishap | holds, 514 k states |
| `session_fault` | Is a fault published before the client rests? | 5 tokens, 1, 1 | **violated** |
| `fabric` | In step, old commands drained and finished, no starvation of the two real-time clients | limit 3, bursts of 3, stalls and flushes on | holds, 65 k |
| `fabric_stall` | Is a wait state in a packet's burst harmless? | limit 2, bursts of 2 | **violated** |
| `fabric_flush` | Is a session's end in a packet's burst harmless? | limit 2, bursts of 2 | **violated** |
| `packet_path` | The stream, slots, faults, fences, progress | 2 slots, packets of 2, 4 records, 3 sequences, 2 sessions | holds, 226 k |
| `replay_queue` | Order, slots apart, no lost wake-up, progress | capacity 2, words modulo 4, 5 packets | holds, 20 k |
| `gx_query` | Reads in order, both threads agree, each read answered | 3 commands, 1 VBlank, 2 identifiers, 2 sessions | holds, 356 k |
| `screen_publication` | Whole pictures, order, no faults, progress | 3 banks, 4 pictures, 2 sessions, 1 death | holds, 379 k |
| `takeover` | One owner and the renderer kept, but for a Main the host cannot see; guarded; the bus owned again | 2 launches, 3 mishaps, either kind of name | holds, 895 k |
| `save_bridge` | No byte lost or misplaced but at the ends of sectors (3.3), foreign files untouched, each load gets its save memory | 2 games of 2 sectors, 2 writes or erases, 2 loads, resets or exits | holds, 931 k |
| `save` | Never torn, promises kept, refinement; everyone is answered | 3 writes, 2 faults, 2 crashes, `DirSync` | holds, 498 k |

### 3.1 Why the bounds are enough

- **session**: a mishap can meet a trigger, a second trigger and the restart that follows
  it. The safety properties also hold with two mishaps and two triggers (2.3 M states),
  which is too long for a run with liveness. The token starts either at zero or at its last value, left by an earlier power-on,
  so its wrap is met at once. `MaxToken` is assumed large enough that no token comes
  round a second time: a process that sleeps over 2^32 sessions is out of the model.
- **fabric**: the arbiter's rotation, its sticky bound and its counter of beats all reach
  their ends; more beats add nothing but length.
- **packets**: with two slots the writer waits on a full ring within four records, a frame
  spans packets, a packet ends in a boundary, a fence and a full buffer, and the last
  sequence is reached. The second session finds old commits with its own first
  sequences. `MaxSent` may be exceeded by one, the end that comes with a last record.
- **screens**: three banks are fewer than the code's four, so a bank comes round sooner:
  the fourth picture overwrites the first one's. The same module with four banks and five
  pictures also holds (1.18 M states) but takes more than four minutes with the liveness
  property. With two banks `ScannedBankWhole` fails: a line of the old bank, queued
  before scan-out turned, is still being read when that bank is rewritten. The design
  needs three.
- **replay queue**: the queue fills with one packet under replay, both threads sleep, the
  words wrap at the fourth packet and the slots at the third. The proofs make the bounds
  of this module irrelevant for its safety properties.
- **matrix reads**: an identifier is used up and starts again in the second session; the
  shadow and the engine are apart by the two commands around a swap, and the VBlank comes
  before, between or after them.
- **takeover**: the second launch meets what the first left, at every step of its guard;
  three mishaps can kill all three processes of a launch. Three launches with two mishaps
  also keep the invariants (5.07 M states).
- **save bridge**: two sectors make a miss with a dirty cache, an erase that crosses and a
  write that runs on into the next sector, and from the last sector to the first;
  two requests change the game in each direction, or reset it and exit; the files are
  missing, old, exact and of a wrong size. With chips of three sectors, where an erase goes
  through a sector that is neither its first nor its last, the safety properties and the
  parts of the proof's invariant also hold (7.19 M states); that is too long for a run. For
  the safety properties 4.2 makes these bounds irrelevant.
- **saves**: a commit can be overtaken by writes, fail, be retried, be killed, and a
  second session can start on its remains.

`CHECK_DEADLOCK FALSE` stands in five configurations: where the bound on records, commands
or pictures stops the console or the last sequence stops the writer, where no launch is left,
and where the standalone host has exited.

### 3.2 Fairness

- `SessionControl`: the FPGA's steps (it is clocked), the HPS's steps while its process
  lives (it polls), the time-outs, and the end of scan-out's reads. **Nothing** forces a
  dead process to start again, so `DeadServiceStopsConsole` is what the FPGA does alone.
- `DdrFabric`: a clock tick, that is, the port does not wait for ever and answers every
  read; the control client's requests and the release. No client is made to ask.
- `FramePacket`: the writer and the consumer. Nothing makes the console send more, which
  is the point of `AwaitedApplied`.
- `ScreenPublication`: the two threads, the reader's polls, the raster and the end of
  every burst. `FinishDraw` is fair because the console's lines never stop while it
  runs: a reservation may give up the last *completed* picture for one just begun, and
  if that one were never finished, the completed one would not be shown. Neither
  `BeginDraw` nor any step of the session is fair.
- `ReplayQueue`: the two threads, and the time limit of the intake's wait, which is one
  millisecond. Nothing makes the console send, a session end or a signal come.
- `GxQuery`: the FPGA's clock, and one of the service's threads that can run. The CPU need
  not read, and no VBlank need come.
- `Takeover`: processes are scheduled and Main obeys. No user starts or ends anything, and
  no mishap has to happen.
- `SaveBridge`: the clocks, the host's thread and the console's loader, together: while one
  of them has a step to take, they do not all stop. Nothing is asked of the game, which need
  not even end its SPI commands, of the quiet counter or of the user.
- `SaveManager`: the worker, and the owner's return from a wait that it was woken from.
  The owner is not made to flush or to shut down.

### 3.3 Findings

1. **A fault may not be published** (`session_fault`, `rtl/nds_h3d_control_init.sv:783`).
   A fault raised while another state's write is issued enters `WRITE_FAULT` with
   `issued_command` set; the acceptance of the old write is taken for the fault word's.
   The FPGA then rests in `FAULT_HOLD`, which does not poll, and the header says nothing.
2. **A wait state in a packet's burst is a protocol error** (`fabric_stall`,
   `rtl/nds_h3d_frame_packet_writer.sv:211`). The writer drops its write enable while
   busy; the arbiter takes that for a broken burst, and its error is sticky to power-up.
3. **A session that ends in a packet's burst blocks the fabric** (`fabric_flush`,
   `rtl/nds_h3d_frame_packet_writer.sv:270`). The burst is never completed.
4. **The host knows one of the nine names of Main** (`takeover`, `tools/standalone_host/host.cpp:87`).
   A supervisor that dies between the spawn of the host and its journaling, and a guard that
   dies after it has started such a Main, leave a host that takes the bus beside it.
5. **An erase does not stall at the end of a sector** (`save_bridge`,
   `third_party/Nitro_DarkSide/d2dabe/rtl/nds_card.vhd:665`), as the comment above it says it
   does. The first bytes of every further sector land in the sector before, by the ready level
   that is on its way down, and stay what they were where they should have been erased. (The
   test bench ties ready to one, `tb_nds_card_eeprom_sizes.vhd:87`.)
6. **A write past the end of a sector may lose the byte at the end** (`save_bridge`,
   `rtl/nds_nitro_save_bridge.sv:374`). The byte's toggle and the next address arrive together;
   if the byte was the first one to make its sector dirty, `ST_READY` takes the miss with
   `cache_dirty` still low and loads the next sector over it. EEPROM and FRAM only.

The runs of the first three are expected to fail. The last three are exceptions in the
properties of runs that hold: `Unseen` in `NeverTwoOwners` and `RendererKept`, and `spoiled`
in `SaveKept`. Each exception is as narrow as the finding (`OnlyAtTheEnds` says where lost
bytes can be at all), and a property without it fails: without `spoiled` in `NothingLost`,
a chip erase breaks it on the flash chip and a write of one byte on the EEPROM; without it
in `ReadsBack`, the EEPROM reads back the old byte.

### 3.4 Observations

What modelling brought up beyond the findings. No run is about these.

Saves of the HPS backend:

- A shutdown that meets an older commit which fails gives up without trying the newest
  image (`src/melonds/HeadlessSaveManager.cpp:557`), against the comment two lines below.
- `forceFlush_` may stay set after a flush that another commit satisfied (line 660), which
  costs a debounce and nothing else.

Session and fabric:

- A control client that rests in `FAULT_HOLD` does not poll (`rtl/nds_h3d_control_init.sv:787`),
  so a restarted helper's request for a session waits for the next load or reset.
- The arbiter has schedules in which the Nitro controller and the plane reader alternate
  for ever while the packet writer and the control client wait, because only a client that
  shows its request while busy is counted as waiting (`rtl/nds_ddram_arbiter_4client.sv:254`).
  `RealTimeServed` is therefore stated for the first two only.

Replay queue:

- The worker wakes a parked intake only if its snapshot showed a full queue
  (`src/replay/Hybrid3DService.cpp:2034-2038`), and the packet that filled the queue may be
  younger than the snapshot. The intake then sleeps until its time limit of 1 ms, contrary to
  what the comment at 1431-1434 suggests; the limit is what makes `Progress` hold.
- The intake's load of `claimed` (`src/replay/ReplaySpscState.h:91-96`) is relaxed. The
  stores to the slot depend on it through a branch only.

Takeover:

- The tests of one Main and of no guard come before the lease (`supervisor.py:532-535`,
  `557`), and what they found may be over by then. `Retest` and `WriteLease` are two steps;
  the properties hold all the same.
- A supervisor killed while `Kickstart.sh start` runs leaves that shell behind, and it may
  start the helper after the guard has stopped it (`supervisor.py:274-275`).
- A killed guard leaves its guard-ready file, and every later launch is refused; a guard whose
  time limits of 25, 15, 30 or 45 s expire lets go of the lock without a Main. A launch right
  after a killed one may find the guard-ready file not yet written.

Save bridge:

- **An interrupted creation.** The bridge creates a missing file sector by sector
  (`rtl/nds_nitro_save_bridge.sv:347-371`), a sector for each pass of the host's loop, up to
  2048 of them. If the user loads another game or ends the host meanwhile, the file stays as
  long as it got. At the next load it has a wrong size, and from then on the game runs on a
  chip that does not last, without a word, although lines 314-316 promise an exact-size file.
- The host acknowledges a sector before it writes it (`host.cpp:2333-2338`): a failing
  `pwrite` loses the sector and ends the host.

## 4. Proofs

### 4.1 Saves of the HPS backend

`SaveProofs` proves of `SaveManager`, for every number of writes, faults and crashes and for both
kinds of file system, from `SaveAssumption` alone:

| theorem | |
|---|---|
| `SaveInvariant` | `Spec => []SaveInv` |
| `TypeCorrect` | the types |
| `SaveNeverTorn`, `SavePromiseKept`, `SaveCleanMeansSaved` | invariants of `save` |
| `SaveShutdownFailureHasCause` | invariant of `save`, from `StopInv` |
| `SaveNeverGoesBack` | only a power loss takes the file back to an older image |
| `SaveImplementsDurableSave` | with `DirSync`, every step is a step of `DurableSave` or a stutter |

None of the properties is inductive. That a save file is whole depends on what the
system calls before the rename have done to the temporary file (`CommitInv`); that a
promise survives depends on which files a power loss may leave (`DiskInv`); that
`~dirty` means saved depends on how the generations of snapshot, commit and shadow
relate (`GenerationInv`), and all of it on which thread may be where (`PhaseInv`).
`SaveInv` joins the four with `TypeOK` and `PromiseKept`. The module proves that it holds
initially and one lemma for each conjunct that every action keeps it, case by case over
`Next`, and concludes with the temporal step. The flags are Boolean by a lemma of its
own (`FlagsStep`), because they are best left to another prover than the arithmetic.
`StopInv` is inductive on top of `SaveInv`: a worker that ends while something is unsaved
has just failed, and nobody can write any more.

### 4.2 Saves of the FPGA

`SaveProofs` proves of `SaveBridge`, from `SaveBridgeAssumption`, for every set of games, every
size of their chips, every length of their files, and every number of writes, erases, loads,
resets and exits:

| theorem | |
|---|---|
| `BridgeInvariant` | `BridgeSpec => []BridgeInv` |
| `SaveIsKept` | the invariant `SaveKept` of `save_bridge` |
| `FilesAreComplete` | a game's file that is not open any more, and every file once the host has ended, has all that was commanded, but for the bytes in `spoiled` |
| `FilesAreRespected` | the property `WrongSizeUntouched` of `save_bridge` |

`SaveKept` says where a byte may be newer than its file; an inductive account has to say
why it is nowhere else. `ContentInv` is that account: every byte of every game that is not
`spoiled` is in its file, counting the sector in the host's hand (`Sidecar`), but for those of
the cached sector, and those only as long as it is dirty, or the notice of a write is on its
way and the card has not turned to another sector, unless the byte is the last one
(`OnlyCached`). So a load, a change of game and the end of the host find nothing to lose, and
a miss that does not flush finds at most that last byte, which it adds to `spoiled`
(`Overtakes`). `NoticeInv` bounds the exception: the notice of a first write is overtaken
only on a chip that is not flash, never while a flush or a load is under way, and
`OnlyAtTheEnds` holds. Where a byte lands needs `ReadyInv`: a card that sees ready is served
what it asks for, or is an erase that has run one byte into the next sector, and then the
sector before is marked already. `EraseInv` keeps that stray byte harmless: the byte it
overwrites is erased too. That a sector goes to the file of
its own game needs `ChangeInv`: what the game before left is flushed before the next file is
opened, and the profile taken with a mount notice is that of the file in the notice, since
the profile is seen to be gone in between (`armed`). `FileInv` follows the length of a file
that is created, extended or complete; it lets a store change one sector and nothing else
(`PaddedStored`), and with `JudgeInv`, which keeps the verdict on the size for as long as the
file is open, gives `FilesAreRespected`. `HostInv` and `CardInv` say in which steps of the host
the card is held and still. `FilesAreComplete` follows from `SaveKept` and from the fact that
an ended host takes no sector (`EmptyHanded`).

`HostStep` to `ContentStep` prove one conjunct each, action by action, from what the actions
do (`LoadFacts` to `ExitFacts` for those of the host) and from what they leave alone
(`HostRests` to `CardStepRests`).

### 4.3 Packets

`FramePacketProofs` proves, from `PacketAssumption`, for every number of slots, every
size of packets and bursts, every last sequence and every place a session may end:

| theorem | |
|---|---|
| `PacketInvariant` | `Spec => []PacketInv` |
| `PacketSlotInUseUntouched` | the property `SlotInUseUntouched` of `packet_path` |
| `PacketPathInvariant`, `PacketTypeOK` | `Spec => []PathInv`, and the types |
| `PacketNoFaults` | its invariant `NoFaults` |
| `PacketImplementsRecordStream` | its refinement of `RecordStream` |

The writer decides that a slot is free when it opens a packet, on an acknowledgement
that may be many packets old, and writes much later. `PacketInv` carries the decision
to the write: while the writer lives, what it knows of the acknowledgement is at most
too old (`acknowledged <= ack`), and an open packet is the one after the last and less
than `SlotCount` ahead of it. `CountersOK` keeps `ack <= producer`, so the consumer's
own steps only widen the gap. A session's end is covered because a writer that is not
released waits with nothing open. `DifferentSlots` then gives the arithmetic: two
sequences less than `SlotCount` apart never share a slot.

`PathInv` is about what the slots hold. The stream and the packets are kept apart by no
variable of the program, so the invariant says that there is a way to cut the one into
the other: a function `at`, where the packets up to `q` take the first `at[q]` tokens.
Every packet not yet acknowledged holds its piece (`CutInv`), the slot in the making and
the burst hold the rest (`HeldInv`), and what was applied is what lies before the
consumer's place (`AppliedInv`). Opening or closing a packet extends `at`; no step
changes a piece, because `PacketInv` keeps the writer off the slots in use. That the
consumer never objects needs more than the right contents: a header names the session,
the sequence and the slot it is expected at (`SlotInv`), a readback fence stands last
(`FenceInv`), and a packet that continues a frame is followed by one of the same frame
(`ChainInv`, again with a function, from the header the consumer is at to the one being
built; `FrameInv` ties its end to the source). The first frame of a session begins with
no chain whatever an old session left, because `pc = "off"` and a writer that waits have
sent nothing. `BuildInv` and `ConsumerInv` say where in its sequence of accesses each
side is and what it has by then.

### 4.4 Replay queue

`ReplayQueueProofs` proves, from `ReplayAssumption`, for every capacity, every size of the
words larger than that and every number of packets:

| theorem | |
|---|---|
| `ReplayInvariant` | `Spec => []ReplayInv` |
| `ReplaySlotsApart`, `ReplayNoLostWake` | the invariants of `replay_queue` |
| `ReplayReplaysInOrder` | its refinement of `RecordStream` |

`ReplayInv` has four parts. `IndexInv`: the slots run with the words although they wrap
elsewhere, and whoever is about to write has one to spare; `DepthSteps` and `SlotItself`
are the modular arithmetic. `WakeInv`: if the worker is registered and there is work it has
not seen, the intake still has to notify or the generation has moved. It is stated for the
states before the sleep, too, which is what makes `NoLostWake` inductive. `ContentInv`: the
slots hold what is accepted and not yet replayed, in order.

### 4.5 Fabric

`DdrFabricProofs` proves, from `FabricAssumption`, for every sticky limit, every longest
burst and every length of the quarantine, with stalls and abandoned bursts:

| theorem | |
|---|---|
| `FabricInvariant` | `Spec => []FabricInv` |
| `FabricInStep`, `FabricDrained` | the invariants of `fabric` |
| `QuarantineHolds` | `Spec => []QuarantineInv` |

`InStep` says where a client's transaction must be, but not that there is only one:
`OneInFlight` adds it, and `PortsWhole` that whoever has a transaction knows its length,
without which nothing tells a last beat from another. `ServedAfterDrain` carries the
argument of `OldCommandsDrained`: the console is released long after the control client was
served, and a command of its own can only have been served when everything before it had
drained. One lemma for each action shows that it keeps `FabricInv`. Two helpers bear most
of them: `BeatOfOwner` for what a beat does to the ports, and `AtRest`, since after a last
beat only the types are left to prove. `QuarantineInv` is independent of the rest: while an
answer of before is to come, the quiet clocks in a row are the clocks since the last one.

### 4.6 Takeover

`TakeoverProofs` proves, from `TakeoverAssumption` alone, for every number of launches and
of mishaps and for a Main of either kind of name:

| theorem | |
|---|---|
| `BusInvariant` | `Spec => []BusInv` |
| `OneOwner`, `HostIsGuarded` | the invariants of `takeover` |
| `RendererStays` | its action property `RendererKept` |

That Main and a host never share the bus is not a matter of one lock. The lock keeps
hosts and guards apart (`LockHeld`); preflight keeps supervisors apart (`OneSupervisor`,
`Alone`); the parent's death signal tells a host that was left behind (`OrphansTold`); and
nothing but the supervisor asks for the core of the DS, which it goes on from only when
the Main that loads it is there and can be killed (`MainPrepared`). `BusInv` joins them
with `OwnerAlone`, the claim itself. A Main that the host cannot see takes one more part:
from the supervisor's last look on, only a guard brings Main back, and it holds the lock
until it has Main in its menu, where the host takes no bus, unless it is lost on the way
(`NotBack`). That is why the exception of the properties, `Unseen`, needs a lost guard as
well as the name. `GuardInv` is on top of it: the lease is true of the
launch it names, a guard ends no launch that is not over, and one that is done leaves
Main in its menu, which a host left behind then sees (`Covered`).

### 4.7 Screens

`ScreenPublicationProofs` proves, from `PublicationAssumption` and for three banks or
more, for every number of pictures, sessions and deaths:

| theorem | |
|---|---|
| `ScreenInvariant` | `Spec => []ScreenInv` |
| `ScannedBanksAreWhole`, `FaultsAtEndOnly` | the invariants of `screen_publication` |
| `ShowsPictures` | `Spec => ImplementsPictureShow`, the refinement of `PictureShow` |

The argument counts complete publications, `Pub`, and acknowledged ones, `Ack`. The worker
writes only when the two are equal (`FenceInv`), to the bank of `Ack + 1` (`CopyInv`).
While the reader is busy, `Pub` is `Ack + 1` (`ReaderInv`). Scan-out shows and asks for the
bank of `Ack`, or, once it has turned, of `Pub`, and only a burst left over may read that
of `Ack - 1` (`ScanInv`). Three banks in a row are different (`SlotsApart`), so the bank
that is written is none of these; with two banks that of `Ack - 1` is the one written, as
TLC shows. `QueueInv` carries the other theorem: from the look at the queue to the claim
nobody but the worker takes a picture from it, and the worker holds no buffer of its own.

For the refinement `OrderInv` follows the numbers of the pictures: the newest published one
(`Last`, or the last of the session before) is older than the one the worker has claimed,
and that one older than the queued one, since a new picture replaces the queued one and
nothing is drawn over a claimed buffer. With `ScanInv`, when scan-out turns it turns from
the bank of `Ack`, or from black, to that of `Pub`, which is a `Show` of a newer picture of
the session; the withdrawals of the console are `Close`, `NewSession` is `Open`, the end of a
drawing is `Draw`, and every other step leaves the picture on the screens as it is
(`ShownStays`), because the bank shown is never the one copied to.

### 4.8 Session

`SessionControlProofs` proves, from `SessionAssumption` alone, for every number of loads,
resets and mishaps and for tokens of every width the assumption allows:

| theorem | |
|---|---|
| `QuietInvariant` | `Spec => [](QuietInv /\ TokenInv)` |
| `QuietWhileReinit`, `ScanoutQuiet` | the invariants `HpsQuietWhileReinit` and `ScanoutQuietWhileReinit` of `session` |
| `ServiceInvariant` | `Spec => [](QuietInv /\ TokenInv /\ ServiceInv)` |
| `ServesOnce`, `MenuChoiceHolds` | the invariants `OneServicePerSession` and `MenuChoiceApplied` of `session` |
| `ReleasesOnce` | the action property `ReleasedOnce` of `session` |

`Reached` says what the header has become by the time the FPGA is in a state, or has a
command of that state in the fabric: whichever of the two a reset parts from the other, the
command still finds the header it was meant for (`Own`, `AnswerTrue`). From its
acknowledgement until the new session is active the request is `Granted`, and the HPS is
`Calm`. Either it has not seen the active magic since, or it is `Misled`: it acknowledged a
request after it had read an old magic and takes the header for a new one. Such a header
is untouched by any service (`LateAck`), and the loop gets no further than the policy epoch,
which names another session. In neither case is a store of the HPS to come.

All this needs the next token to be nobody's old one, which is what `TokenInv` proves. A
token that the header or the HPS still has falls behind the newest request only by
sessions that a load or a reset has asked for (`Counted`). The HPS cannot add to these: it
is heard only while the client polls, and then everything has the newest token (`Newest`).
So an old token is never more than `MaxTriggers` behind, and tokens come round later.

`ServiceInv` is about the services. `UsedInv` and `SessionsBound` count tokens from the
power-on. Each is used for a load, a reset or a mishap, since without a mishap the header is
fresh or its service lives (`Intact`) and the HPS asks for nothing (`MayAsk`); the ghost
token of an earlier power-on, `MaxToken`, is therefore never reached, and a token that is
taken has had no service. `OwnerInv` ties the HPS to the session it serves: from the reading
of the policy on, the header has its session and its policy, and its next request is not
granted. A candidate that took its session from an old header is the one that was `Misled`,
and finds the policy of another epoch. `HeaderInv` says that only an untouched header has a
candidate, that no service has become Ready before the candidate's store, and that the
header of a session that had one shows it for as long as the session lasts; so the candidate
that makes a service Ready is the first. `PollInv` and `PollTrue` carry that to the FPGA,
which learns it from answers that may be old: while it believes the service Ready, no
answer can show anything but `Ready`, a fault or a restart request, which is why the release
of the console is not taken back and given again within a session (`ReleasedOnce`).

### 4.9 Matrix reads

`GxQueryProofs` proves, from `QueryAssumption`, for every number of commands, VBlanks,
sessions and identifiers:

| theorem | |
|---|---|
| `QueryInvariant`, `QueryTypeOK` | `Spec => []QueryInv`, `Spec => []TypeOK` |
| `ShadowAgrees`, `ReadsAreInOrder` | the invariants of `gx_query` |

Two machines take the same records: the intake's shadow, which executes a command at once
or gives up, and the worker's engine, which executes one when it has the time. `Match`
relates the two where they have taken the same records: while the shadow is valid the engine
has executed and holds the same commands, no more of them than the shadow may defer, and
owes little enough time to get through them in a step. `MatchStep`, over any record, is
where the arithmetic is. It needs that a step of the worker grants some time at
all: with `StepTime = 0` the engine never executes what the shadow has answered for, TLC
finds the disagreement, and `QueryAssumption` excludes it.

In the system the two are apart by what the queue holds. `Chain` unrolls the shadow along
the queue, from the worker's place (`T[0]`, which matches the engine) to the intake's, with
the loads written up to each record (`D`, and `C` along the stream). The intake puts a
record at its end and the worker takes one off its front, where `MatchStep` gives the
agreement. The functions are quantified in the invariant, so that the model needs no
history of them.

`OneReply` follows the one read that can be on its way: asked for in the stream, left to the
worker in the queue, in the hands of a thread, or posted, and in one of these only. So
`wanted` belongs to it, and with `ScanInv` the reply stands still while the scanner reads
it. `ReadInv` says that an answer shows no more than the read is behind, and all of it if
it does not say busy, which is read off the chain. That it shows no less than the read
before is `FloorInv`: whatever a read has shown lies in front of the next fence, in the
engine or as a fast answer in the queue that the worker still has to come to, and the
agreement says that it does.

### 4.10 Only model-checked

Every liveness property, since temporal reasoning under fairness is beyond the prover
used here. Every safety property that a passing run checks is proved.
The inductive invariants of 4.2 and of 4.6 to 4.9 were first checked by TLC on instances
like those of the runs.

## 5. Not modelled

`PROJECT.json` lists every remaining component with its reason. In short: pixel
arithmetic and audio are data, not protocol; pacing decides when, not what; menus and
layouts keep no shared state; the experiments are not instantiated in the production
build; vendored code is somebody else's. The graphics events in front of the record CDC,
the console's buses, the firmware store and the host's file jobs are protocols and are
left for later. Only the fabric and the save manager are complete; the notes of the other
components say what they leave out.

## 6. Plan

1. Done: `SaveManager`, `FramePacket`, `ReplayQueue`, `DdrFabric`, `Takeover`,
   `GxQuery`, `ScreenPublication`, `SessionControl` and `SaveBridge` with their proofs, and
   the abstract `DurableSave`, `RecordStream`, `PictureShow`.
2. `FirmwareStore`: the firmware cache, its commit sequence and the host's atomic image
   (`rtl/nds_firmware_cache.sv`, `tools/standalone_host/firmware_media.h`), with storage that
   fails at every step and a power loss. Properties: an acknowledged commit is durable, a
   stale acknowledgement has no effect, a seed never overwrites.
3. Composition: `FramePacket` with `ReplayQueue` against `RecordStream`, and the session
   steps of both path modules derived from `SessionControl`'s.

## 7. Files and use

`X.tla` is a component, `MCX.tla` its instance for TLC, `XProofs.tla` its proofs
(`SaveProofs.tla` those of `SaveManager` and `SaveBridge`). Each
run is one `.cfg`: `tlc -config PacketPath.cfg MCFramePacket`. Seeded faults, operators
commented as such, sit before the definition that they replace. `PROJECT.json` names,
for every property, one such fault that breaks it, and for every definition the lines of
source it stands for. Proofs: `tlapm SaveProofs.tla`,
`tlapm FramePacketProofs.tla`, `tlapm ReplayQueueProofs.tla`, `tlapm DdrFabricProofs.tla`,
`tlapm TakeoverProofs.tla`, `tlapm ScreenPublicationProofs.tla`,
`tlapm SessionControlProofs.tla`, `tlapm GxQueryProofs.tla`.
