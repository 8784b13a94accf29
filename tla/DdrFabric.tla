----------------------------- MODULE DdrFabric -----------------------------
(***************************************************************************)
(* The DDR fabric of the hybrid core: nds_ddram_arbiter_4client, which     *)
(* shares MiSTer's one DDR port among four clients, as                     *)
(* nds_h3d_ddr_fabric configures it and nds_nitro_console_island wires it. *)
(*                                                                         *)
(*   Legacy   the Nitro DDR controller: bursts of reads and writes, and it *)
(*            holds a request on its port until the request is taken       *)
(*   Plane    the scan-line plane reader: reads, and one-beat acks         *)
(*   Packet   the frame packet writer: reads, and bursts of writes         *)
(*   Control  the session initialiser: one-beat reads and writes           *)
(*                                                                         *)
(* A step of the fabric is a DDR clock.  Clocks on which nothing changes,  *)
(* the physical port's wait states among them, are stuttering steps, and   *)
(* payloads are left out.  The plane reader and the packet writer are held *)
(* in reset while the console is not released; the fabric is reset only at *)
(* power-up, so a command of a client that was reset stays behind in it.   *)
(* After power-up answers to the image that ran before may still come.     *)
(***************************************************************************)
EXTENDS Naturals, FiniteSets

CONSTANTS
  StickyLimit,      \* STICKY_GRANT_LIMIT
  QuietCycles,      \* RESET_QUIET_CYCLES
  MaxStale,         \* answers still on their way to the image before
  MaxGap,           \* the most quiet clocks in front of one of them
  MaxBurst,         \* the longest burst a client asks for, in beats
  StallsInStream,   \* may the port wait in the middle of a packet's burst?
  FlushesInStream   \* may the session end in the middle of a packet's burst?

ASSUME FabricAssumption ==
  /\ StickyLimit \in Nat \ {0}
  /\ MaxBurst \in Nat \ {0}
  /\ QuietCycles \in Nat \ {0} /\ MaxStale \in Nat
  /\ MaxGap \in Nat /\ MaxGap < QuietCycles
  /\ StallsInStream \in BOOLEAN
  /\ FlushesInStream \in BOOLEAN

Legacy  == 0
Plane   == 1
Packet  == 2
Control == 3
Clients == 0 .. 3
None    == 4

Path == {Plane, Packet}      \* reset while the console is not released

VARIABLES
  grantOwner,     \* the client whose busy line is low while nothing is in flight
  grantDwell,     \* the grant is in the first of its two clocks
  stickyCount,    \* transactions in a row of a productive owner
  resumeOwner,    \* the owner the plane reader jumped, or None
  command,        \* the queued command: its owner, operation and burst
  readOwner, readBeats,        \* the read in flight and the beats it still owes
  streamOwner, streamBeats,    \* the burst write in flight
  quarantine, quiet,           \* nothing is granted yet; quiet clocks in a row
  stale, gap,     \* answers of before to come; clocks since the last of them
  protocolError,
  port,           \* each client's view of its own transaction
  released,       \* console_release: the path clients run
  served,         \* the control client finished a command since the reset
  armed           \* epoch_command_armed of the control client

fabricVars == <<grantOwner, grantDwell, stickyCount, resumeOwner, command,
                readOwner, readBeats, streamOwner, streamBeats>>
epochVars  == <<released, served, armed>>
powerVars  == <<quarantine, quiet, stale, gap>>
vars == <<fabricVars, powerVars, protocolError, port, epochVars>>

Idle == [state |-> "idle", op |-> "none", beats |-> 0, held |-> FALSE]
NoCommand == [owner |-> None, op |-> "none", beats |-> 0]

Requests == [state : {"want"}, op : {"read", "write"}, beats : 1 .. MaxBurst,
             held : BOOLEAN]

\* What each client asks for.  Only the Nitro controller and the line fetches
\* of the plane reader keep a request up while their busy line is high.
Asks(c) ==
  CASE c = Legacy  -> {r \in Requests : r.held}
    [] c = Plane   -> {r \in Requests : r.op = "read" \/ (r.beats = 1 /\ ~r.held)}
    [] c = Packet  -> {r \in Requests : ~r.held /\ (r.op = "read" => r.beats = 1)}
    [] c = Control -> {r \in Requests : ~r.held /\ r.beats = 1}

Init ==
  /\ grantOwner = Legacy /\ grantDwell = TRUE
  /\ stickyCount = 0     /\ resumeOwner = None
  /\ command = NoCommand
  /\ readOwner = None    /\ readBeats = 0
  /\ streamOwner = None  /\ streamBeats = 0
  /\ quarantine = TRUE  /\ quiet = 0
  /\ stale \in 0 .. MaxStale /\ gap = 0
  /\ protocolError = FALSE
  /\ port = [c \in Clients |-> Idle]
  /\ released = FALSE /\ served = FALSE /\ armed = FALSE

-----------------------------------------------------------------------------
(* The grant                                                               *)

InFlight == command # NoCommand \/ readBeats > 0 \/ streamBeats > 0
Granted(c) == ~quarantine /\ ~InFlight /\ grantOwner = c

NextOwner(c) == (c + 1) % 4

\* While something is in flight every busy line is high, so a completion sees
\* only the requests that are held.
Visible(c) == port[c].state = "want" /\ port[c].held

VisiblePeers(c) == {d \in Clients \ {c} : Visible(d)}

\* The first visible peer after c in the rotation.
FirstPeer(c) ==
  CHOOSE d \in VisiblePeers(c) :
    \A e \in VisiblePeers(c) : (d + 4 - c) % 4 <= (e + 4 - c) % 4

\* Seeded fault: a productive owner is never made to let go.
NormalOwnerSticks(c) ==
  IF VisiblePeers(c) # {} THEN FirstPeer(c) ELSE c

\* The owner after c by the rotation alone: a visible peer, else c itself for a
\* bounded run, else the next client.
NormalOwner(c) ==
  IF VisiblePeers(c) # {} THEN FirstPeer(c)
  ELSE IF stickyCount + 1 < StickyLimit THEN c ELSE NextOwner(c)

NormalSticky(c) ==
  IF VisiblePeers(c) = {} /\ stickyCount + 1 < StickyLimit
  THEN stickyCount + 1 ELSE 0

\* The grant after a transaction of c.
NextGrant(c) ==
  /\ grantDwell' = TRUE
  /\ IF c = Plane /\ resumeOwner # None
     THEN /\ grantOwner' = resumeOwner
          /\ stickyCount' = 0
          /\ resumeOwner' = None
     ELSE IF c # Plane /\ Visible(Plane) /\ NormalOwner(c) # Plane
     THEN /\ grantOwner' = Plane
          /\ stickyCount' = 0
          /\ resumeOwner' = NormalOwner(c)
     ELSE /\ grantOwner' = NormalOwner(c)
          /\ stickyCount' = NormalSticky(c)
          /\ UNCHANGED resumeOwner

grantVars == <<grantOwner, grantDwell, stickyCount, resumeOwner>>

-----------------------------------------------------------------------------
(* The clients' side of a transaction                                      *)

\* The Nitro controller is clocked by its busy line: it can raise a request
\* only on a clock on which that line is low.
LegacyMay(p) ==
  IF Granted(Legacy) /\ p[Legacy] = Idle
  THEN {p} \cup {[p EXCEPT ![Legacy] = r] : r \in Asks(Legacy)}
  ELSE {p}

\* One beat of c's transaction is taken or delivered, unless c was reset and
\* does not know of it.
Beat(p, c, state) ==
  IF p[c].state # state THEN p
  ELSE IF p[c].beats = 1 THEN [p EXCEPT ![c] = Idle]
  ELSE [p EXCEPT ![c].beats = @ - 1]

Unless(reset, p) == [c \in Clients |-> IF c \in reset THEN Idle ELSE p[c]]

\* The control client has finished a command of its own.
Serves(c) == served' = (served \/ (c = Control /\ port[Control].state # "idle"))

\* A client presents a request whose busy line is low, or holds it up.
Raise(c) ==
  /\ c # Legacy
  /\ c \in Path => released
  /\ port[c] = Idle
  /\ \E r \in Asks(c) : port' = [port EXCEPT ![c] = r]
  /\ UNCHANGED <<fabricVars, protocolError, powerVars, epochVars>>

-----------------------------------------------------------------------------
(* The clocks of the arbiter                                               *)

\* The owner of the grant presents a request: it is copied into the queue.
QueueCommand ==
  LET c == grantOwner
  IN /\ Granted(c)
     /\ port[c].state = "want"
     /\ command' = [owner |-> c, op |-> port[c].op, beats |-> port[c].beats]
     /\ port' = [port EXCEPT ![c].state = "queued"]
     /\ grantDwell' = FALSE
     /\ armed' = (armed \/ c = Control)
     /\ UNCHANGED <<grantOwner, stickyCount, resumeOwner, readOwner, readBeats,
                    streamOwner, streamBeats, protocolError, powerVars, released, served>>

\* Nobody presents a request on the first clock of a grant.
Dwell ==
  /\ ~quarantine /\ ~InFlight
  /\ port[grantOwner].state # "want"
  /\ grantDwell
  /\ grantDwell' = FALSE
  /\ port' \in LegacyMay(port)
  /\ UNCHANGED <<grantOwner, stickyCount, resumeOwner, command, readOwner,
                 readBeats, streamOwner, streamBeats, protocolError, powerVars, epochVars>>

\* The grant moves on after two clocks without a request.
Rotate ==
  /\ ~quarantine /\ ~InFlight
  /\ port[grantOwner].state # "want"
  /\ ~grantDwell
  /\ grantOwner' = IF resumeOwner # None /\ grantOwner = Plane
                   THEN resumeOwner ELSE NextOwner(grantOwner)
  /\ resumeOwner' = IF grantOwner = Plane THEN None ELSE resumeOwner
  /\ grantDwell' = TRUE
  /\ stickyCount' = 0
  /\ port' \in LegacyMay(port)
  /\ UNCHANGED <<command, readOwner, readBeats, streamOwner, streamBeats,
                 protocolError, powerVars, epochVars>>

\* The port takes a write of one beat.
AcceptWrite ==
  LET c == command.owner
  IN /\ command.op = "write" /\ command.beats = 1
     /\ command' = NoCommand
     /\ NextGrant(c)
     /\ port' = Beat(port, c, "queued")
     /\ Serves(c)
     /\ UNCHANGED <<readOwner, readBeats, streamOwner, streamBeats,
                    protocolError, powerVars, released, armed>>

\* Seeded fault: the first beat of a burst is not counted.
OwesWholeBurst == command.beats

\* The beats a burst owes after its first one was taken from the queue.
BurstOwes == command.beats - 1

\* The port takes the first beat of a burst: the owner is locked in.
AcceptStream ==
  LET c == command.owner
  IN /\ command.op = "write" /\ command.beats > 1
     /\ command' = NoCommand
     /\ streamOwner' = c
     /\ streamBeats' = BurstOwes
     /\ grantOwner' = c /\ grantDwell' = FALSE
     /\ port' = IF port[c].state = "queued"
                THEN [port EXCEPT ![c].state = "stream", ![c].beats = @ - 1]
                ELSE port
     /\ UNCHANGED <<stickyCount, resumeOwner, readOwner, readBeats,
                    protocolError, powerVars, epochVars>>

\* Seeded fault: a first beat that comes with the acceptance is not counted.
OwesAllBeats(first) == command.beats

\* The beats a read owes when first of them came with its acceptance.
ReadOwes(first) == command.beats - first

\* The port takes a read.  Its first beat may come back on the same clock.
AcceptRead ==
  LET c == command.owner
      queued == IF port[c].state = "queued"
                THEN [port EXCEPT ![c].state = "wait"] ELSE port
  IN /\ command.op = "read"
     /\ command' = NoCommand
     /\ \E first \in {0, 1} :
          /\ readBeats' = ReadOwes(first)
          /\ readOwner' = IF command.beats = first THEN None ELSE c
          /\ port' = IF first = 1 THEN Beat(queued, c, "wait") ELSE queued
          /\ IF command.beats = first
             THEN NextGrant(c) /\ Serves(c)
             ELSE UNCHANGED <<grantVars, served>>
     /\ UNCHANGED <<streamOwner, streamBeats, protocolError, powerVars, released, armed>>

\* Seeded fault: a beat nobody waits for is dropped without being counted.
CountsIfAwaited(c) ==
  IF port[c].state = "wait" THEN readBeats - 1 ELSE readBeats

\* The beats still owed after one for c, whether or not c still waits for it.
BeatsLeft(c) == readBeats - 1

\* A beat of the read in flight arrives and goes to its owner.
ReadBeat ==
  LET c == readOwner
  IN /\ readBeats > 0
     /\ readBeats' = BeatsLeft(c)
     /\ port' = Beat(port, c, "wait")
     /\ IF BeatsLeft(c) = 0
        THEN readOwner' = None /\ NextGrant(c) /\ Serves(c)
        ELSE UNCHANGED <<readOwner, grantVars, served>>
     /\ UNCHANGED <<command, streamOwner, streamBeats, protocolError, powerVars,
                    released, armed>>

\* The locked owner presents its next beat and the port takes it.
StreamBeat ==
  LET c == streamOwner
  IN /\ streamBeats > 0
     /\ port[c].state = "stream"
     /\ streamBeats' = streamBeats - 1
     /\ streamOwner' = IF streamBeats = 1 THEN None ELSE c
     /\ port' = Beat(port, c, "stream")
     /\ IF streamBeats = 1
        THEN NextGrant(c)
        ELSE /\ grantOwner' = c /\ grantDwell' = FALSE
             /\ UNCHANGED <<stickyCount, resumeOwner>>
     /\ UNCHANGED <<command, readOwner, readBeats, protocolError, powerVars, epochVars>>

\* Whether the locked owner keeps its write enable up while the port waits:
\* the Nitro controller does, the packet writer's is gated by its busy line.
HoldsWriteEnable(c) == port[c].held

\* A clock on which the locked owner's write enable is down: the port waits
\* and the enable is gated by it, or the owner was reset and has nothing more.
StreamGap ==
  /\ streamBeats > 0
  /\ \/ port[streamOwner].state # "stream"
     \/ StallsInStream /\ ~HoldsWriteEnable(streamOwner)
  /\ protocolError' = TRUE
  /\ UNCHANGED <<fabricVars, powerVars, port, epochVars>>

\* Seeded fault: an answer does not start the quiet interval again.
QuietGoesOn == quiet

\* The quiet clocks counted after an answer.
QuietAfterAnswer == 0

\* An answer to the image before arrives in quarantine and is dropped.
StaleBeat ==
  /\ quarantine
  /\ stale > 0
  /\ stale' = stale - 1
  /\ quiet' = QuietAfterAnswer
  /\ gap' = 0
  /\ UNCHANGED <<fabricVars, quarantine, protocolError, port, epochVars>>

\* A clock of the quarantine without an answer: the quiet interval grows, and
\* the grants begin when it is long enough.
QuietClock ==
  /\ quarantine
  /\ stale > 0 => gap < MaxGap
  /\ quarantine' = (quiet < QuietCycles - 1)
  /\ quiet' = IF quiet < QuietCycles - 1 THEN quiet + 1 ELSE 0
  /\ gap' = IF stale > 0 THEN gap + 1 ELSE 0
  /\ UNCHANGED <<fabricVars, stale, protocolError, port, epochVars>>

Tick ==
  \/ StaleBeat \/ QuietClock
  \/ QueueCommand \/ Dwell \/ Rotate
  \/ AcceptWrite \/ AcceptStream \/ AcceptRead
  \/ ReadBeat \/ StreamBeat \/ StreamGap

-----------------------------------------------------------------------------
(* Sessions                                                                *)

\* Seeded fault: the packet writer leaves reset before the control client has
\* been through the fabric.
ReleasesAtOnce == TRUE

\* The control client releases the console only after it has been served: its
\* handshake with the HPS runs through the fabric.
MayRelease == served

Release ==
  /\ ~released
  /\ MayRelease
  /\ ~protocolError
  /\ released' = TRUE
  /\ UNCHANGED <<fabricVars, protocolError, powerVars, port, served, armed>>

\* The clients in reset while the console is not released.
Flushed == Path

\* The packet writer is in the middle of a burst, or has one queued.
InBurst ==
  /\ port[Packet].op = "write"
  /\ \/ port[Packet].state = "stream"
     \/ port[Packet].state = "queued" /\ port[Packet].beats > 1

\* The session ends: the path clients are reset at whatever they are doing.
Flush ==
  /\ released
  /\ InBurst => FlushesInStream
  /\ released' = FALSE
  /\ served' = FALSE
  /\ port' = Unless(Flushed, port)
  /\ UNCHANGED <<fabricVars, protocolError, powerVars, armed>>

\* Seeded fault: the control client trusts any acceptance after its reset.
StaysArmed == TRUE

\* epoch_command_armed after a reset of the shell.
ArmedAfterReset == FALSE

\* A reset of the shell also resets the control client.
BridgeReset ==
  /\ released \/ armed
  /\ InBurst => FlushesInStream
  /\ released' = FALSE
  /\ served' = FALSE
  /\ armed' = ArmedAfterReset
  /\ port' = Unless(Flushed \cup {Control}, port)
  /\ UNCHANGED <<fabricVars, protocolError, powerVars>>

Next ==
  \/ Tick
  \/ \E c \in Clients : Raise(c)
  \/ Release \/ Flush \/ BridgeReset

\* The clock runs, the port does not wait for ever and answers every read; the
\* control client keeps going through its handshake.
Fairness ==
  /\ WF_vars(Tick)
  /\ WF_vars(Raise(Control))
  /\ WF_vars(Release)

Spec == Init /\ [][Next]_vars
FairSpec == Spec /\ Fairness

-----------------------------------------------------------------------------
(* Properties                                                              *)

States == {"idle", "want", "queued", "wait", "stream"}

PortType ==
  [state : States, op : {"none", "read", "write"}, beats : 0 .. MaxBurst,
   held : BOOLEAN]

\* Every register of the grant and of the clients stays in its range
\* (nds_ddram_arbiter_4client).
TypeOK ==
  /\ grantOwner \in Clients /\ grantDwell \in BOOLEAN
  /\ stickyCount \in 0 .. StickyLimit - 1 /\ resumeOwner \in Clients \cup {None}
  /\ \/ command = NoCommand
     \/ command \in [owner : Clients, op : {"read", "write"},
                     beats : 1 .. MaxBurst]
  /\ readBeats \in 0 .. MaxBurst /\ streamBeats \in 0 .. MaxBurst
  /\ readOwner \in Clients \cup {None} /\ streamOwner \in Clients \cup {None}
  /\ protocolError \in BOOLEAN
  /\ port \in [Clients -> PortType]
  /\ released \in BOOLEAN /\ served \in BOOLEAN /\ armed \in BOOLEAN

\* The fabric holds a transaction of c.
Holds(c) ==
  \/ command.owner = c
  \/ readBeats > 0 /\ readOwner = c
  \/ streamBeats > 0 /\ streamOwner = c

\* A transaction the fabric has kept for a client that was reset since.
Orphan(c) == Holds(c) /\ port[c].state \in {"idle", "want"}

\* The clients and the fabric agree, beat for beat, on every transaction in
\* flight: no client waits for a beat the fabric does not owe it, and the
\* fabric owes no beat to a client that counts differently.
InStep ==
  \A c \in Clients :
    /\ port[c].state = "queued" =>
         command = [owner |-> c, op |-> port[c].op, beats |-> port[c].beats]
    /\ port[c].state = "wait" => readOwner = c /\ readBeats = port[c].beats
    /\ port[c].state = "stream" =>
         streamOwner = c /\ streamBeats = port[c].beats

\* By the time the path clients leave reset, and by the time the control client
\* trusts acceptances, their commands from before the reset have drained.
ClientsDrained ==
  /\ ~Orphan(Legacy)
  /\ released => ~Orphan(Plane) /\ ~Orphan(Packet)
  /\ armed => ~Orphan(Control)

\* A client never takes the acceptance or the data of a command from before a
\* reset for its own: neither of one of its own commands, nor, by the time the
\* fabric grants anything, of one of the image that ran before.
OldCommandsDrained == ClientsDrained /\ (~quarantine => stale = 0)

\* A client that has a transaction knows what it asked for.
PortsWhole ==
  \A c \in Clients : port[c].state # "idle" =>
    port[c].op \in {"read", "write"} /\ port[c].beats \in 1 .. MaxBurst

\* At most one of the queue, the read and the burst is in use, by a client.
OneInFlight ==
  /\ command # NoCommand => readBeats = 0 /\ streamBeats = 0
  /\ readBeats > 0 => streamBeats = 0 /\ readOwner \in Clients
  /\ streamBeats > 0 => streamOwner \in Clients

\* Since the control client was last served, nothing of the path clients has
\* been left behind: everything in front of its command had drained.
ServedAfterDrain == served => ~Orphan(Plane) /\ ~Orphan(Packet)

\* The inductive invariant behind InStep and OldCommandsDrained.
FabricInv ==
  /\ TypeOK /\ PortsWhole /\ OneInFlight
  /\ InStep
  /\ ClientsDrained /\ ServedAfterDrain

\* The inductive invariant of the quarantine: while answers of before are still
\* to come, the quiet interval cannot become long enough.
QuarantineInv ==
  /\ quarantine \in BOOLEAN /\ quiet \in 0 .. QuietCycles - 1
  /\ stale \in Nat /\ gap \in Nat
  /\ stale > 0 => quarantine /\ quiet = gap /\ gap <= MaxGap

\* The arbiter's sticky fault is raised by no legal traffic.  It would end the
\* session and refuse every later one.
NoProtocolError == ~protocolError

\* The owner of the burst in flight was reset and will not supply the rest.
Abandoned == streamBeats > 0 /\ port[streamOwner].state # "stream"

\* The Nitro controller and the plane reader feed the display and the CPUs: a
\* request of theirs is taken, whatever the other clients do, as long as no
\* burst is abandoned.
RealTimeServed ==
  \A c \in {Legacy, Plane} :
    port[c].state = "want" ~> (port[c].state # "want" \/ Abandoned)

\* What a client left in the fabric when it was reset is drained: the fabric
\* comes to an end with it and goes on to other commands.
OldCommandsFinish == \A c \in Clients : Orphan(c) ~> ~Orphan(c)

\* What a client left in the fabric is drained, unless it is a burst of which
\* beats are missing, and that never stays without the arbiter's fault.
OldCommandsAnswered ==
  \A c \in Clients : Orphan(c) ~> (~Orphan(c) \/ (Abandoned /\ protocolError))
=============================================================================
