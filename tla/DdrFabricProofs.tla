-------------------------- MODULE DdrFabricProofs --------------------------
(***************************************************************************)
(* Proofs about DdrFabric, for every sticky limit, every longest burst and *)
(* every behaviour of the port: FabricInv is inductive, so the clients and *)
(* the fabric stay in step and no client takes the answer of a command     *)
(* from before its reset for its own.                                      *)
(***************************************************************************)
EXTENDS DdrFabric, Integers, TLAPS

-----------------------------------------------------------------------------
(* The owner of the grant                                                  *)

\* Every set of clients that is not empty has a first member after c.
LEMMA SomeFirst ==
  ASSUME NEW c \in Clients, NEW S \in SUBSET Clients, S # {}
  PROVE  \E d \in S : \A e \in S : (d + 4 - c) % 4 <= (e + 4 - c) % 4
<1> DEFINE rank(d) == (d + 4 - c) % 4
<1>1. \A d \in S : rank(d) \in 0 .. 3
  BY DEF Clients
<1>2. SUFFICES \E d \in S : \A e \in S : rank(d) <= rank(e)
  OBVIOUS
<1> HIDE DEF rank
<1>3. CASE \E d \in S : rank(d) = 0
  BY <1>1, <1>3
<1>4. CASE (\A d \in S : rank(d) >= 1) /\ \E d \in S : rank(d) = 1
  BY <1>1, <1>4
<1>5. CASE (\A d \in S : rank(d) >= 2) /\ \E d \in S : rank(d) = 2
  BY <1>1, <1>5
<1>6. CASE \A d \in S : rank(d) >= 3
  BY <1>1, <1>6
<1> QED
  BY <1>1, <1>3, <1>4, <1>5, <1>6

\* The rotation hands the grant to a client.
LEMMA OwnersAreClients ==
  ASSUME NEW c \in Clients
  PROVE  NextOwner(c) \in Clients /\ NormalOwner(c) \in Clients
<1>1. NextOwner(c) \in Clients
  BY DEF NextOwner, Clients
<1>2. VisiblePeers(c) \in SUBSET Clients
  BY DEF VisiblePeers
<1>3. VisiblePeers(c) # {} => FirstPeer(c) \in VisiblePeers(c)
  BY <1>2, SomeFirst DEF FirstPeer
<1> QED
  BY <1>1, <1>2, <1>3 DEF NormalOwner

\* After a transaction the grant is with a client, and what it keeps of the
\* rotation is in range.
LEMMA GrantStaysOK ==
  ASSUME TypeOK, NEW c \in Clients, NextGrant(c)
  PROVE  /\ grantOwner' \in Clients /\ grantDwell' \in BOOLEAN
         /\ stickyCount' \in 0 .. StickyLimit - 1
         /\ resumeOwner' \in Clients \cup {None}
<1>1. NormalOwner(c) \in Clients /\ Plane \in Clients
  BY OwnersAreClients DEF Plane, Clients
<1>2. StickyLimit \in Nat \ {0} /\ stickyCount \in 0 .. StickyLimit - 1
  BY FabricAssumption DEF TypeOK
<1>3. NormalSticky(c) \in 0 .. StickyLimit - 1 /\ 0 \in 0 .. StickyLimit - 1
  BY <1>2 DEF NormalSticky
<1>4. resumeOwner \in Clients \cup {None}
  BY DEF TypeOK
<1> QED
  BY <1>1, <1>3, <1>4 DEF NextGrant

-----------------------------------------------------------------------------
(* The clients' ports                                                      *)

\* A beat concerns one client: its transaction ends with its last beat, and is
\* a beat shorter otherwise; who is not in that state is left alone.
LEMMA BeatIs ==
  ASSUME NEW p \in [Clients -> PortType], NEW c \in Clients, NEW st \in States,
         st # "idle", p[c].state = st => p[c].beats \in 1 .. MaxBurst
  PROVE  /\ Beat(p, c, st) \in [Clients -> PortType]
         /\ \A d \in Clients \ {c} : Beat(p, c, st)[d] = p[d]
         /\ p[c].state # st => Beat(p, c, st)[c] = p[c]
         /\ p[c].state = st /\ p[c].beats = 1 => Beat(p, c, st)[c] = Idle
         /\ p[c].state = st /\ p[c].beats # 1 =>
              /\ Beat(p, c, st)[c].state = st
              /\ Beat(p, c, st)[c].op = p[c].op
              /\ Beat(p, c, st)[c].beats = p[c].beats - 1
<1>1. MaxBurst \in Nat \ {0}
  BY FabricAssumption
<1>2. Idle \in PortType
  BY <1>1 DEF Idle, PortType, States
<1>3. CASE p[c].state # st
  BY <1>3 DEF Beat
<1>4. CASE p[c].state = st /\ p[c].beats = 1
  BY <1>2, <1>4 DEF Beat
<1>5. CASE p[c].state = st /\ p[c].beats # 1
  <2> DEFINE q == [p EXCEPT ![c].beats = @ - 1]
  <2>1. Beat(p, c, st) = q
    BY <1>5 DEF Beat
  <2>2. p[c] \in PortType /\ p[c].beats \in 2 .. MaxBurst
    BY <1>1, <1>5
  <2>3. q[c] = [p[c] EXCEPT !.beats = @ - 1]
    BY <2>2 DEF PortType
  <2>4. q[c] \in PortType
    BY <1>1, <2>2, <2>3 DEF PortType
  <2>5. \A d \in Clients \ {c} : q[d] = p[d]
    OBVIOUS
  <2>6. q[c].state = st /\ q[c].op = p[c].op /\ q[c].beats = p[c].beats - 1
    BY <1>5, <2>2, <2>3 DEF PortType
  <2>7. q \in [Clients -> PortType]
    BY <2>4, <2>5
  <2> HIDE DEF q
  <2> QED
    BY <1>5, <2>1, <2>5, <2>6, <2>7
<1> QED
  BY <1>3, <1>4, <1>5

\* A request is a whole port.
LEMMA AskIsPort ==
  ASSUME NEW c \in Clients, NEW r \in Asks(c)
  PROVE  r \in PortType /\ r.state = "want" /\ r.op \in {"read", "write"}
         /\ r.beats \in 1 .. MaxBurst
<1>1. r \in Requests
  BY DEF Asks, Clients, Legacy, Plane, Packet, Control
<1> QED
  BY <1>1, FabricAssumption DEF Requests, PortType, States

\* Whatever the Nitro controller may do on a clock, the others' ports do not
\* change, and its own is as it was or a new request.
LEMMA LegacyIs ==
  ASSUME NEW p \in [Clients -> PortType], NEW q \in LegacyMay(p)
  PROVE  /\ q \in [Clients -> PortType]
         /\ \A d \in Clients : q[d] = p[d] \/ (d = Legacy /\ q[d] \in Asks(d))
         /\ q[Legacy] # p[Legacy] => p[Legacy] = Idle /\ Granted(Legacy)
<1>1. Legacy \in Clients
  BY DEF Legacy, Clients
<1> QED
  BY <1>1, AskIsPort DEF LegacyMay

-----------------------------------------------------------------------------
(* Types                                                                   *)

\* Every client that has a transaction knows what it asked for.
Whole(p) ==
  /\ p \in [Clients -> PortType]
  /\ \A c \in Clients : p[c].state # "idle" =>
       p[c].op \in {"read", "write"} /\ p[c].beats \in 1 .. MaxBurst

\* A beat keeps the ports whole.  If the client has n beats in the state st, or
\* is not in a transaction, then the last beat leaves it in none, and any other
\* beat leaves it with n - 1 in st, or as it was.
LEMMA BeatOfOwner ==
  ASSUME NEW p, Whole(p), NEW c \in Clients, NEW st \in States, NEW n \in Nat,
         NEW q, q = Beat(p, c, st), st \notin {"idle", "want"}, n >= 1,
         \/ p[c].state \in {"idle", "want"}
         \/ p[c].state = st /\ p[c].beats = n
  PROVE  /\ Whole(q)
         /\ \A d \in Clients \ {c} : q[d] = p[d]
         /\ n = 1 => q[c].state \in {"idle", "want"}
         /\ p[c].state \in {"idle", "want"} => q[c] = p[c]
         /\ n # 1 /\ p[c].state = st =>
              q[c].state = st /\ q[c].op = p[c].op /\ q[c].beats = n - 1
<1>1. MaxBurst \in Nat \ {0} /\ p \in [Clients -> PortType]
  BY FabricAssumption DEF Whole
<1>2. p[c].state = st => p[c].beats \in 1 .. MaxBurst /\ p[c].op \in {"read", "write"}
  BY DEF Whole
<1>3. q \in [Clients -> PortType] /\ \A d \in Clients \ {c} : q[d] = p[d]
  BY <1>1, <1>2, BeatIs
<1>4. CASE p[c].state \in {"idle", "want"}
  <2>1. q[c] = p[c]
    BY <1>1, <1>2, <1>4, BeatIs
  <2>2. Whole(q)
    BY <1>3, <2>1 DEF Whole
  <2> QED
    BY <1>3, <1>4, <2>1, <2>2
<1>5. CASE p[c].state = st /\ n = 1
  <2>1. q[c] = Idle
    BY <1>1, <1>2, <1>5, BeatIs
  <2>2. Whole(q)
    BY <1>3, <2>1 DEF Whole, Idle
  <2> QED
    BY <1>3, <1>5, <2>1, <2>2 DEF Idle
<1>6. CASE p[c].state = st /\ n # 1
  <2>1. q[c].state = st /\ q[c].op = p[c].op /\ q[c].beats = n - 1
    BY <1>1, <1>2, <1>6, BeatIs
  <2>2. q[c].beats \in 1 .. MaxBurst
    BY <1>1, <1>2, <1>6, <2>1
  <2>3. Whole(q)
    BY <1>2, <1>3, <1>6, <2>1, <2>2 DEF Whole
  <2> QED
    BY <1>3, <1>6, <2>1, <2>3
<1> QED
  BY <1>4, <1>5, <1>6

\* A port that goes to another state of the same transaction stays whole.
LEMMA StateIs ==
  ASSUME NEW p \in [Clients -> PortType], NEW c \in Clients,
         NEW st \in States
  PROVE  LET q == [p EXCEPT ![c].state = st]
         IN  /\ q \in [Clients -> PortType]
             /\ \A d \in Clients \ {c} : q[d] = p[d]
             /\ q[c].state = st /\ q[c].op = p[c].op /\ q[c].beats = p[c].beats
<1> DEFINE q == [p EXCEPT ![c].state = st]
<1>1. q[c] = [p[c] EXCEPT !.state = st] /\ p[c] \in PortType
  OBVIOUS
<1>2. /\ q[c] \in PortType
      /\ q[c].state = st /\ q[c].op = p[c].op /\ q[c].beats = p[c].beats
  BY <1>1 DEF PortType
<1>3. \A d \in Clients \ {c} : q[d] = p[d]
  OBVIOUS
<1>4. q \in [Clients -> PortType]
  BY <1>2, <1>3
<1> QED
  BY <1>2, <1>3, <1>4

\* The first beat of a queued burst was taken.
LEMMA StreamIs ==
  ASSUME NEW p \in [Clients -> PortType], NEW c \in Clients,
         p[c].beats \in 2 .. MaxBurst
  PROVE  LET q == [p EXCEPT ![c].state = "stream", ![c].beats = @ - 1]
         IN  /\ q \in [Clients -> PortType]
             /\ \A d \in Clients \ {c} : q[d] = p[d]
             /\ q[c].state = "stream" /\ q[c].op = p[c].op
             /\ q[c].beats = p[c].beats - 1
<1> DEFINE q == [p EXCEPT ![c].state = "stream", ![c].beats = @ - 1]
<1>0. MaxBurst \in Nat \ {0} /\ p[c] \in PortType
  BY FabricAssumption
<1> DEFINE r == [p[c] EXCEPT !.state = "stream", !.beats = @ - 1]
<1>1. q[c] = r
  BY <1>0 DEF PortType
<1>2. r.state = "stream" /\ r.op = p[c].op /\ r.beats = p[c].beats - 1
  BY <1>0 DEF PortType
<1>3. r \in PortType
  <2> DEFINE s == [p[c] EXCEPT !.state = "stream"]
  <2>1. s \in PortType /\ s.beats = p[c].beats
    BY <1>0 DEF PortType, States
  <2>2. p[c].beats - 1 \in 0 .. MaxBurst
    BY <1>0
  <2>3. r = [s EXCEPT !.beats = p[c].beats - 1]
    BY <1>0 DEF PortType
  <2> HIDE DEF s
  <2> QED
    BY <2>1, <2>2, <2>3 DEF PortType
<1>4. /\ q[c] \in PortType
      /\ q[c].state = "stream" /\ q[c].op = p[c].op
      /\ q[c].beats = p[c].beats - 1
  BY <1>1, <1>2, <1>3
<1>5. \A d \in Clients \ {c} : q[d] = p[d]
  OBVIOUS
<1>6. q \in [Clients -> PortType]
  BY <1>4, <1>5
<1> QED
  BY <1>4, <1>5, <1>6
-----------------------------------------------------------------------------
(* The arbiter's clocks                                                    *)

\* A client whose transaction the fabric does not hold has none.
LEMMA NotHeld ==
  ASSUME FabricInv, NEW c \in Clients, ~Holds(c)
  PROVE  port[c].state \in {"idle", "want"}
<1>1. port[c].state \in States
  BY DEF FabricInv, TypeOK, PortType
<1>2. port[c].state # "idle" => port[c].beats > 0
  BY FabricAssumption DEF FabricInv, PortsWhole
<1>3. port[c].state # "queued"
  BY DEF FabricInv, InStep, Holds
<1>4. port[c].state # "wait" /\ port[c].state # "stream"
  BY <1>2 DEF FabricInv, InStep, Holds
<1> QED
  BY <1>1, <1>3, <1>4 DEF States

\* What the fabric holds is in one place, and of one client.
LEMMA HeldOnce ==
  ASSUME FabricInv
  PROVE  /\ command.op \in {"read", "write"} =>
              /\ command.owner \in Clients /\ command.beats \in 1 .. MaxBurst
              /\ readBeats = 0 /\ streamBeats = 0
              /\ \A d \in Clients \ {command.owner} : ~Holds(d)
         /\ readBeats > 0 =>
              /\ readOwner \in Clients /\ command = NoCommand /\ streamBeats = 0
              /\ \A d \in Clients \ {readOwner} : ~Holds(d)
         /\ streamBeats > 0 =>
              /\ streamOwner \in Clients /\ command = NoCommand /\ readBeats = 0
              /\ \A d \in Clients \ {streamOwner} : ~Holds(d)
<1>1. readBeats \in Nat /\ streamBeats \in Nat
  BY FabricAssumption DEF FabricInv, TypeOK
<1>2. \A d \in Clients : NoCommand.owner # d
  BY DEF NoCommand, Clients, None
<1>3. command.op \in {"read", "write"} => command # NoCommand
  BY DEF NoCommand
<1>4. command # NoCommand => readBeats = 0 /\ streamBeats = 0
  BY DEF FabricInv, OneInFlight
<1>5. readBeats > 0 \/ streamBeats > 0 => command = NoCommand
  BY <1>4
<1>6. readBeats > 0 => readOwner \in Clients /\ streamBeats = 0
  BY DEF FabricInv, OneInFlight
<1>7. streamBeats > 0 => streamOwner \in Clients /\ readBeats = 0
  BY <1>1, <1>6 DEF FabricInv, OneInFlight
<1>8. command # NoCommand =>
        command.owner \in Clients /\ command.beats \in 1 .. MaxBurst
  BY DEF FabricInv, TypeOK
<1> QED
  BY <1>1, <1>2, <1>3, <1>4, <1>5, <1>6, <1>7, <1>8 DEF Holds

\* With nothing in flight after a step, and no client waiting, the rest of the
\* invariant is a matter of types.
LEMMA AtRest ==
  ASSUME TypeOK', PortsWhole', command' = NoCommand, readBeats' = 0,
         streamBeats' = 0,
         \A d \in Clients : port'[d].state \in {"idle", "want"}
  PROVE  FabricInv'
<1>1. OneInFlight' /\ InStep'
  BY DEF OneInFlight, InStep
<1>2. \A d \in Clients : ~Orphan(d)'
  BY DEF Orphan, Holds, NoCommand, Clients, None
<1> QED
  BY <1>1, <1>2 DEF FabricInv, ClientsDrained, ServedAfterDrain, Clients,
                    Legacy, Plane, Packet, Control

\* While nothing is in flight no client has a transaction in the fabric.
LEMMA NothingInFlight ==
  ASSUME FabricInv, ~InFlight
  PROVE  /\ command = NoCommand /\ readBeats = 0 /\ streamBeats = 0
         /\ \A c \in Clients : ~Holds(c) /\ port[c].state \in {"idle", "want"}
<1>1. command = NoCommand /\ readBeats = 0 /\ streamBeats = 0
  BY FabricAssumption DEF FabricInv, TypeOK, InFlight
<1>2. \A c \in Clients : command.owner # c
  BY <1>1 DEF NoCommand, Clients, None
<1>3. \A c \in Clients : ~Holds(c)
  BY <1>1, <1>2 DEF Holds
<1>4. \A c \in Clients : port[c].state \in {"idle", "want"}
  BY <1>3, NotHeld
<1> QED
  BY <1>1, <1>3, <1>4

\* Queueing a command keeps the invariant.
LEMMA QueueKeeps == FabricInv /\ QueueCommand => FabricInv'
<1> SUFFICES ASSUME FabricInv, QueueCommand PROVE FabricInv'
  OBVIOUS
<1> DEFINE c == grantOwner
<1>0. c \in Clients /\ ~InFlight /\ port[c].state = "want"
  BY DEF QueueCommand, Granted, FabricInv, TypeOK
<1>1. /\ command = NoCommand /\ readBeats = 0 /\ streamBeats = 0
      /\ \A d \in Clients : ~Holds(d) /\ port[d].state \in {"idle", "want"}
  BY <1>0, NothingInFlight
<1>2. /\ port' \in [Clients -> PortType]
      /\ \A d \in Clients \ {c} : port'[d] = port[d]
      /\ port'[c].state = "queued" /\ port'[c].op = port[c].op
      /\ port'[c].beats = port[c].beats
  <2>1. port \in [Clients -> PortType] /\ "queued" \in States
    BY DEF FabricInv, TypeOK, States
  <2>2. port' = [port EXCEPT ![c].state = "queued"]
    BY DEF QueueCommand
  <2> QED
    BY <1>0, <2>1, <2>2, StateIs
<1>3. port[c].op \in {"read", "write"} /\ port[c].beats \in 1 .. MaxBurst
  BY <1>0 DEF FabricInv, PortsWhole
<1>4. command' = [owner |-> c, op |-> port[c].op, beats |-> port[c].beats]
  BY DEF QueueCommand
<1>5. TypeOK'
  <2>1. command' \in [owner : Clients, op : {"read", "write"},
                      beats : 1 .. MaxBurst]
    BY <1>0, <1>3, <1>4
  <2>2. armed' \in BOOLEAN
    BY DEF QueueCommand, FabricInv, TypeOK
  <2>3. /\ grantDwell' = FALSE
        /\ UNCHANGED <<grantOwner, stickyCount, resumeOwner, readOwner, readBeats,
                       streamOwner, streamBeats, protocolError, released, served>>
    BY DEF QueueCommand
  <2> QED
    BY <1>2, <2>1, <2>2, <2>3 DEF FabricInv, TypeOK
<1>6. PortsWhole'
  BY <1>0, <1>2, <1>3 DEF FabricInv, PortsWhole
<1>7. OneInFlight'
  BY <1>1 DEF QueueCommand, OneInFlight
<1>8. InStep'
  BY <1>0, <1>1, <1>2, <1>4 DEF InStep
<1>9. \A d \in Clients : ~Orphan(d)'
  BY <1>0, <1>1, <1>2, <1>4 DEF QueueCommand, Orphan, Holds
<1> QED
  BY <1>5, <1>6, <1>7, <1>8, <1>9
  DEF FabricInv, ClientsDrained, ServedAfterDrain, Clients, Legacy, Plane,
      Packet, Control

\* A clock without a request, and the grant's rotation, keep it.
LEMMA RotateKeeps == FabricInv /\ (Dwell \/ Rotate) => FabricInv'
<1> SUFFICES ASSUME FabricInv, Dwell \/ Rotate PROVE FabricInv'
  OBVIOUS
<1>1. /\ command = NoCommand /\ readBeats = 0 /\ streamBeats = 0
      /\ \A d \in Clients : ~Holds(d) /\ port[d].state \in {"idle", "want"}
  BY NothingInFlight DEF Dwell, Rotate
<1>2. /\ UNCHANGED <<command, readOwner, readBeats, streamOwner, streamBeats,
                     protocolError, epochVars>>
      /\ port' \in LegacyMay(port)
  BY DEF Dwell, Rotate
<1>3. /\ port' \in [Clients -> PortType]
      /\ \A d \in Clients :
           port'[d] = port[d] \/ (d = Legacy /\ port'[d] \in Asks(d))
  BY <1>2, LegacyIs DEF FabricInv, TypeOK
<1>4. \A d \in Clients : port'[d].state \in {"idle", "want"}
  BY <1>1, <1>3, AskIsPort
<1>5. TypeOK'
  <2>1. StickyLimit \in Nat \ {0}
    BY FabricAssumption
  <2>2. grantOwner' \in Clients /\ resumeOwner' \in Clients \cup {None}
    BY OwnersAreClients DEF Dwell, Rotate, FabricInv, TypeOK
  <2>3. grantDwell' \in BOOLEAN
    BY DEF Dwell, Rotate
  <2>4. stickyCount' = stickyCount \/ stickyCount' = 0
    BY DEF Dwell, Rotate
  <2>5. stickyCount' \in 0 .. StickyLimit - 1
    BY <2>1, <2>4 DEF FabricInv, TypeOK
  <2> QED
    BY <1>2, <1>3, <2>2, <2>3, <2>5 DEF FabricInv, TypeOK, epochVars
<1>6. PortsWhole'
  BY <1>3, AskIsPort DEF FabricInv, PortsWhole
<1> QED
  BY <1>1, <1>2, <1>4, <1>5, <1>6, AtRest

\* The clients' ports are whole, and so are the ports the invariant speaks of.
LEMMA PortsAreWhole == FabricInv => Whole(port)
  BY DEF FabricInv, TypeOK, PortsWhole, Whole

\* Whoever waits in the queue has the command there.
LEMMA QueueOwner ==
  ASSUME FabricInv, command.op \in {"read", "write"}
  PROVE  /\ command.owner \in Clients
         /\ \/ port[command.owner].state \in {"idle", "want"}
            \/ /\ port[command.owner].state = "queued"
               /\ port[command.owner].op = command.op
               /\ port[command.owner].beats = command.beats
         /\ \A d \in Clients \ {command.owner} : port[d].state \in {"idle", "want"}
<1> DEFINE c == command.owner
<1>1. /\ c \in Clients /\ readBeats = 0 /\ streamBeats = 0
      /\ \A d \in Clients \ {c} : ~Holds(d)
  BY HeldOnce
<1>2. port[c].state \in States
  BY <1>1 DEF FabricInv, TypeOK, PortType
<1>3. port[c].state # "idle" => port[c].beats > 0
  BY <1>1, FabricAssumption DEF FabricInv, PortsWhole
<1>4. port[c].state # "wait" /\ port[c].state # "stream"
  BY <1>1, <1>3 DEF FabricInv, InStep
<1>5. port[c].state = "queued" =>
        port[c].op = command.op /\ port[c].beats = command.beats
  BY <1>1 DEF FabricInv, InStep
<1> QED
  BY <1>1, <1>2, <1>4, <1>5, NotHeld DEF States

\* The acceptance of a one-beat write keeps it.
LEMMA WriteKeeps == FabricInv /\ AcceptWrite => FabricInv'
<1> SUFFICES ASSUME FabricInv, AcceptWrite PROVE FabricInv'
  OBVIOUS
<1> DEFINE c == command.owner
<1>1. /\ port' = Beat(port, c, "queued")
      /\ command.op = "write" /\ command.beats = 1 /\ command' = NoCommand
  BY DEF AcceptWrite
<1>2. c \in Clients /\ readBeats = 0 /\ streamBeats = 0
  BY <1>1, HeldOnce
<1>3. Whole(port') /\ \A d \in Clients : port'[d].state \in {"idle", "want"}
  <2>1. "queued" \in States /\ "queued" \notin {"idle", "want"}
    BY DEF States
  <2>2. \/ port[c].state \in {"idle", "want"}
        \/ port[c].state = "queued" /\ port[c].beats = 1
    BY <1>1, QueueOwner
  <2>3. /\ Whole(port') /\ port'[c].state \in {"idle", "want"}
        /\ \A d \in Clients \ {c} : port'[d] = port[d]
    BY <1>1, <1>2, <2>1, <2>2, PortsAreWhole, BeatOfOwner
  <2> QED
    BY <1>1, <2>3, QueueOwner
<1>4. TypeOK'
  BY <1>1, <1>2, <1>3, GrantStaysOK
  DEF AcceptWrite, FabricInv, TypeOK, Whole, Serves
<1> QED
  BY <1>1, <1>2, <1>3, <1>4, AtRest DEF AcceptWrite, Whole, PortsWhole

\* A step that leaves nobody behind in the fabric keeps what the sessions and
\* the control client rely on.
LEMMA NobodyLeft ==
  ASSUME FabricInv, UNCHANGED epochVars,
         \A d \in Clients : Orphan(d)' => Orphan(d)
  PROVE  ClientsDrained' /\ ServedAfterDrain'
<1>1. Legacy \in Clients /\ Plane \in Clients /\ Packet \in Clients
      /\ Control \in Clients
  BY DEF Clients, Legacy, Plane, Packet, Control
<1>2. /\ ~Orphan(Legacy)'
      /\ released => ~Orphan(Plane)' /\ ~Orphan(Packet)'
      /\ served => ~Orphan(Plane)' /\ ~Orphan(Packet)'
      /\ armed => ~Orphan(Control)'
  BY <1>1 DEF FabricInv, ClientsDrained, ServedAfterDrain
<1> QED
  BY <1>2 DEF ClientsDrained, ServedAfterDrain, epochVars

\* The acceptance of a burst's first beat keeps it.
LEMMA StreamKeeps == FabricInv /\ AcceptStream => FabricInv'
<1> SUFFICES ASSUME FabricInv, AcceptStream PROVE FabricInv'
  OBVIOUS
<1> DEFINE c == command.owner
<1>1. /\ command.op = "write" /\ command.beats > 1 /\ command' = NoCommand
      /\ streamOwner' = c /\ streamBeats' = command.beats - 1
      /\ port' = IF port[c].state = "queued"
                 THEN [port EXCEPT ![c].state = "stream", ![c].beats = @ - 1]
                 ELSE port
  BY DEF AcceptStream, BurstOwes
<1>2. /\ c \in Clients /\ command.beats \in 2 .. MaxBurst /\ MaxBurst \in Nat
      /\ readBeats = 0 /\ streamBeats = 0 /\ \A d \in Clients \ {c} : ~Holds(d)
  BY <1>1, HeldOnce, FabricAssumption
<1>3. Whole(port) /\ port \in [Clients -> PortType]
  BY PortsAreWhole DEF Whole
<1>4. /\ Whole(port') /\ \A d \in Clients \ {c} : port'[d] = port[d]
      /\ \/ port[c].state \in {"idle", "want"} /\ port'[c] = port[c]
         \/ port'[c].state = "stream" /\ port'[c].beats = command.beats - 1
  <2>1. CASE port[c].state = "queued"
    <3>1. port[c].beats = command.beats /\ port[c].op = command.op
      BY <1>1, <2>1, QueueOwner
    <3>2. /\ port' \in [Clients -> PortType]
          /\ \A d \in Clients \ {c} : port'[d] = port[d]
          /\ port'[c].state = "stream" /\ port'[c].op = port[c].op
          /\ port'[c].beats = port[c].beats - 1
      <4> DEFINE q == [port EXCEPT ![c].state = "stream", ![c].beats = @ - 1]
      <4>1. port' = q
        BY <1>1, <2>1
      <4>2. c \in Clients /\ port[c].beats \in 2 .. MaxBurst
        BY <1>2, <3>1
      <4>3. /\ q \in [Clients -> PortType]
            /\ \A d \in Clients \ {c} : q[d] = port[d]
            /\ q[c].state = "stream" /\ q[c].op = port[c].op
            /\ q[c].beats = port[c].beats - 1
        <5> HIDE DEF c
        <5> QED
          BY <1>3, <4>2, StreamIs
      <4> HIDE DEF q
      <4> QED
        BY <4>1, <4>3
    <3>3. Whole(port')
      <4>1. /\ port'[c].op = "write" /\ port'[c].beats \in 1 .. MaxBurst
            /\ c \in Clients
        BY <1>1, <1>2, <3>1, <3>2
      <4>2. /\ port' \in [Clients -> PortType]
            /\ \A d \in Clients \ {c} : port'[d] = port[d]
        BY <3>2
      <4> HIDE DEF c
      <4> QED
        BY <1>3, <4>1, <4>2 DEF Whole
    <3> QED
      BY <3>1, <3>2, <3>3
  <2>2. CASE port[c].state # "queued"
    BY <1>1, <1>3, <2>2, QueueOwner
  <2> QED
    BY <2>1, <2>2
<1>5. \A d \in Clients \ {c} : port'[d].state \in {"idle", "want"}
  BY <1>1, <1>4, QueueOwner
<1>6. UNCHANGED <<stickyCount, resumeOwner, readOwner, readBeats, protocolError,
                  epochVars>> /\ grantOwner' = c /\ grantDwell' = FALSE
  BY DEF AcceptStream
<1>7. TypeOK'
  <2>1. streamBeats' \in 0 .. MaxBurst
    BY <1>1, <1>2
  <2>2. streamOwner' \in Clients \cup {None} /\ port' \in [Clients -> PortType]
    BY <1>1, <1>2, <1>4 DEF Whole
  <2> QED
    BY <1>1, <1>2, <1>6, <2>1, <2>2 DEF FabricInv, TypeOK, epochVars
<1>8. PortsWhole'
  BY <1>4 DEF Whole, PortsWhole
<1>9. OneInFlight'
  BY <1>1, <1>2, <1>6 DEF OneInFlight
<1>10. InStep'
  BY <1>1, <1>4, <1>5 DEF InStep
<1>11. \A d \in Clients : Orphan(d)' => Orphan(d)
  <2>1. \A d \in Clients : Holds(d)' => d = c
    BY <1>1, <1>2, <1>6 DEF Holds, NoCommand, Clients, None
  <2> QED
    BY <1>4, <2>1 DEF Orphan, Holds
<1> QED
  BY <1>6, <1>7, <1>8, <1>9, <1>10, <1>11, NobodyLeft DEF FabricInv

\* What a read in flight is, once a beat of it was taken or it was accepted.
LEMMA ReadInFlight ==
  ASSUME FabricInv, NEW c \in Clients, Whole(port'), TypeOK',
         command' = NoCommand, streamBeats' = 0,
         readBeats' > 0, readOwner' = c, UNCHANGED epochVars,
         \A d \in Clients \ {c} : port'[d].state \in {"idle", "want"},
         \/ port[c].state \in {"idle", "want"} /\ port'[c] = port[c] /\ Holds(c)
         \/ port'[c].state = "wait" /\ port'[c].beats = readBeats'
  PROVE  FabricInv'
<1>1. PortsWhole'
  BY DEF Whole, PortsWhole
<1>2. OneInFlight'
  BY DEF OneInFlight
<1>3. InStep'
  BY DEF InStep
<1>4. \A d \in Clients : Orphan(d)' => Orphan(d)
  <2>1. \A d \in Clients : Holds(d)' => d = c
    BY DEF Holds, NoCommand, Clients, None
  <2> QED
    BY <2>1 DEF Orphan
<1> QED
  BY <1>1, <1>2, <1>3, <1>4, NobodyLeft DEF FabricInv
\* The acceptance of a read, with or without its first beat, keeps it.
LEMMA ReadKeeps == FabricInv /\ AcceptRead => FabricInv'
<1> SUFFICES ASSUME FabricInv, AcceptRead PROVE FabricInv'
  OBVIOUS
<1> DEFINE c == command.owner
           n == command.beats
           queued == IF port[c].state = "queued"
                     THEN [port EXCEPT ![c].state = "wait"] ELSE port
<1>1. PICK first \in {0, 1} :
        /\ readBeats' = n - first
        /\ readOwner' = IF n = first THEN None ELSE c
        /\ port' = IF first = 1 THEN Beat(queued, c, "wait") ELSE queued
        /\ IF n = first
           THEN NextGrant(c) /\ Serves(c)
           ELSE UNCHANGED <<grantVars, served>>
  BY DEF AcceptRead, ReadOwes
<1>2. /\ command.op = "read" /\ command' = NoCommand
      /\ UNCHANGED <<streamOwner, streamBeats, protocolError, released, armed>>
  BY DEF AcceptRead
<1>3. /\ c \in Clients /\ n \in 1 .. MaxBurst /\ MaxBurst \in Nat
      /\ readBeats = 0 /\ streamBeats = 0
  BY <1>2, HeldOnce, FabricAssumption
<1>4. Whole(port) /\ port \in [Clients -> PortType] /\ "wait" \in States
  BY PortsAreWhole DEF Whole, States
<1>5. /\ Whole(queued) /\ \A d \in Clients \ {c} : queued[d] = port[d]
      /\ \/ port[c].state \in {"idle", "want"} /\ queued[c] = port[c]
         \/ queued[c].state = "wait" /\ queued[c].beats = n
  <2>1. CASE port[c].state = "queued"
    <3>1. /\ queued \in [Clients -> PortType]
          /\ \A d \in Clients \ {c} : queued[d] = port[d]
          /\ queued[c].state = "wait" /\ queued[c].op = port[c].op
          /\ queued[c].beats = port[c].beats
      BY <1>3, <1>4, <2>1, StateIs
    <3>2. Whole(queued)
      BY <1>3, <1>4, <2>1, <3>1 DEF Whole
    <3> QED
      BY <1>2, <2>1, <3>1, <3>2, QueueOwner
  <2>2. CASE port[c].state # "queued"
    BY <1>2, <1>4, <2>2, QueueOwner
  <2> QED
    BY <2>1, <2>2
<1> HIDE DEF queued
<1>6. /\ Whole(port') /\ \A d \in Clients \ {c} : port'[d] = queued[d]
      /\ first = 1 /\ n = 1 => port'[c].state \in {"idle", "want"}
      /\ n # first =>
           \/ port[c].state \in {"idle", "want"} /\ port'[c] = port[c]
           \/ port'[c].state = "wait" /\ port'[c].beats = n - first
  <2>1. CASE first = 0
    BY <1>1, <1>3, <1>5, <2>1
  <2>2. CASE first = 1
    <3>1. \/ queued[c].state \in {"idle", "want"}
          \/ queued[c].state = "wait" /\ queued[c].beats = n
      BY <1>5
    <3>2. /\ Whole(port') /\ \A d \in Clients \ {c} : port'[d] = queued[d]
          /\ n = 1 => port'[c].state \in {"idle", "want"}
          /\ queued[c].state \in {"idle", "want"} => port'[c] = queued[c]
          /\ n # 1 /\ queued[c].state = "wait" =>
               port'[c].state = "wait" /\ port'[c].beats = n - 1
      BY <1>1, <1>3, <1>4, <1>5, <2>2, <3>1, BeatOfOwner
    <3> QED
      BY <1>5, <2>2, <3>2
  <2> QED
    BY <2>1, <2>2
<1>7. \A d \in Clients \ {c} : port'[d].state \in {"idle", "want"}
  BY <1>2, <1>5, <1>6, QueueOwner
<1>8. CASE n = first
  <2>1. n = 1 /\ first = 1 /\ readBeats' = 0 /\ readOwner' = None
    BY <1>1, <1>3, <1>8
  <2>2. TypeOK'
    <3>1. NextGrant(c) /\ served' \in BOOLEAN
      BY <1>1, <1>8 DEF Serves, FabricInv, TypeOK
    <3>2. /\ grantOwner' \in Clients /\ grantDwell' \in BOOLEAN
          /\ stickyCount' \in 0 .. StickyLimit - 1
          /\ resumeOwner' \in Clients \cup {None}
      BY <1>3, <3>1, GrantStaysOK DEF FabricInv
    <3> QED
      BY <1>2, <1>3, <1>6, <2>1, <3>1, <3>2 DEF FabricInv, TypeOK, Whole
  <2> QED
    BY <1>2, <1>3, <1>6, <1>7, <2>1, <2>2, AtRest DEF Whole, PortsWhole
<1>9. CASE n # first
  <2>1. /\ readBeats' \in 1 .. MaxBurst /\ readOwner' = c
        /\ UNCHANGED <<grantVars, served>>
    BY <1>1, <1>3, <1>9
  <2>2. TypeOK'
    BY <1>2, <1>3, <1>6, <2>1 DEF FabricInv, TypeOK, Whole, grantVars
  <2>3. readBeats' > 0 /\ readBeats' = n - first /\ Holds(c)
    BY <1>1, <1>3, <2>1 DEF Holds
  <2>4. UNCHANGED epochVars
    BY <1>2, <2>1 DEF epochVars
  <2> QED
    BY <1>2, <1>3, <1>6, <1>7, <1>9, <2>1, <2>2, <2>3, <2>4, ReadInFlight
<1> QED
  BY <1>8, <1>9

\* Whoever waits for data has the read in flight.
LEMMA ReadOwner ==
  ASSUME FabricInv, readBeats > 0
  PROVE  /\ readOwner \in Clients
         /\ \/ port[readOwner].state \in {"idle", "want"}
            \/ /\ port[readOwner].state = "wait"
               /\ port[readOwner].beats = readBeats
         /\ \A d \in Clients \ {readOwner} : port[d].state \in {"idle", "want"}
<1> DEFINE c == readOwner
<1>1. /\ c \in Clients /\ command = NoCommand /\ streamBeats = 0
      /\ \A d \in Clients \ {c} : ~Holds(d)
  BY HeldOnce
<1>2. port[c].state \in States
  BY <1>1 DEF FabricInv, TypeOK, PortType
<1>3. port[c].state # "idle" => port[c].beats > 0
  BY <1>1, FabricAssumption DEF FabricInv, PortsWhole
<1>4. port[c].state # "queued"
  BY <1>1 DEF FabricInv, InStep, NoCommand, Clients, None
<1>5. port[c].state # "stream"
  BY <1>1, <1>3 DEF FabricInv, InStep
<1>6. port[c].state = "wait" => port[c].beats = readBeats
  BY <1>1 DEF FabricInv, InStep
<1> QED
  BY <1>1, <1>2, <1>4, <1>5, <1>6, NotHeld DEF States

\* A beat of the read in flight keeps it.
LEMMA ReadBeatKeeps == FabricInv /\ ReadBeat => FabricInv'
<1> SUFFICES ASSUME FabricInv, ReadBeat PROVE FabricInv'
  OBVIOUS
<1> DEFINE c == readOwner
<1>1. /\ readBeats > 0 /\ readBeats' = readBeats - 1
      /\ port' = Beat(port, c, "wait")
      /\ IF readBeats - 1 = 0
         THEN readOwner' = None /\ NextGrant(c) /\ Serves(c)
         ELSE UNCHANGED <<readOwner, grantVars, served>>
      /\ UNCHANGED <<command, streamOwner, streamBeats, protocolError,
                     released, armed>>
  BY DEF ReadBeat, BeatsLeft
<1>2. /\ c \in Clients /\ command = NoCommand /\ streamBeats = 0
      /\ readBeats \in 1 .. MaxBurst /\ MaxBurst \in Nat
  BY <1>1, HeldOnce, FabricAssumption DEF FabricInv, TypeOK
<1>3. /\ Whole(port') /\ \A d \in Clients \ {c} : port'[d] = port[d]
      /\ readBeats = 1 => port'[c].state \in {"idle", "want"}
      /\ readBeats # 1 =>
           \/ port[c].state \in {"idle", "want"} /\ port'[c] = port[c]
           \/ port'[c].state = "wait" /\ port'[c].beats = readBeats - 1
  <2>1. "wait" \in States /\ "wait" \notin {"idle", "want"} /\ Whole(port)
    BY PortsAreWhole DEF States
  <2>2. \/ port[c].state \in {"idle", "want"}
        \/ port[c].state = "wait" /\ port[c].beats = readBeats
    BY <1>1, ReadOwner
  <2> QED
    BY <1>1, <1>2, <2>1, <2>2, BeatOfOwner
<1>4. \A d \in Clients \ {c} : port'[d].state \in {"idle", "want"}
  BY <1>1, <1>3, ReadOwner
<1>5. CASE readBeats = 1
  <2>1. readBeats' = 0 /\ readOwner' = None /\ NextGrant(c) /\ Serves(c)
    BY <1>1, <1>5
  <2>2. TypeOK'
    <3>1. served' \in BOOLEAN
      BY <2>1 DEF Serves, FabricInv, TypeOK
    <3>2. /\ grantOwner' \in Clients /\ grantDwell' \in BOOLEAN
          /\ stickyCount' \in 0 .. StickyLimit - 1
          /\ resumeOwner' \in Clients \cup {None}
      BY <1>2, <2>1, GrantStaysOK DEF FabricInv
    <3> QED
      BY <1>1, <1>2, <1>3, <2>1, <3>1, <3>2 DEF FabricInv, TypeOK, Whole
  <2> QED
    BY <1>1, <1>2, <1>3, <1>4, <1>5, <2>1, <2>2, AtRest DEF Whole, PortsWhole
<1>6. CASE readBeats # 1
  <2>1. /\ readBeats' \in 1 .. MaxBurst /\ readOwner' = c
        /\ UNCHANGED <<grantVars, served>>
    BY <1>1, <1>2, <1>6
  <2>2. TypeOK'
    BY <1>1, <1>2, <1>3, <2>1 DEF FabricInv, TypeOK, Whole, grantVars
  <2>3. readBeats' > 0 /\ Holds(c)
    BY <1>1, <1>2, <2>1 DEF Holds
  <2>4. UNCHANGED epochVars
    BY <1>1, <2>1 DEF epochVars
  <2> QED
    BY <1>1, <1>2, <1>3, <1>4, <1>6, <2>1, <2>2, <2>3, <2>4, ReadInFlight
<1> QED
  BY <1>5, <1>6
\* A beat of the burst in flight keeps it.
LEMMA StreamBeatKeeps == FabricInv /\ StreamBeat => FabricInv'
<1> SUFFICES ASSUME FabricInv, StreamBeat PROVE FabricInv'
  OBVIOUS
<1> DEFINE c == streamOwner
<1>1. /\ streamBeats > 0 /\ port[c].state = "stream"
      /\ streamBeats' = streamBeats - 1
      /\ streamOwner' = IF streamBeats = 1 THEN None ELSE c
      /\ port' = Beat(port, c, "stream")
      /\ IF streamBeats = 1
         THEN NextGrant(c)
         ELSE /\ grantOwner' = c /\ grantDwell' = FALSE
              /\ UNCHANGED <<stickyCount, resumeOwner>>
      /\ UNCHANGED <<command, readOwner, readBeats, protocolError, epochVars>>
  BY DEF StreamBeat
<1>2. /\ c \in Clients /\ command = NoCommand /\ readBeats = 0
      /\ streamBeats \in 1 .. MaxBurst /\ MaxBurst \in Nat
      /\ \A d \in Clients \ {c} : ~Holds(d)
  BY <1>1, HeldOnce, FabricAssumption DEF FabricInv, TypeOK
<1>3. /\ Whole(port') /\ \A d \in Clients \ {c} : port'[d] = port[d]
      /\ streamBeats = 1 => port'[c].state \in {"idle", "want"}
      /\ streamBeats # 1 =>
           port'[c].state = "stream" /\ port'[c].beats = streamBeats - 1
  <2>1. "stream" \in States /\ "stream" \notin {"idle", "want"} /\ Whole(port)
    BY PortsAreWhole DEF States
  <2>2. port[c].beats = streamBeats
    BY <1>1, <1>2 DEF FabricInv, InStep
  <2> QED
    BY <1>1, <1>2, <2>1, <2>2, BeatOfOwner
<1>4. \A d \in Clients \ {c} : port'[d].state \in {"idle", "want"}
  BY <1>2, <1>3, NotHeld
<1>5. CASE streamBeats = 1
  <2>1. streamBeats' = 0 /\ streamOwner' = None /\ NextGrant(c)
    BY <1>1, <1>5
  <2>2. TypeOK'
    <3>1. /\ grantOwner' \in Clients /\ grantDwell' \in BOOLEAN
          /\ stickyCount' \in 0 .. StickyLimit - 1
          /\ resumeOwner' \in Clients \cup {None}
      BY <1>2, <2>1, GrantStaysOK DEF FabricInv
    <3>2. port' \in [Clients -> PortType] /\ streamBeats' \in 0 .. MaxBurst
      BY <1>2, <1>3, <2>1 DEF Whole
    <3>3. readBeats' \in 0 .. MaxBurst /\ readOwner' \in Clients \cup {None}
      BY <1>1 DEF FabricInv, TypeOK
    <3>4. /\ protocolError' \in BOOLEAN /\ released' \in BOOLEAN
          /\ served' \in BOOLEAN /\ armed' \in BOOLEAN
      BY <1>1 DEF FabricInv, TypeOK, epochVars
    <3> QED
      BY <1>1, <1>2, <2>1, <3>1, <3>2, <3>3, <3>4 DEF TypeOK
  <2> QED
    BY <1>1, <1>2, <1>3, <1>4, <1>5, <2>1, <2>2, AtRest DEF Whole, PortsWhole
<1>6. CASE streamBeats # 1
  <2>1. /\ streamBeats' \in 1 .. MaxBurst /\ streamOwner' = c
        /\ grantOwner' = c /\ grantDwell' = FALSE
        /\ UNCHANGED <<stickyCount, resumeOwner>>
    BY <1>1, <1>2, <1>6
  <2>2. TypeOK'
    <3>1. port' \in [Clients -> PortType] /\ streamBeats' \in 0 .. MaxBurst
      BY <1>2, <1>3, <2>1 DEF Whole
    <3>2. /\ readBeats' \in 0 .. MaxBurst /\ readOwner' \in Clients \cup {None}
          /\ resumeOwner' \in Clients \cup {None}
          /\ stickyCount' \in 0 .. StickyLimit - 1
      BY <1>1, <2>1 DEF FabricInv, TypeOK
    <3>3. /\ protocolError' \in BOOLEAN /\ released' \in BOOLEAN
          /\ served' \in BOOLEAN /\ armed' \in BOOLEAN
      BY <1>1 DEF FabricInv, TypeOK, epochVars
    <3> QED
      BY <1>1, <1>2, <2>1, <3>1, <3>2, <3>3 DEF TypeOK
  <2>3. PortsWhole'
    BY <1>3 DEF Whole, PortsWhole
  <2>4. OneInFlight'
    BY <1>1, <1>2, <2>1 DEF OneInFlight
  <2>5. InStep'
    BY <1>1, <1>3, <1>4, <1>6, <2>1 DEF InStep
  <2>6. \A d \in Clients : ~Orphan(d)'
    <3>1. \A d \in Clients : Holds(d)' => d = c
      BY <1>1, <1>2, <2>1 DEF Holds, NoCommand, Clients, None
    <3> QED
      BY <1>3, <1>6, <3>1 DEF Orphan
  <2> QED
    BY <1>1, <2>2, <2>3, <2>4, <2>5, <2>6, NobodyLeft DEF FabricInv
<1> QED
  BY <1>5, <1>6

\* A gap in a burst keeps it.
LEMMA GapKeeps == FabricInv /\ StreamGap => FabricInv'
<1> SUFFICES ASSUME FabricInv, StreamGap PROVE FabricInv'
  OBVIOUS
<1>1. protocolError' = TRUE /\ UNCHANGED <<fabricVars, port, epochVars>>
  BY DEF StreamGap
<1>2. TypeOK'
  BY <1>1 DEF FabricInv, TypeOK, fabricVars, epochVars
<1>3. PortsWhole' /\ OneInFlight' /\ InStep'
  BY <1>1 DEF FabricInv, PortsWhole, OneInFlight, InStep, fabricVars
<1>4. \A d \in Clients : Orphan(d)' => Orphan(d)
  BY <1>1 DEF Orphan, Holds, fabricVars
<1> QED
  BY <1>1, <1>2, <1>3, <1>4, NobodyLeft DEF FabricInv

-----------------------------------------------------------------------------
(* The clients and the sessions                                            *)

\* A request keeps it.
LEMMA RaiseKeeps == ASSUME NEW c \in Clients
                    PROVE  FabricInv /\ Raise(c) => FabricInv'
<1> SUFFICES ASSUME FabricInv, Raise(c) PROVE FabricInv'
  OBVIOUS
<1>1. PICK r \in Asks(c) : port' = [port EXCEPT ![c] = r]
  BY DEF Raise
<1>2. port[c] = Idle /\ UNCHANGED <<fabricVars, protocolError, epochVars>>
  BY DEF Raise
<1>3. /\ r \in PortType /\ r.state = "want" /\ r.op \in {"read", "write"}
      /\ r.beats \in 1 .. MaxBurst
  BY AskIsPort
<1>4. /\ port' \in [Clients -> PortType] /\ port'[c] = r
      /\ \A d \in Clients \ {c} : port'[d] = port[d]
  BY <1>1, <1>3 DEF FabricInv, TypeOK
<1>5. TypeOK'
  BY <1>2, <1>4 DEF FabricInv, TypeOK, fabricVars, epochVars
<1>6. PortsWhole'
  BY <1>3, <1>4 DEF FabricInv, PortsWhole
<1>7. OneInFlight'
  BY <1>2 DEF FabricInv, OneInFlight, fabricVars
<1>8. InStep'
  BY <1>2, <1>3, <1>4 DEF FabricInv, InStep, fabricVars
<1>9. \A d \in Clients : Orphan(d)' => Orphan(d)
  BY <1>2, <1>3, <1>4 DEF Orphan, Holds, Idle, fabricVars
<1> QED
  BY <1>2, <1>5, <1>6, <1>7, <1>8, <1>9, NobodyLeft DEF FabricInv

\* The release of the console keeps it: the control client has been served, so
\* nothing of the path clients is left from before their reset.
LEMMA ReleaseKeeps == FabricInv /\ Release => FabricInv'
<1> SUFFICES ASSUME FabricInv, Release PROVE FabricInv'
  OBVIOUS
<1>1. /\ served /\ released' = TRUE
      /\ UNCHANGED <<fabricVars, protocolError, port, served, armed>>
  BY DEF Release, MayRelease
<1>2. TypeOK'
  BY <1>1 DEF FabricInv, TypeOK, fabricVars
<1>3. PortsWhole' /\ OneInFlight' /\ InStep'
  BY <1>1 DEF FabricInv, PortsWhole, OneInFlight, InStep, fabricVars
<1>4. /\ Orphan(Legacy)' <=> Orphan(Legacy)
      /\ Orphan(Plane)' <=> Orphan(Plane)
      /\ Orphan(Packet)' <=> Orphan(Packet)
      /\ Orphan(Control)' <=> Orphan(Control)
  BY <1>1 DEF Orphan, Holds, fabricVars
<1>5. ClientsDrained' /\ ServedAfterDrain'
  BY <1>1, <1>4 DEF FabricInv, ClientsDrained, ServedAfterDrain
<1> QED
  BY <1>2, <1>3, <1>5 DEF FabricInv

\* A reset of clients that neither forgets a drain nor resets the controller
\* keeps it.
LEMMA ResetKeeps ==
  ASSUME FabricInv, NEW R \in SUBSET {Plane, Packet, Control},
         port' = Unless(R, port), UNCHANGED <<fabricVars, protocolError>>,
         released' = FALSE, served' = FALSE, armed' \in BOOLEAN,
         armed' => armed /\ Control \notin R
  PROVE  FabricInv'
<1>1. Idle \in PortType
  BY FabricAssumption DEF Idle, PortType, States
<1>2. \A d \in Clients : port'[d] = IF d \in R THEN Idle ELSE port[d]
  BY DEF Unless
<1>3. port' \in [Clients -> PortType]
  BY <1>1 DEF Unless, FabricInv, TypeOK
<1>4. TypeOK'
  BY <1>3 DEF FabricInv, TypeOK, fabricVars
<1>5. PortsWhole'
  BY <1>2 DEF FabricInv, PortsWhole, Idle
<1>6. OneInFlight'
  BY DEF FabricInv, OneInFlight, fabricVars
<1>7. InStep'
  BY <1>2 DEF FabricInv, InStep, Idle, fabricVars
<1>8. \A d \in Clients \ R : Orphan(d)' <=> Orphan(d)
  BY <1>2 DEF Orphan, Holds, fabricVars
<1>9. Legacy \in Clients \ R /\ Control \in Clients
  BY DEF Legacy, Plane, Packet, Control, Clients
<1>10. ClientsDrained' /\ ServedAfterDrain'
  BY <1>8, <1>9 DEF FabricInv, ClientsDrained, ServedAfterDrain
<1> QED
  BY <1>4, <1>5, <1>6, <1>7, <1>10 DEF FabricInv

\* The end of a session keeps it.
LEMMA FlushKeeps == FabricInv /\ Flush => FabricInv'
<1> SUFFICES ASSUME FabricInv, Flush PROVE FabricInv'
  OBVIOUS
<1>1. /\ released' = FALSE /\ served' = FALSE /\ armed' = armed
      /\ port' = Unless(Path, port) /\ UNCHANGED <<fabricVars, protocolError>>
  BY DEF Flush, Flushed
<1>2. Path \in SUBSET {Plane, Packet, Control} /\ Control \notin Path
  BY DEF Path, Plane, Packet, Control
<1>3. armed' \in BOOLEAN
  BY <1>1 DEF FabricInv, TypeOK
<1> QED
  BY <1>1, <1>2, <1>3, ResetKeeps

\* A reset of the shell keeps it.
LEMMA BridgeKeeps == FabricInv /\ BridgeReset => FabricInv'
<1> SUFFICES ASSUME FabricInv, BridgeReset PROVE FabricInv'
  OBVIOUS
<1>1. /\ released' = FALSE /\ served' = FALSE /\ armed' = FALSE
      /\ port' = Unless(Path \cup {Control}, port)
      /\ UNCHANGED <<fabricVars, protocolError>>
  BY DEF BridgeReset, Flushed, ArmedAfterReset
<1>2. Path \cup {Control} \in SUBSET {Plane, Packet, Control}
  BY DEF Path
<1> QED
  BY <1>1, <1>2, ResetKeeps

-----------------------------------------------------------------------------
(* The theorems                                                            *)

\* The initial state satisfies the invariant.
LEMMA InitFabricInv == Init => FabricInv
<1> SUFFICES ASSUME Init PROVE FabricInv
  OBVIOUS
<1>1. StickyLimit \in Nat \ {0} /\ MaxBurst \in Nat \ {0}
  BY FabricAssumption
<1>2. TypeOK
  <2>1. Idle \in PortType
    BY <1>1 DEF Idle, PortType, States
  <2>2. port \in [Clients -> PortType]
    BY <2>1 DEF Init
  <2>3. grantOwner \in Clients
    BY DEF Init, Legacy, Clients
  <2>4. stickyCount \in 0 .. StickyLimit - 1
    BY <1>1 DEF Init
  <2>5. readBeats \in 0 .. MaxBurst /\ streamBeats \in 0 .. MaxBurst
    BY <1>1 DEF Init
  <2> QED
    BY <2>2, <2>3, <2>4, <2>5 DEF Init, TypeOK
<1>3. PortsWhole /\ OneInFlight /\ InStep
  BY DEF Init, PortsWhole, OneInFlight, InStep, Idle
<1>4. \A d \in Clients : ~Holds(d)
  BY DEF Init, Holds, NoCommand, Clients, None
<1> QED
  BY <1>2, <1>3, <1>4 DEF FabricInv, ClientsDrained, ServedAfterDrain, Orphan,
     Clients, Legacy, Plane, Packet, Control

\* A step that changes nothing keeps it.
LEMMA StutterKeeps == FabricInv /\ UNCHANGED vars => FabricInv'
<1> SUFFICES ASSUME FabricInv, UNCHANGED vars PROVE FabricInv'
  OBVIOUS
<1>1. TypeOK'
  BY DEF FabricInv, TypeOK, vars, fabricVars, epochVars
<1>2. PortsWhole' /\ OneInFlight' /\ InStep'
  BY DEF FabricInv, PortsWhole, OneInFlight, InStep, vars, fabricVars
<1>3. \A d \in Clients : Orphan(d)' => Orphan(d)
  BY DEF Orphan, Holds, vars, fabricVars
<1> QED
  BY <1>1, <1>2, <1>3, NobodyLeft DEF FabricInv, vars

\* A clock of the quarantine keeps it.
LEMMA PowerKeeps == FabricInv /\ (StaleBeat \/ QuietClock) => FabricInv'
<1> SUFFICES ASSUME FabricInv, StaleBeat \/ QuietClock PROVE FabricInv'
  OBVIOUS
<1>1. UNCHANGED <<fabricVars, protocolError, port, epochVars>>
  BY DEF StaleBeat, QuietClock
<1>2. TypeOK'
  BY <1>1 DEF FabricInv, TypeOK, fabricVars, epochVars
<1>3. PortsWhole' /\ OneInFlight' /\ InStep'
  BY <1>1 DEF FabricInv, PortsWhole, OneInFlight, InStep, fabricVars
<1>4. \A d \in Clients : Orphan(d)' => Orphan(d)
  BY <1>1 DEF Orphan, Holds, fabricVars
<1> QED
  BY <1>1, <1>2, <1>3, <1>4, NobodyLeft DEF FabricInv

\* Everything but the clocks of the quarantine leaves its registers alone.
LEMMA QuarantineStep ==
  [Next]_vars => StaleBeat \/ QuietClock \/ UNCHANGED powerVars
<1> USE DEF powerVars
<1>1. CASE QueueCommand \/ Dwell \/ Rotate
  BY <1>1 DEF QueueCommand, Dwell, Rotate
<1>2. CASE AcceptWrite \/ AcceptStream \/ AcceptRead
  BY <1>2 DEF AcceptWrite, AcceptStream, AcceptRead
<1>3. CASE ReadBeat \/ StreamBeat \/ StreamGap
  BY <1>3 DEF ReadBeat, StreamBeat, StreamGap
<1>4. CASE \E c \in Clients : Raise(c)
  BY <1>4 DEF Raise
<1>5. CASE Release \/ Flush \/ BridgeReset
  BY <1>5 DEF Release, Flush, BridgeReset
<1>6. CASE UNCHANGED vars
  BY <1>6 DEF vars
<1> QED
  BY <1>1, <1>2, <1>3, <1>4, <1>5, <1>6 DEF Next, Tick

\* FabricInv holds in every state of the fabric: whatever its clients ask for,
\* however the port answers and whenever clients are reset, the fabric has one
\* transaction in flight at most, and the invariant's parts hold together.
THEOREM FabricInvariant == Spec => []FabricInv
<1>1. FabricInv /\ [Next]_vars => FabricInv'
  BY QueueKeeps, RotateKeeps, WriteKeeps, StreamKeeps, ReadKeeps, ReadBeatKeeps,
     StreamBeatKeeps, GapKeeps, RaiseKeeps, ReleaseKeeps, FlushKeeps, BridgeKeeps,
     PowerKeeps, StutterKeeps DEF Next, Tick
<1> QED
  BY InitFabricInv, <1>1, PTL DEF Spec

\* No client waits for a beat the fabric does not owe it, and the fabric owes no
\* beat to a client that counts differently, for every length of bursts.
THEOREM FabricInStep == Spec => []InStep
<1>1. FabricInv => InStep
  BY DEF FabricInv
<1> QED
  BY FabricInvariant, <1>1, PTL

\* While an answer of before is still to come, fewer clocks are quiet in a row
\* than the quarantine waits for, however many such answers there are.
THEOREM QuarantineHolds == Spec => []QuarantineInv
<1>0. QuietCycles \in Nat \ {0} /\ MaxStale \in Nat /\ MaxGap \in Nat
      /\ MaxGap < QuietCycles
  BY FabricAssumption
<1>1. Init => QuarantineInv
  BY <1>0 DEF Init, QuarantineInv
<1>2. QuarantineInv /\ [Next]_vars => QuarantineInv'
  <2> SUFFICES ASSUME QuarantineInv, [Next]_vars PROVE QuarantineInv'
    OBVIOUS
  <2>1. CASE StaleBeat
    BY <1>0, <2>1 DEF StaleBeat, QuietAfterAnswer, QuarantineInv
  <2>2. CASE QuietClock
    <3>1. /\ quarantine' = (quiet < QuietCycles - 1)
          /\ quiet' = IF quiet < QuietCycles - 1 THEN quiet + 1 ELSE 0
          /\ gap' = IF stale > 0 THEN gap + 1 ELSE 0
          /\ stale' = stale /\ (stale > 0 => gap < MaxGap)
      BY <2>2 DEF QuietClock
    <3>2. quarantine' \in BOOLEAN /\ (quiet < QuietCycles - 1 => quarantine')
      <4>1. (quiet < QuietCycles - 1) \in BOOLEAN
        OBVIOUS
      <4> QED
        BY <3>1, <4>1, Zenon
    <3>3. stale > 0 => quiet < QuietCycles - 1
      BY <1>0, <3>1 DEF QuarantineInv
    <3>4. quiet' \in 0 .. QuietCycles - 1 /\ stale' \in Nat /\ gap' \in Nat
      BY <1>0, <3>1 DEF QuarantineInv
    <3>5. stale' > 0 => quarantine' /\ quiet' = gap' /\ gap' <= MaxGap
      BY <1>0, <3>1, <3>2, <3>3 DEF QuarantineInv
    <3> QED
      BY <3>2, <3>4, <3>5 DEF QuarantineInv
  <2>3. CASE UNCHANGED powerVars
    BY <2>3 DEF powerVars, QuarantineInv
  <2> QED
    BY <2>1, <2>2, <2>3, QuarantineStep
<1> QED
  BY <1>1, <1>2, PTL DEF Spec

\* No client takes the acceptance or the data of a command from before a reset
\* for its own, whenever the resets of the clients come, and whatever was on its
\* way when the fabric was powered up, as long as it comes without long gaps.
THEOREM FabricDrained == Spec => []OldCommandsDrained
<1>1. FabricInv /\ QuarantineInv => OldCommandsDrained
  BY DEF FabricInv, QuarantineInv, OldCommandsDrained
<1> QED
  BY FabricInvariant, QuarantineHolds, <1>1, PTL
=============================================================================
