------------------------------ MODULE Takeover ------------------------------
(***************************************************************************)
(* Who owns the SPI bus to the FPGA.  It belongs to MiSTer's Main; the     *)
(* supervisor stops Main and starts the standalone host in its place.  A   *)
(* guard, a process of its own, watches both through a lease file and      *)
(* restores Main when the host has ended or anybody has died.              *)
(*                                                                         *)
(* One supervisor runs at a time, but the guard of the launch before may   *)
(* still be at work.  Time limits, kills and failures are mishaps, and     *)
(* there are few of them.  The supervisor accepts nine names of Main, the  *)
(* host knows one of them (stock).  Left out: a core that the user has     *)
(* chosen for Main, the bootstrap display settings, CPU affinities and     *)
(* clocks, and a setting that gives one core a Main of another name.       *)
(***************************************************************************)
EXTENDS Naturals, FiniteSets

CONSTANTS
  MaxLaunches,   \* bound: launches of the script
  MaxMishaps     \* bound: kills, crashes, expired time limits

ASSUME TakeoverAssumption == MaxLaunches \in Nat /\ MaxMishaps \in Nat

Launches == 1 .. MaxLaunches

VARIABLES
  sup, guard, host,          \* where each process of a launch is
  supMain, guardMain,        \* the Main that it has looked up
  term,                      \* hosts that have been told to end
  seen,                      \* what a guard last read of the lease
  lease, ready, lock,        \* files: lease, guard-ready, owner of host.lock
  mains, leaving, coming,    \* Main processes, those that exit, one that starts
  command, core,             \* Main's FIFO, CORENAME
  stock,                     \* Main has the name that the host looks for
  kick, helper,              \* a Kickstart that starts the helper; the helper
  mishaps, lost              \* history; lost: a guard was killed or gave up

procs  == <<sup, guard, host, supMain, guardMain, term, seen>>
files  == <<lease, ready, lock>>
main   == <<mains, leaving, coming, command, core, stock>>
helps  == <<kick, helper>>
past   == <<mishaps, lost>>
vars   == <<procs, files, main, helps, past>>

Nobody  == <<"nobody", 0>>
NoLease == [sup |-> 0, host |-> 0, phase |-> "bootstrap", done |-> FALSE]

Init ==
  /\ sup = [l \in Launches |-> "none"] /\ guard = [l \in Launches |-> "none"]
  /\ host = [l \in Launches |-> "none"]
  /\ supMain = 0 /\ guardMain = [l \in Launches |-> 0]
  /\ term = {}
  /\ seen = [l \in Launches |-> NoLease]
  /\ lease = NoLease /\ ready = FALSE /\ lock = Nobody
  /\ mains = {1} /\ leaving = {} /\ coming = FALSE
  /\ command = "none" /\ core = "MENU" /\ stock \in BOOLEAN
  /\ kick = FALSE /\ helper = FALSE
  /\ mishaps = 0 /\ lost = FALSE

SupAlive(l) == l \in Launches /\ sup[l] \notin {"none", "gone"}

HostAlive(l) == l \in Launches /\ host[l] \notin {"none", "gone"}

Mishap == mishaps < MaxMishaps /\ mishaps' = mishaps + 1

-----------------------------------------------------------------------------
(* Main.  To load a core it starts another process and ends, in any order. *)

Fresh ==
  CHOOSE m \in 1 .. MaxLaunches + 4 :
    m \notin mains \cup {supMain} \cup {guardMain[l] : l \in Launches}

Send(c) ==
  /\ mains \ leaving # {}
  /\ command' = c
  /\ UNCHANGED <<mains, leaving, coming, core, stock>>

Kill(m) ==
  /\ mains' = mains \ {m} /\ leaving' = leaving \ {m}
  /\ command' = IF mains \ (leaving \cup {m}) = {} THEN "none" ELSE command
  /\ UNCHANGED <<coming, core, stock>>

Load ==
  /\ command # "none" /\ command' = "none"
  /\ \E m \in mains \ leaving : leaving' = leaving \cup {m}
  /\ core' = command /\ coming' = TRUE
  /\ UNCHANGED <<mains, stock>>

Arrive ==
  /\ coming /\ coming' = FALSE
  /\ mains' = mains \cup {Fresh}
  /\ UNCHANGED <<leaving, command, core, stock>>

End ==
  /\ \E m \in leaving : mains' = mains \ {m} /\ leaving' = leaving \ {m}
  /\ UNCHANGED <<coming, command, core, stock>>

Main == (Load \/ Arrive \/ End) /\ UNCHANGED <<procs, files, helps, past>>

-----------------------------------------------------------------------------
(* The supervisor                                                          *)

\* The kernel tells a host that its supervisor has died.
Orphan(l) ==
  term' = term \cup
    IF host[l] \in {"tied", "locked", "building", "owning"} THEN {l} ELSE {}

SupMoves(l, from, to) ==
  /\ sup[l] = from /\ sup' = [sup EXCEPT ![l] = to]
  /\ UNCHANGED <<guard, guardMain, seen, past>>

\* A step of the supervisor that touches no Main, no helper and no host.
Steps(l, from, to) ==
  SupMoves(l, from, to) /\ UNCHANGED <<host, supMain, term, main, helps, lock, ready>>

\* Preflight's checksums take seconds: a command has been taken from the FIFO by
\* then, and a host has come from its last look at the signal to its constructor.
Settled == command = "none" /\ \A k \in Launches : host[k] # "building"

\* main takes the supervisor lock.
Launch(l) ==
  /\ Settled
  /\ \A k \in Launches : ~SupAlive(k) /\ (k < l => sup[k] = "gone")
  /\ Steps(l, "none", "preflight")
  /\ UNCHANGED lease

\* One Main, and no other session or recovery; tested twice.
MayStart == Cardinality(mains) = 1 /\ ~ready

Preflight(l) ==
  /\ Steps(l, "preflight", IF MayStart THEN "settings" ELSE "gone")
  /\ UNCHANGED lease

Retest(l) ==
  /\ Steps(l, "settings", IF MayStart THEN "lease" ELSE "gone")
  /\ UNCHANGED lease

\* What has been tested may be over by now.
WriteLease(l) ==
  Steps(l, "lease", "guard") /\ lease' = [NoLease EXCEPT !.sup = l]

StartGuard(l) ==
  /\ sup[l] = "guard"
  /\ sup' = [sup EXCEPT ![l] = "await"]
  /\ guard' = [guard EXCEPT ![l] = "starting"]
  /\ UNCHANGED <<host, supMain, guardMain, term, seen, files, main, helps, past>>

AwaitGuard(l) == ready /\ Steps(l, "await", "menu") /\ UNCHANGED lease

EnterMenu(l) ==
  /\ SupMoves(l, "menu", IF core = "MENU" THEN "stop" ELSE "inMenu")
  /\ IF core = "MENU" THEN UNCHANGED main ELSE Send("MENU")
  /\ UNCHANGED <<host, supMain, term, files, helps>>

InMenu(l) == core = "MENU" /\ Steps(l, "inMenu", "stop") /\ UNCHANGED lease

StopHelper(l) ==
  /\ SupMoves(l, "stop", "start")
  /\ helper' = FALSE
  /\ UNCHANGED <<host, supMain, term, files, main, kick>>

\* Kickstart.sh start, a process of its own.
StartHelper(l) ==
  /\ SupMoves(l, "start", "started")
  /\ kick' = TRUE
  /\ UNCHANGED <<host, supMain, term, files, main, helper>>

Started(l) ==
  /\ ~kick
  /\ Steps(l, "started", IF helper THEN "load" ELSE "finally")
  /\ UNCHANGED lease

LoadCore(l) ==
  /\ SupMoves(l, "load", "loading")
  /\ supMain' \in mains
  /\ Send("NDS")
  /\ UNCHANGED <<host, term, files, helps>>

NdsLoaded == core = "NDS" /\ supMain \notin mains

\* And three seconds later, by when a Main that replaces itself has done so.
Loaded(l) ==
  /\ NdsLoaded /\ ~coming /\ leaving = {}
  /\ Steps(l, "loading", "own")
  /\ UNCHANGED lease

Own(l) ==
  /\ SupMoves(l, "own", IF Cardinality(mains) = 1 /\ helper THEN "kill" ELSE "finally")
  /\ supMain' \in IF mains = {} THEN {0} ELSE mains
  /\ UNCHANGED <<host, term, files, main, helps>>

KillMain(l) ==
  /\ SupMoves(l, "kill", "look")
  /\ Kill(supMain) /\ supMain' = 0
  /\ UNCHANGED <<host, term, files, helps>>

NoMain == mains = {}

Look(l) ==
  Steps(l, "look", IF NoMain THEN "spawn" ELSE "finally") /\ UNCHANGED lease

Spawn(l) ==
  /\ SupMoves(l, "spawn", "journal")
  /\ host' = [host EXCEPT ![l] = "spawned"]
  /\ UNCHANGED <<supMain, term, files, main, helps>>

Journal(l) ==
  /\ Steps(l, "journal", "wait")
  /\ lease' = [lease EXCEPT !.host = l, !.phase = "running"]

HostEnded(l) == host[l] = "gone" /\ Steps(l, "wait", "finally") /\ UNCHANGED lease

Finally(l) == Steps(l, "finally", "join") /\ lease' = [lease EXCEPT !.done = TRUE]

Joined(l) ==
  /\ guard[l] = "gone"
  /\ SupMoves(l, "join", "gone")
  /\ Orphan(l)
  /\ UNCHANGED <<host, supMain, files, main, helps>>

Supervisor(l) ==
  \/ Preflight(l) \/ Retest(l) \/ WriteLease(l) \/ StartGuard(l) \/ AwaitGuard(l)
  \/ EnterMenu(l) \/ InMenu(l) \/ StopHelper(l) \/ StartHelper(l) \/ Started(l)
  \/ LoadCore(l) \/ Loaded(l) \/ Own(l) \/ KillMain(l) \/ Look(l) \/ Spawn(l)
  \/ Journal(l) \/ HostEnded(l) \/ Finally(l) \/ Joined(l)

\* What an exception, or SIGTERM, does to a supervisor.
Raised(l) ==
  IF sup[l] \in {"preflight", "settings", "lease", "guard", "await", "finally", "join"}
  THEN "gone" ELSE "finally"

-----------------------------------------------------------------------------
(* The helper                                                              *)

Kickstart ==
  /\ kick /\ kick' = FALSE /\ helper' = TRUE
  /\ UNCHANGED <<procs, files, main, past>>

-----------------------------------------------------------------------------
(* The standalone host                                                     *)

HostMoves(l, from, to) ==
  /\ host[l] = from /\ host' = [host EXCEPT ![l] = to]
  /\ UNCHANGED <<sup, guard, supMain, guardMain, term, seen, lease, ready, main, helps,
                 past>>

\* Asks for a signal when its parent dies, unless it has died already.
Tie(l) ==
  HostMoves(l, "spawned", IF SupAlive(l) THEN "tied" ELSE "gone") /\ UNCHANGED lock

TakeHostLock(l) ==
  /\ HostMoves(l, "tied", IF lock = Nobody THEN "locked" ELSE "gone")
  /\ lock' = IF lock = Nobody THEN <<"host", l>> ELSE lock

Drop(l) == IF lock = <<"host", l>> THEN Nobody ELSE lock

\* Seeded fault: the host takes the bus from a Main that still runs.
SeesNone == FALSE

SeesMain == stock /\ mains # {}

CheckTerm(l) ==
  /\ HostMoves(l, "locked", IF l \in term THEN "gone" ELSE "building")
  /\ lock' = IF l \in term THEN Drop(l) ELSE lock

\* The constructor of Spi: the core must be there, and Main gone.
TakeSpi(l) ==
  LET may == core = "NDS" /\ ~SeesMain IN
  /\ HostMoves(l, "building", IF may THEN "owning" ELSE "gone")
  /\ lock' = IF may THEN lock ELSE Drop(l)

\* run ends: by SIGTERM, by the user, or because there is a Main.
HostEnds(l) == HostMoves(l, "owning", "gone") /\ lock' = Drop(l)

Host(l) ==
  \/ Tie(l) \/ TakeHostLock(l) \/ CheckTerm(l) \/ TakeSpi(l)
  \/ (l \in term \/ SeesMain) /\ HostEnds(l)

-----------------------------------------------------------------------------
(* The guard                                                               *)

GuardMoves(l, from, to) ==
  /\ guard[l] = from /\ guard' = [guard EXCEPT ![l] = to]
  /\ UNCHANGED <<seen, past>>

GuardSteps(l, from, to) ==
  GuardMoves(l, from, to) /\ UNCHANGED <<sup, host, supMain, guardMain, term, files,
                                         main, helps>>

Read(l) ==
  /\ guard[l] \in {"starting", "watch"}
  /\ guard' = [guard EXCEPT ![l] = "watch"]
  /\ seen' = [seen EXCEPT ![l] = lease]
  /\ ready' = IF guard[l] = "starting" THEN TRUE ELSE ready
  /\ UNCHANGED <<sup, host, supMain, guardMain, term, lease, lock, main, helps, past>>

\* Seeded fault: a supervisor that dies is left to the time limits.
EndedByJournal(s) == s.done

\* Why a guard stops to watch, other than a time limit.
Ended(s) == s.done \/ ~SupAlive(s.sup)

Lost(s) == s.phase = "running" /\ (~HostAlive(s.host) \/ ~helper)

Decide(l) ==
  \/ Ended(seen[l]) /\ GuardSteps(l, "watch", "killHost")
  \/ ~Ended(seen[l]) /\ Lost(seen[l]) /\ GuardSteps(l, "watch", "term")

\* The supervisor is told to end, and killed if it does not: it waits for the guard.
TermSup(l) ==
  LET s == seen[l].sup IN
  /\ GuardMoves(l, "term", "kill")
  /\ sup' = IF SupAlive(s) THEN [sup EXCEPT ![s] = Raised(s)] ELSE sup
  /\ IF SupAlive(s) /\ Raised(s) = "gone" THEN Orphan(s) ELSE UNCHANGED term
  /\ UNCHANGED <<host, supMain, guardMain, files, main, helps>>

KillSup(l) ==
  LET s == seen[l].sup IN
  /\ GuardMoves(l, "kill", "killHost")
  /\ sup' = IF SupAlive(s) THEN [sup EXCEPT ![s] = "gone"] ELSE sup
  /\ IF SupAlive(s) THEN Orphan(s) ELSE UNCHANGED term
  /\ UNCHANGED <<host, supMain, guardMain, files, main, helps>>

\* recover: the host that the lease names, whatever it does.
KillHost(l) ==
  LET h == seen[l].host IN
  /\ GuardMoves(l, "killHost", "lock")
  /\ host' = IF HostAlive(h) THEN [host EXCEPT ![h] = "gone"] ELSE host
  /\ lock' = IF HostAlive(h) THEN Drop(h) ELSE lock
  /\ UNCHANGED <<sup, supMain, guardMain, term, lease, ready, main, helps>>

\* Seeded fault: the guard takes a host that the lease does not name for ended.
LockedAnyway == TRUE

Lockable == lock = Nobody

TakeLock(l) ==
  /\ Lockable
  /\ GuardMoves(l, "lock", "stop")
  /\ lock' = <<"guard", l>>
  /\ UNCHANGED <<sup, host, supMain, guardMain, term, lease, ready, main, helps>>

GuardStopsHelper(l) ==
  /\ GuardMoves(l, "stop", "look")
  /\ helper' = FALSE
  /\ UNCHANGED <<sup, host, supMain, guardMain, term, files, main, kick>>

LookForMain(l) == GuardSteps(l, "look", IF mains = {} THEN "start" ELSE "one")

StartMain(l) ==
  /\ GuardMoves(l, "start", "one")
  /\ mains' = mains \cup {Fresh}
  /\ UNCHANGED <<sup, host, supMain, guardMain, term, files, leaving, coming, command,
                 core, stock, helps>>

OneMain(l) ==
  /\ Cardinality(mains) = 1
  /\ GuardMoves(l, "one", "menu")
  /\ \E m \in mains : guardMain' = [guardMain EXCEPT ![l] = m]
  /\ UNCHANGED <<sup, host, supMain, term, files, main, helps>>

LoadMenu(l) ==
  /\ GuardMoves(l, "menu", "loading")
  /\ Send("MENU")
  /\ UNCHANGED <<sup, host, supMain, guardMain, term, files, helps>>

Restored(l) ==
  guardMain[l] \notin mains /\ core = "MENU" /\ Cardinality(mains) = 1

MenuLoaded(l) ==
  /\ Restored(l)
  /\ GuardMoves(l, "loading", "gone")
  /\ guardMain' = [guardMain EXCEPT ![l] = 0]
  /\ lock' = Nobody /\ ready' = FALSE
  /\ UNCHANGED <<sup, host, supMain, term, lease, main, helps>>

\* recover raises after a time limit: no Main, and no file that says ready.
Fails(l) ==
  /\ guard' = [guard EXCEPT ![l] = "gone"]
  /\ guardMain' = [guardMain EXCEPT ![l] = 0]
  /\ lock' = IF lock = <<"guard", l>> THEN Nobody ELSE lock
  /\ ready' = FALSE /\ lost' = TRUE
  /\ UNCHANGED <<sup, host, supMain, term, seen, lease, main, helps>>

\* The Main that is waited for does not come: another supervisor has taken it.
MainIsQuiet == command = "none" /\ ~coming /\ leaving = {}

TimesOut(l) ==
  /\ MainIsQuiet /\ Fails(l) /\ UNCHANGED mishaps
  /\ \/ guard[l] = "one" /\ Cardinality(mains) # 1
     \/ guard[l] = "menu" /\ mains = {}
     \/ guard[l] = "loading" /\ ~Restored(l)

Guard(l) ==
  \/ Read(l) \/ Decide(l) \/ TermSup(l) \/ KillSup(l) \/ KillHost(l) \/ TakeLock(l)
  \/ GuardStopsHelper(l) \/ LookForMain(l) \/ StartMain(l) \/ OneMain(l) \/ LoadMenu(l)
  \/ MenuLoaded(l) \/ TimesOut(l)

-----------------------------------------------------------------------------
(* Mishaps                                                                 *)

\* An assertion fails, a time limit expires, or the user interrupts.
SupRaises(l) ==
  /\ SupAlive(l)
  /\ sup' = [sup EXCEPT ![l] = Raised(l)]
  /\ IF Raised(l) = "gone" THEN Orphan(l) ELSE UNCHANGED term
  /\ UNCHANGED <<guard, host, supMain, guardMain, seen, files, main, helps, lost>>

SupDies(l) ==
  /\ SupAlive(l)
  /\ sup' = [sup EXCEPT ![l] = "gone"]
  /\ Orphan(l)
  /\ UNCHANGED <<guard, host, supMain, guardMain, seen, files, main, helps, lost>>

HostDies(l) ==
  /\ HostAlive(l)
  /\ host' = [host EXCEPT ![l] = "gone"]
  /\ lock' = Drop(l)
  /\ UNCHANGED <<sup, guard, supMain, guardMain, term, seen, lease, ready, main, helps,
                 lost>>

HelperDies ==
  /\ helper /\ helper' = FALSE
  /\ UNCHANGED <<procs, files, main, kick, lost>>

\* The heartbeat is old, or the bootstrap takes long.
Expires(l) ==
  /\ guard[l] = "watch" /\ guard' = [guard EXCEPT ![l] = "term"]
  /\ UNCHANGED <<sup, host, supMain, guardMain, term, seen, files, main, helps, lost>>

GivesUp(l) == guard[l] \in {"lock", "one", "menu", "loading"} /\ Fails(l)

GuardDies(l) ==
  /\ guard[l] \notin {"none", "gone"}
  /\ guard' = [guard EXCEPT ![l] = "gone"]
  /\ guardMain' = [guardMain EXCEPT ![l] = 0]
  /\ lock' = IF lock = <<"guard", l>> THEN Nobody ELSE lock
  /\ lost' = TRUE
  /\ UNCHANGED <<sup, host, supMain, term, seen, lease, ready, main, helps>>

Mishaps ==
  /\ Mishap
  /\ \/ HelperDies
     \/ \E l \in Launches :
          \/ SupRaises(l) \/ SupDies(l) \/ HostDies(l) \/ Expires(l) \/ GivesUp(l)
          \/ GuardDies(l)

-----------------------------------------------------------------------------
User == \E l \in Launches : Launch(l) \/ HostEnds(l)

Progress ==
  \/ Main \/ Kickstart
  \/ \E l \in Launches : Supervisor(l) \/ Host(l) \/ Guard(l)

Next == User \/ Progress \/ Mishaps

Spec == Init /\ [][Next]_vars

\* Processes are scheduled; nothing makes a user start or end a session.
FairSpec == Spec /\ WF_vars(Progress)

-----------------------------------------------------------------------------
(* Properties                                                              *)

\* A guard is lost, and the Main that it may have started has a name that the host
\* does not know.
Unseen == lost /\ ~stock

\* The host and Main never own the SPI bus at the same time, nor do two hosts.  One
\* case is excepted, the one that the host cannot see: it takes the bus from a Main
\* of another name than MiSTer if a guard was lost after it had started that Main
\* (host.cpp live_main, supervisor.py recover).
NeverTwoOwners ==
  \A l \in Launches : host[l] = "owning" =>
    (mains = {} \/ Unseen) /\ \A k \in Launches \ {l} : host[k] # "owning"

\* As long as a host owns the bus there is a guard that would restore Main, unless
\* one was killed or gave up.
HostGuarded ==
  \A l \in Launches : host[l] = "owning" =>
    lost \/ \E k \in Launches : guard[k] \notin {"none", "gone"}

\* Nothing but a crash takes the helper away from a host that runs, or a launch next
\* to a host that has not seen Main.
RendererKept ==
  [][helper /\ ~helper' =>
       mishaps' # mishaps \/ Unseen \/ \A l \in Launches : host[l] # "owning"]_vars

\* When nobody owns the bus, somebody will: the host, or Main again, unless the
\* guard was killed or has reported that it failed.
BusOwned ==
  mains = {} ~> mains # {} \/ lost \/ \E l \in Launches : host[l] = "owning"
=============================================================================
