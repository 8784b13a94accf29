--------------------------- MODULE TakeoverProofs ---------------------------
(***************************************************************************)
(* Proofs about Takeover, for every number of launches and of mishaps and  *)
(* every name of Main: Main and a host never own the SPI bus at the same   *)
(* time, nor do two hosts; a host that has the bus has its guard; and      *)
(* nothing but a crash takes the helper away from a host that runs.  The   *)
(* exception of the first and the last is a part of what they say.  BusInv *)
(* is inductive, and GuardInv is on top of it.                             *)
(***************************************************************************)
EXTENDS Takeover, FiniteSetTheorems, TLAPS

SupStates ==
  {"none", "preflight", "settings", "lease", "guard", "await", "menu", "inMenu",
   "stop", "start", "started", "load", "loading", "own", "kill", "look", "spawn",
   "journal", "wait", "finally", "join", "gone"}

HostStates == {"none", "spawned", "tied", "locked", "building", "owning", "gone"}

GuardStates ==
  {"none", "starting", "watch", "term", "kill", "killHost", "lock", "stop", "look",
   "start", "one", "menu", "loading", "gone"}

Cores == {"none", "MENU", "NDS"}

\* Each process is somewhere.
Kinds ==
  /\ sup \in [Launches -> SupStates] /\ host \in [Launches -> HostStates]
  /\ guard \in [Launches -> GuardStates]
  /\ command \in Cores /\ core \in Cores /\ coming \in BOOLEAN /\ mishaps \in Nat

\* Who works on the bus has the lock.
LockHeld ==
  \A l \in Launches :
    /\ host[l] \in {"locked", "building", "owning"} => lock = <<"host", l>>
    /\ guard[l] \in {"stop", "look", "start", "one", "menu", "loading"} =>
         lock = <<"guard", l>>

\* There is one supervisor at a time.
OneSupervisor ==
  \A k, l \in Launches : SupAlive(k) /\ SupAlive(l) => k = l

\* A supervisor that has yet to spawn its host has none.
NoHostYet ==
  \A l \in Launches :
    sup[l] \notin {"journal", "wait", "finally", "join", "gone"} => host[l] = "none"

\* A host that outlives its supervisor has been told so.
OrphansTold ==
  \A l \in Launches : host[l] \in {"tied", "locked"} => SupAlive(l) \/ l \in term

\* A host that may yet take the bus.
MayTake(l) ==
  host[l] = "building" \/ (host[l] \in {"spawned", "tied", "locked"} /\ SupAlive(l))

\* Beside such a host there is no supervisor but its own, and beside one that
\* has the bus none that has passed preflight, unless Main is there unseen.
Alone ==
  \A k, l \in Launches : k # l =>
    /\ MayTake(k) => ~SupAlive(l)
    /\ host[k] = "owning" => sup[l] \in {"none", "preflight", "gone"} \/ Unseen

\* No Main that loads the core of the DS is under way.
NoneComing == command # "NDS" /\ ~(coming /\ core = "NDS")

\* How far the supervisor has brought Main, before it spawns a host.
MainPrepared ==
  \A l \in Launches :
    /\ sup[l] \in {"preflight", "settings", "lease", "guard", "await", "menu", "inMenu",
                   "stop", "start", "started", "load"} => command # "NDS"
    /\ sup[l] \in {"stop", "start", "started", "load"} => core = "MENU"
    /\ sup[l] = "loading" => ~(command = "NDS" /\ core = "NDS")
    /\ sup[l] \in {"own", "kill", "look", "spawn"} \/ MayTake(l) => NoneComing

\* Once the supervisor has seen that Main is gone, only a guard brings it back, and
\* a guard that is done leaves it in its menu.
Recovering(k) == guard[k] \in {"stop", "look", "start", "one", "menu", "loading"}

NotBack ==
  \A l \in Launches : sup[l] = "spawn" \/ MayTake(l) =>
    (mains = {} /\ ~coming) \/ core # "NDS" \/ lost \/ \E k \in Launches : Recovering(k)

\* A host has the bus to itself, and no Main can appear, but one that is unseen.
OwnerAlone ==
  \A l \in Launches : host[l] = "owning" => (mains = {} /\ ~coming) \/ Unseen

BusInv ==
  /\ Kinds /\ LockHeld /\ OneSupervisor /\ NoHostYet /\ OrphansTold /\ Alone
  /\ MainPrepared /\ NotBack /\ OwnerAlone

\* The lease is that of the supervisor that is past it, and says that the launch is
\* over only when it is.
Lease == [sup : Nat, host : Nat, phase : {"bootstrap", "running"}, done : BOOLEAN]

Over(l) == sup[l] \in {"finally", "join", "gone"}

LeaseKinds == lease \in Lease /\ seen \in [Launches -> Lease]

LeaseTrue ==
  \A l \in Launches :
    /\ sup[l] \notin {"none", "preflight", "settings", "lease", "gone"} => lease.sup = l
    /\ lease.sup = l /\ lease.done => sup[l] \in {"join", "gone"}
    /\ seen[l].sup = l /\ seen[l].done => sup[l] \in {"join", "gone"}

\* A guard watches its own launch, or a later one, and ends no launch but one that is
\* over.
Active(l) == guard[l] \notin {"none", "gone"}

GuardTrue ==
  \A l \in Launches :
    /\ guard[l] = "none" =>
         /\ sup[l] \in {"none", "preflight", "settings", "lease", "guard", "gone"}
         /\ host[l] = "none"
    /\ guard[l] # "none" =>
         sup[l] \notin {"none", "preflight", "settings", "lease", "guard"}
    /\ guard[l] \in {"watch", "term"} => seen[l].sup = l \/ sup[l] = "gone"
    /\ guard[l] \notin {"none", "starting", "watch", "term"} =>
         Over(l) \/ (guard[l] = "gone" /\ lost)

\* A host that may take the bus, or has it, has its guard, or else Main is back.
Covered ==
  \A l \in Launches :
    /\ MayTake(l) => lost \/ Active(l) \/ core = "MENU"
    /\ host[l] = "owning" => lost \/ Active(l)

GuardInv == LeaseKinds /\ LeaseTrue /\ GuardTrue /\ Covered

-----------------------------------------------------------------------------
(* Every step keeps the invariant, one lemma for each part of it.          *)

\* Supervisors and hosts: of the processes alone.
LEMMA KeepProcesses ==
  ASSUME Kinds, OneSupervisor, NoHostYet, [Next]_vars
  PROVE  Kinds' /\ OneSupervisor' /\ NoHostYet'
<1> USE DEF Kinds, OneSupervisor, NoHostYet, SupStates, HostStates, GuardStates, Cores,
    SupAlive, procs, files, main, helps, past
<1>1. ASSUME NEW l \in Launches, Launch(l) \/ Supervisor(l)
      PROVE  Kinds' /\ OneSupervisor' /\ NoHostYet'
  BY <1>1 DEF Launch, Settled, Supervisor, Preflight, Retest, WriteLease, StartGuard,
      AwaitGuard, EnterMenu, InMenu, StopHelper, StartHelper, Started, LoadCore,
      Loaded, Own, KillMain, Look, Spawn, Journal, HostEnded, Finally, Joined, Steps,
      SupMoves, MayStart, Send, Kill, NdsLoaded, NoMain, Orphan
<1>2. ASSUME NEW l \in Launches, Host(l) \/ HostEnds(l)
      PROVE  Kinds' /\ OneSupervisor' /\ NoHostYet'
  BY <1>2 DEF Host, Tie, TakeHostLock, CheckTerm, TakeSpi, HostEnds, HostMoves,
      Drop, Nobody
<1>3. ASSUME NEW l \in Launches, Guard(l)
      PROVE  Kinds' /\ OneSupervisor' /\ NoHostYet'
  <2>1. CASE Read(l) \/ Decide(l) \/ GuardStopsHelper(l) \/ LookForMain(l)
    BY <2>1 DEF Read, Decide, GuardStopsHelper, LookForMain, GuardMoves,
        GuardSteps
  <2>2. CASE TermSup(l) \/ KillSup(l)
    BY <2>2 DEF TermSup, KillSup, GuardMoves, Raised, Orphan
  <2>3. CASE KillHost(l)
    BY <2>3 DEF KillHost, GuardMoves, Drop, HostAlive, Nobody
  <2>4. CASE TakeLock(l)
    BY <2>4 DEF TakeLock, Lockable, GuardMoves, Nobody
  <2>5. CASE StartMain(l) \/ OneMain(l) \/ LoadMenu(l)
    BY <2>5 DEF StartMain, OneMain, LoadMenu, GuardMoves, Send
  <2>6. CASE MenuLoaded(l) \/ TimesOut(l)
    BY <2>6 DEF MenuLoaded, Restored, TimesOut, Fails, GuardMoves, Nobody
  <2> QED
    BY <1>3, <2>1, <2>2, <2>3, <2>4, <2>5, <2>6 DEF Guard
<1>4. CASE Mishaps
  BY <1>4 DEF Mishaps, Mishap, SupRaises, SupDies, HostDies, Expires, GivesUp, Fails,
      GuardDies, HelperDies, Raised, Orphan, Drop, HostAlive, Nobody
<1>5. CASE Main \/ Kickstart \/ UNCHANGED vars
  BY <1>5 DEF Main, Load, Arrive, End, Kickstart, vars
<1> QED
  BY <1>1, <1>2, <1>3, <1>4, <1>5 DEF Next, User, Progress

\* The lock: who takes it finds it free, and only its holder lets it go.
LEMMA KeepLock ==
  ASSUME Kinds, LockHeld, [Next]_vars
  PROVE  LockHeld'
<1> USE DEF Kinds, LockHeld, SupAlive, procs, files, main, helps, past
<1>1. ASSUME NEW l \in Launches, Launch(l) \/ Supervisor(l)
      PROVE  LockHeld'
  BY <1>1 DEF Launch, Settled, Supervisor, Preflight, Retest, WriteLease, StartGuard,
      AwaitGuard, EnterMenu, InMenu, StopHelper, StartHelper, Started, LoadCore,
      Loaded, Own, KillMain, Look, Spawn, Journal, HostEnded, Finally, Joined, Steps,
      SupMoves, MayStart, Send, Kill, NdsLoaded, NoMain, Orphan
<1>2. ASSUME NEW l \in Launches, Host(l) \/ HostEnds(l) PROVE LockHeld'
  BY <1>2 DEF Host, Tie, TakeHostLock, CheckTerm, TakeSpi, HostEnds, HostMoves,
      Drop, Nobody
<1>3. ASSUME NEW l \in Launches, Guard(l) PROVE LockHeld'
  <2>1. CASE Read(l) \/ Decide(l) \/ GuardStopsHelper(l) \/ LookForMain(l)
    BY <2>1 DEF Read, Decide, GuardStopsHelper, LookForMain, GuardMoves,
        GuardSteps
  <2>2. CASE TermSup(l) \/ KillSup(l)
    BY <2>2 DEF TermSup, KillSup, GuardMoves, Raised, Orphan
  <2>3. CASE KillHost(l)
    BY <2>3 DEF KillHost, GuardMoves, Drop, HostAlive, Nobody
  <2>4. CASE TakeLock(l)
    BY <2>4 DEF TakeLock, Lockable, GuardMoves, Nobody
  <2>5. CASE StartMain(l) \/ OneMain(l) \/ LoadMenu(l)
    BY <2>5 DEF StartMain, OneMain, LoadMenu, GuardMoves, Send
  <2>6. CASE MenuLoaded(l) \/ TimesOut(l)
    BY <2>6 DEF MenuLoaded, Restored, TimesOut, Fails, GuardMoves, Nobody
  <2> QED
    BY <1>3, <2>1, <2>2, <2>3, <2>4, <2>5, <2>6 DEF Guard
<1>4. CASE Mishaps
  BY <1>4 DEF Mishaps, Mishap, SupRaises, SupDies, HostDies, Expires, GivesUp, Fails,
      GuardDies, HelperDies, Raised, Orphan, Drop, HostAlive, Nobody
<1>5. CASE Main \/ Kickstart \/ UNCHANGED vars
  BY <1>5 DEF Main, Load, Arrive, End, Kickstart, vars
<1> QED
  BY <1>1, <1>2, <1>3, <1>4, <1>5 DEF Next, User, Progress

\* A host that asks for its parent's death in time is told of it.
LEMMA KeepOrphans ==
  ASSUME Kinds, NoHostYet, OrphansTold, [Next]_vars
  PROVE  OrphansTold'
<1> USE DEF Kinds, NoHostYet, OrphansTold, SupAlive, procs, files, main, helps, past
<1>1. ASSUME NEW l \in Launches, Launch(l) \/ Supervisor(l)
      PROVE  OrphansTold'
  <2>1. CASE Launch(l) \/ Spawn(l)
    BY <2>1 DEF Launch, Spawn, Steps, SupMoves
  <2>2. CASE Joined(l)
    BY <2>2 DEF Joined, SupMoves, Orphan
  <2>3. CASE Supervisor(l) /\ ~Spawn(l) /\ ~Joined(l)
    BY <2>3 DEF Supervisor, Preflight, Retest, WriteLease, StartGuard, AwaitGuard,
        EnterMenu, InMenu, StopHelper, StartHelper, Started, LoadCore, Loaded, Own,
        KillMain, Look, Journal, HostEnded, Finally, Steps, SupMoves
  <2> QED
    BY <1>1, <2>1, <2>2, <2>3
<1>2. ASSUME NEW l \in Launches, Host(l) \/ HostEnds(l) PROVE OrphansTold'
  BY <1>2 DEF Host, Tie, TakeHostLock, CheckTerm, TakeSpi, HostEnds, HostMoves,
      Drop, Nobody
<1>3. ASSUME NEW l \in Launches, Guard(l) PROVE OrphansTold'
  <2>1. CASE Read(l) \/ Decide(l) \/ GuardStopsHelper(l) \/ LookForMain(l)
    BY <2>1 DEF Read, Decide, GuardStopsHelper, LookForMain, GuardMoves,
        GuardSteps
  <2>2. CASE TermSup(l) \/ KillSup(l)
    BY <2>2 DEF TermSup, KillSup, GuardMoves, Raised, Orphan
  <2>3. CASE KillHost(l)
    BY <2>3 DEF KillHost, GuardMoves, Drop, HostAlive, Nobody
  <2>4. CASE TakeLock(l)
    BY <2>4 DEF TakeLock, Lockable, GuardMoves, Nobody
  <2>5. CASE StartMain(l) \/ OneMain(l) \/ LoadMenu(l)
    BY <2>5 DEF StartMain, OneMain, LoadMenu, GuardMoves, Send
  <2>6. CASE MenuLoaded(l) \/ TimesOut(l)
    BY <2>6 DEF MenuLoaded, Restored, TimesOut, Fails, GuardMoves, Nobody
  <2> QED
    BY <1>3, <2>1, <2>2, <2>3, <2>4, <2>5, <2>6 DEF Guard
<1>4. CASE Mishaps
  BY <1>4 DEF Mishaps, Mishap, SupRaises, SupDies, HostDies, Expires, GivesUp, Fails,
      GuardDies, HelperDies, Raised, Orphan, Drop, HostAlive, Nobody
<1>5. CASE Main \/ Kickstart \/ UNCHANGED vars
  BY <1>5 DEF Main, Load, Arrive, End, Kickstart, vars
<1> QED
  BY <1>1, <1>2, <1>3, <1>4, <1>5 DEF Next, User, Progress

\* A supervisor is launched when no host may still take the bus; if one has it,
\* there is no Main, and preflight ends.
LEMMA KeepAlone ==
  ASSUME Kinds, OneSupervisor, NoHostYet, OrphansTold, Alone, OwnerAlone, [Next]_vars
  PROVE  Alone'
<1> USE DEF Kinds, OneSupervisor, NoHostYet, OrphansTold, Alone, OwnerAlone, MayTake,
    Unseen, SupAlive, procs, files, main, helps, past
<1>1. ASSUME NEW l \in Launches, Launch(l) \/ Supervisor(l)
      PROVE  Alone'
  <2>1. CASE Launch(l)
    BY <2>1 DEF Launch, Settled, Steps, SupMoves
  <2>2. CASE Preflight(l)
    <3>1. Cardinality({}) = 0
      BY FS_EmptySet
    <3> QED
      BY <2>2, <3>1 DEF Preflight, Steps, SupMoves, MayStart
  <2>3. CASE Spawn(l)
    BY <2>3 DEF Spawn, SupMoves
  <2>4. CASE Joined(l)
    BY <2>4 DEF Joined, SupMoves, Orphan
  <2>5. CASE Supervisor(l) /\ ~Preflight(l) /\ ~Spawn(l) /\ ~Joined(l)
    BY <2>5 DEF Supervisor, Retest, WriteLease, StartGuard, AwaitGuard, EnterMenu,
        InMenu, StopHelper, StartHelper, Started, LoadCore, Loaded, Own, KillMain,
        Look, Journal, HostEnded, Finally, Steps, SupMoves, Send, Kill
  <2> QED
    BY <1>1, <2>1, <2>2, <2>3, <2>4, <2>5
<1>2. ASSUME NEW l \in Launches, Host(l) \/ HostEnds(l) PROVE Alone'
  BY <1>2 DEF Host, Tie, TakeHostLock, CheckTerm, TakeSpi, HostEnds, HostMoves,
      Drop, Nobody
<1>3. ASSUME NEW l \in Launches, Guard(l) PROVE Alone'
  <2>1. CASE Read(l)
    BY <2>1 DEF Read
  <2>7. CASE Decide(l) \/ GuardStopsHelper(l) \/ LookForMain(l)
    BY <2>7 DEF Decide, GuardStopsHelper, LookForMain, GuardMoves, GuardSteps
  <2>2. CASE TermSup(l) \/ KillSup(l)
    BY <2>2 DEF TermSup, KillSup, GuardMoves, Raised, Orphan
  <2>3. CASE KillHost(l)
    BY <2>3 DEF KillHost, GuardMoves, Drop, HostAlive, Nobody
  <2>4. CASE TakeLock(l)
    BY <2>4 DEF TakeLock, Lockable, GuardMoves, Nobody
  <2>5. CASE StartMain(l) \/ OneMain(l) \/ LoadMenu(l)
    BY <2>5 DEF StartMain, OneMain, LoadMenu, GuardMoves, Send
  <2>6. CASE MenuLoaded(l) \/ TimesOut(l)
    BY <2>6 DEF MenuLoaded, Restored, TimesOut, Fails, GuardMoves, Nobody
  <2> QED
    BY <1>3, <2>1, <2>2, <2>3, <2>4, <2>5, <2>6, <2>7 DEF Guard
<1>4. CASE Mishaps
  BY <1>4 DEF Mishaps, Mishap, SupRaises, SupDies, HostDies, Expires, GivesUp, Fails,
      GuardDies, HelperDies, Raised, Orphan, Drop, HostAlive, Nobody
<1>5. CASE Main \/ Kickstart \/ UNCHANGED vars
  BY <1>5 DEF Main, Load, Arrive, End, Kickstart, vars
<1> QED
  BY <1>1, <1>2, <1>3, <1>4, <1>5 DEF Next, User, Progress

\* Only the supervisor asks for the core of the DS, before it spawns a host, and
\* it goes on when that core's Main is there.
LEMMA KeepPrepared ==
  ASSUME Kinds, OneSupervisor, NoHostYet, OrphansTold, Alone, MainPrepared, [Next]_vars
  PROVE  MainPrepared'
<1> USE DEF Kinds, OneSupervisor, NoHostYet, OrphansTold, Alone, MainPrepared, MayTake,
    NoneComing, Cores, SupAlive, procs, files, main, helps, past
<1>1. ASSUME NEW l \in Launches, Launch(l) \/ Supervisor(l)
      PROVE  MainPrepared'
  BY <1>1 DEF Launch, Settled, Supervisor, Preflight, Retest, WriteLease, StartGuard,
      AwaitGuard, EnterMenu, InMenu, StopHelper, StartHelper, Started, LoadCore,
      Loaded, Own, KillMain, Look, Spawn, Journal, HostEnded, Finally, Joined, Steps,
      SupMoves, MayStart, Send, Kill, NdsLoaded, NoMain, Orphan
<1>2. ASSUME NEW l \in Launches, Host(l) \/ HostEnds(l) PROVE MainPrepared'
  BY <1>2 DEF Host, Tie, TakeHostLock, CheckTerm, TakeSpi, HostEnds, HostMoves,
      Drop, Nobody
<1>3. ASSUME NEW l \in Launches, Guard(l) PROVE MainPrepared'
  <2>1. CASE Read(l) \/ Decide(l) \/ GuardStopsHelper(l) \/ LookForMain(l)
    BY <2>1 DEF Read, Decide, GuardStopsHelper, LookForMain, GuardMoves,
        GuardSteps
  <2>2. CASE TermSup(l) \/ KillSup(l)
    BY <2>2 DEF TermSup, KillSup, GuardMoves, Raised, Orphan
  <2>3. CASE KillHost(l)
    BY <2>3 DEF KillHost, GuardMoves, Drop, HostAlive, Nobody
  <2>4. CASE TakeLock(l)
    BY <2>4 DEF TakeLock, Lockable, GuardMoves, Nobody
  <2>5. CASE StartMain(l) \/ OneMain(l) \/ LoadMenu(l)
    BY <2>5 DEF StartMain, OneMain, LoadMenu, GuardMoves, Send
  <2>6. CASE MenuLoaded(l) \/ TimesOut(l)
    BY <2>6 DEF MenuLoaded, Restored, TimesOut, Fails, GuardMoves, Nobody
  <2> QED
    BY <1>3, <2>1, <2>2, <2>3, <2>4, <2>5, <2>6 DEF Guard
<1>4. CASE Mishaps
  BY <1>4 DEF Mishaps, Mishap, SupRaises, SupDies, HostDies, Expires, GivesUp, Fails,
      GuardDies, HelperDies, Raised, Orphan, Drop, HostAlive, Nobody
<1>5. CASE Main \/ Kickstart \/ UNCHANGED vars
  BY <1>5 DEF Main, Load, Arrive, End, Kickstart, vars
<1> QED
  BY <1>1, <1>2, <1>3, <1>4, <1>5 DEF Next, User, Progress

\* A Main that is back has been started by a guard, which works on it still, or has
\* loaded the menu, or was lost.
LEMMA KeepBack ==
  ASSUME Kinds, OneSupervisor, NoHostYet, OrphansTold, Alone, MainPrepared, NotBack,
         [Next]_vars
  PROVE  NotBack'
<1> USE DEF Kinds, OneSupervisor, NoHostYet, OrphansTold, Alone, MainPrepared, NotBack,
    MayTake, NoneComing, Recovering, Cores, SupAlive, procs, files, main, helps, past
<1>1. ASSUME NEW l \in Launches, Launch(l) \/ Supervisor(l)
      PROVE  NotBack'
  <2>1. CASE Launch(l)
    BY <2>1 DEF Launch, Settled, Steps, SupMoves
  <2>2. CASE Look(l)
    BY <2>2 DEF Look, NoMain, Steps, SupMoves
  <2>3. CASE Spawn(l)
    BY <2>3 DEF Spawn, SupMoves
  <2>4. CASE KillMain(l)
    BY <2>4 DEF KillMain, SupMoves
  <2>5. CASE LoadCore(l) \/ EnterMenu(l)
    BY <2>5 DEF LoadCore, EnterMenu, Send, SupMoves
  <2>6. CASE StartGuard(l)
    BY <2>6 DEF StartGuard
  <2>7. CASE Supervisor(l) /\ ~(Look(l) \/ Spawn(l) \/ KillMain(l) \/ LoadCore(l)
                              \/ EnterMenu(l) \/ StartGuard(l))
    BY <2>7 DEF Supervisor, Preflight, Retest, WriteLease, AwaitGuard, InMenu,
        StopHelper, StartHelper, Started, Loaded, Own, Journal, HostEnded, Finally,
        Joined, Steps, SupMoves
  <2> QED
    BY <1>1, <2>1, <2>2, <2>3, <2>4, <2>5, <2>6, <2>7
<1>2. ASSUME NEW l \in Launches, Host(l) \/ HostEnds(l) PROVE NotBack'
  BY <1>2 DEF Host, Tie, TakeHostLock, CheckTerm, TakeSpi, HostEnds, HostMoves,
      Drop, SeesMain, Nobody
<1>3. ASSUME NEW l \in Launches, Guard(l) PROVE NotBack'
  <2>1. CASE Read(l)
    BY <2>1 DEF Read
  <2>7. CASE Decide(l) \/ GuardStopsHelper(l) \/ LookForMain(l)
    BY <2>7 DEF Decide, GuardStopsHelper, LookForMain, GuardMoves, GuardSteps
  <2>2. CASE TermSup(l) \/ KillSup(l)
    BY <2>2 DEF TermSup, KillSup, GuardMoves, Raised, Orphan
  <2>3. CASE KillHost(l)
    BY <2>3 DEF KillHost, GuardMoves, Drop, HostAlive, Nobody
  <2>4. CASE TakeLock(l)
    BY <2>4 DEF TakeLock, Lockable, GuardMoves, Nobody
  <2>5. CASE StartMain(l) \/ OneMain(l) \/ LoadMenu(l)
    BY <2>5 DEF StartMain, OneMain, LoadMenu, GuardMoves, Send
  <2>6. CASE MenuLoaded(l) \/ TimesOut(l)
    BY <2>6 DEF MenuLoaded, Restored, TimesOut, Fails, GuardMoves, Nobody
  <2> QED
    BY <1>3, <2>1, <2>2, <2>3, <2>4, <2>5, <2>6, <2>7 DEF Guard
<1>4. CASE Mishaps
  BY <1>4 DEF Mishaps, Mishap, SupRaises, SupDies, HostDies, Expires, GivesUp, Fails,
      GuardDies, HelperDies, Raised, Orphan, Drop, HostAlive, Nobody
<1>5. CASE Main \/ Kickstart \/ UNCHANGED vars
  BY <1>5 DEF Main, Load, Arrive, End, Kickstart, vars
<1> QED
  BY <1>1, <1>2, <1>3, <1>4, <1>5 DEF Next, User, Progress

\* The host looks for Main before it takes the bus, and none is under way; one that
\* it cannot see has been left by a lost guard.  From then on Main could only come
\* from a guard, which waits for the lock.
LEMMA KeepOwner ==
  ASSUME Kinds, LockHeld, MainPrepared, NotBack, OwnerAlone, [Next]_vars
  PROVE  OwnerAlone'
<1> USE DEF Kinds, LockHeld, MainPrepared, NotBack, OwnerAlone, MayTake, NoneComing,
    Recovering, Unseen, SupAlive, procs, files, main, helps, past
<1>1. ASSUME NEW l \in Launches, Launch(l) \/ Supervisor(l)
      PROVE  OwnerAlone'
  BY <1>1 DEF Launch, Settled, Supervisor, Preflight, Retest, WriteLease, StartGuard,
      AwaitGuard, EnterMenu, InMenu, StopHelper, StartHelper, Started, LoadCore,
      Loaded, Own, KillMain, Look, Spawn, Journal, HostEnded, Finally, Joined, Steps,
      SupMoves, MayStart, Send, Kill, NdsLoaded, NoMain, Orphan
<1>2. ASSUME NEW l \in Launches, Host(l) \/ HostEnds(l) PROVE OwnerAlone'
  BY <1>2 DEF Host, Tie, TakeHostLock, CheckTerm, TakeSpi, HostEnds, HostMoves,
      Drop, SeesMain, Nobody
<1>3. ASSUME NEW l \in Launches, Guard(l) PROVE OwnerAlone'
  <2>1. CASE Read(l)
    BY <2>1 DEF Read
  <2>7. CASE Decide(l) \/ GuardStopsHelper(l) \/ LookForMain(l)
    BY <2>7 DEF Decide, GuardStopsHelper, LookForMain, GuardMoves, GuardSteps
  <2>2. CASE TermSup(l) \/ KillSup(l)
    BY <2>2 DEF TermSup, KillSup, GuardMoves, Raised, Orphan
  <2>3. CASE KillHost(l)
    BY <2>3 DEF KillHost, GuardMoves, Drop, HostAlive, Nobody
  <2>4. CASE TakeLock(l)
    BY <2>4 DEF TakeLock, Lockable, GuardMoves, Nobody
  <2>5. CASE StartMain(l) \/ OneMain(l) \/ LoadMenu(l)
    BY <2>5 DEF StartMain, OneMain, LoadMenu, GuardMoves, Send
  <2>6. CASE MenuLoaded(l) \/ TimesOut(l)
    BY <2>6 DEF MenuLoaded, Restored, TimesOut, Fails, GuardMoves, Nobody
  <2> QED
    BY <1>3, <2>1, <2>2, <2>3, <2>4, <2>5, <2>6, <2>7 DEF Guard
<1>4. CASE Mishaps
  BY <1>4 DEF Mishaps, Mishap, SupRaises, SupDies, HostDies, Expires, GivesUp, Fails,
      GuardDies, HelperDies, Raised, Orphan, Drop, HostAlive, Nobody
<1>5. CASE Main \/ Kickstart \/ UNCHANGED vars
  BY <1>5 DEF Main, Load, Arrive, End, Kickstart, vars
<1> QED
  BY <1>1, <1>2, <1>3, <1>4, <1>5 DEF Next, User, Progress

\* The lease and what a guard has read of it are leases.
LEMMA KeepLeaseKinds ==
  ASSUME Kinds, LeaseKinds, [Next]_vars
  PROVE  LeaseKinds'
<1> USE DEF LeaseKinds, Kinds, procs, files, main, helps, past
<1>1. ASSUME NEW l \in Launches, WriteLease(l) PROVE LeaseKinds'
  <2>1. l \in Nat
    BY DEF Launches
  <2>2. [NoLease EXCEPT !.sup = l] \in Lease
    BY <2>1 DEF NoLease, Lease
  <2> QED
    BY <1>1, <2>2 DEF WriteLease, Steps, SupMoves
<1>2. ASSUME NEW l \in Launches, Journal(l) \/ Finally(l) PROVE LeaseKinds'
  <2>1. l \in Nat
    BY DEF Launches
  <2>2. /\ [lease EXCEPT !.host = l, !.phase = "running"] \in Lease
        /\ [lease EXCEPT !.done = TRUE] \in Lease
    BY <2>1 DEF Lease
  <2> QED
    BY <1>2, <2>2 DEF Journal, Finally, Steps, SupMoves
<1>3. ASSUME NEW l \in Launches, Read(l) PROVE LeaseKinds'
  BY <1>3 DEF Read
<1>4. ASSUME NEW l \in Launches, Guard(l), ~Read(l) PROVE LeaseKinds'
  BY <1>4 DEF Guard, Decide, TermSup, KillSup, KillHost, TakeLock, GuardStopsHelper,
      LookForMain, StartMain, OneMain, LoadMenu, MenuLoaded, TimesOut, Fails,
      GuardMoves, GuardSteps
<1>5. ASSUME NEW l \in Launches, Launch(l) \/ Supervisor(l),
             ~(WriteLease(l) \/ Journal(l) \/ Finally(l))
      PROVE  LeaseKinds'
  BY <1>5 DEF Launch, Supervisor, Preflight, Retest, StartGuard, AwaitGuard,
      EnterMenu, InMenu, StopHelper, StartHelper, Started, LoadCore, Loaded, Own,
      KillMain, Look, Spawn, HostEnded, Joined, Steps, SupMoves
<1>6. ASSUME NEW l \in Launches, Host(l) \/ HostEnds(l) PROVE LeaseKinds'
  BY <1>6 DEF Host, Tie, TakeHostLock, CheckTerm, TakeSpi, HostEnds, HostMoves,
      Drop
<1>7. CASE Mishaps
  BY <1>7 DEF Mishaps, SupRaises, SupDies, HostDies, Expires, GivesUp, Fails,
      GuardDies, HelperDies
<1>8. CASE Main \/ Kickstart \/ UNCHANGED vars
  BY <1>8 DEF Main, Kickstart, vars
<1> QED
  BY <1>1, <1>2, <1>3, <1>4, <1>5, <1>6, <1>7, <1>8 DEF Next, User, Progress

\* Only a supervisor writes the lease, and there is one.
LEMMA KeepLease ==
  ASSUME Kinds, OneSupervisor, LeaseKinds, LeaseTrue, [Next]_vars
  PROVE  LeaseTrue'
<1> USE DEF Kinds, OneSupervisor, LeaseTrue, SupAlive, procs, files, main, helps, past
<1>1. ASSUME NEW l \in Launches, Launch(l) \/ Supervisor(l)
      PROVE  LeaseTrue'
  <2>1. CASE WriteLease(l)
    BY <2>1 DEF WriteLease, Steps, SupMoves, NoLease, Launches
  <2>2. CASE Journal(l) \/ Finally(l)
    <3>1. lease'.sup = lease.sup /\ (lease'.done => lease.done \/ Finally(l))
      BY <2>2 DEF Journal, Finally, Steps, LeaseKinds, Lease
    <3>2. UNCHANGED seen /\ sup[l] \in {"journal", "finally"}
          /\ sup' = [sup EXCEPT ![l] = IF Finally(l) THEN "join" ELSE "wait"]
      BY <2>2 DEF Journal, Finally, Steps, SupMoves
    <3>3. Finally(l) => sup[l] = "finally"
      BY DEF Finally, Steps, SupMoves
    <3> QED
      BY <2>2, <3>1, <3>2, <3>3
  <2>3. CASE /\ Launch(l) \/ Supervisor(l)
             /\ ~(WriteLease(l) \/ Journal(l) \/ Finally(l))
    BY <2>3 DEF Launch, Supervisor, Preflight, Retest, StartGuard, AwaitGuard,
        EnterMenu, InMenu, StopHelper, StartHelper, Started, LoadCore, Loaded, Own,
        KillMain, Look, Spawn, HostEnded, Joined, Steps, SupMoves
  <2> QED
    BY <1>1, <2>1, <2>2, <2>3
<1>2. ASSUME NEW l \in Launches, Host(l) \/ HostEnds(l) PROVE LeaseTrue'
  BY <1>2 DEF Host, Tie, TakeHostLock, CheckTerm, TakeSpi, HostEnds, HostMoves,
      Drop, Nobody
<1>3. ASSUME NEW l \in Launches, Guard(l) PROVE LeaseTrue'
  <2>1. CASE Read(l)
    BY <2>1 DEF Read
  <2>2. CASE Decide(l)
    BY <2>2 DEF Decide, GuardMoves, GuardSteps, Ended, Lost
  <2>3. CASE GuardStopsHelper(l) \/ LookForMain(l)
    BY <2>3 DEF GuardStopsHelper, LookForMain, GuardMoves, GuardSteps
  <2>4. CASE TermSup(l) \/ KillSup(l)
    BY <2>4 DEF TermSup, KillSup, GuardMoves, Raised, Orphan
  <2>5. CASE KillHost(l)
    BY <2>5 DEF KillHost, GuardMoves, Drop, HostAlive, Nobody
  <2>6. CASE TakeLock(l)
    BY <2>6 DEF TakeLock, Lockable, GuardMoves, Nobody
  <2>7. CASE StartMain(l) \/ OneMain(l) \/ LoadMenu(l)
    BY <2>7 DEF StartMain, OneMain, LoadMenu, GuardMoves, Send
  <2>8. CASE MenuLoaded(l) \/ TimesOut(l)
    BY <2>8 DEF MenuLoaded, Restored, TimesOut, Fails, GuardMoves, Nobody
  <2> QED
    BY <1>3, <2>1, <2>2, <2>3, <2>4, <2>5, <2>6, <2>7, <2>8 DEF Guard
<1>4. CASE Mishaps
  BY <1>4 DEF Mishaps, Mishap, SupRaises, SupDies, HostDies, Expires, GivesUp, Fails,
      GuardDies, HelperDies, Raised, Orphan, Drop, HostAlive, Nobody
<1>5. CASE Main \/ Kickstart \/ UNCHANGED vars
  BY <1>5 DEF Main, Load, Arrive, End, Kickstart, vars
<1> QED
  BY <1>1, <1>2, <1>3, <1>4, <1>5 DEF Next, User, Progress

\* A guard goes on to clean up when its supervisor has died, or is over, or has
\* been told to end.
LEMMA KeepGuard ==
  ASSUME Kinds, NoHostYet, LeaseKinds, LeaseTrue, GuardTrue, [Next]_vars
  PROVE  GuardTrue'
<1> USE DEF Kinds, NoHostYet, LeaseKinds, LeaseTrue, GuardTrue, Over, SupAlive, procs,
    files, main, helps, past
<1>1. ASSUME NEW l \in Launches, Launch(l) \/ Supervisor(l)
      PROVE  GuardTrue'
  BY <1>1 DEF Launch, Settled, Supervisor, Preflight, Retest, WriteLease, StartGuard,
      AwaitGuard, EnterMenu, InMenu, StopHelper, StartHelper, Started, LoadCore,
      Loaded, Own, KillMain, Look, Spawn, Journal, HostEnded, Finally, Joined, Steps,
      SupMoves, MayStart, Send, Kill, NdsLoaded, NoMain, Orphan
<1>2. ASSUME NEW l \in Launches, Host(l) \/ HostEnds(l) PROVE GuardTrue'
  BY <1>2 DEF Host, Tie, TakeHostLock, CheckTerm, TakeSpi, HostEnds, HostMoves,
      Drop, Nobody
<1>3. ASSUME NEW l \in Launches, Guard(l) PROVE GuardTrue'
  <2>1. CASE Read(l)
    BY <2>1 DEF Read
  <2>2. CASE Decide(l)
    BY <2>2 DEF Decide, GuardMoves, GuardSteps, Ended, Lost
  <2>3. CASE GuardStopsHelper(l) \/ LookForMain(l)
    BY <2>3 DEF GuardStopsHelper, LookForMain, GuardMoves, GuardSteps
  <2>4. CASE TermSup(l) \/ KillSup(l)
    BY <2>4 DEF TermSup, KillSup, GuardMoves, Raised, Orphan
  <2>5. CASE KillHost(l)
    BY <2>5 DEF KillHost, GuardMoves, Drop, HostAlive, Nobody
  <2>6. CASE TakeLock(l)
    BY <2>6 DEF TakeLock, Lockable, GuardMoves, Nobody
  <2>7. CASE StartMain(l) \/ OneMain(l) \/ LoadMenu(l)
    BY <2>7 DEF StartMain, OneMain, LoadMenu, GuardMoves, Send
  <2>8. CASE MenuLoaded(l) \/ TimesOut(l)
    BY <2>8 DEF MenuLoaded, Restored, TimesOut, Fails, GuardMoves, Nobody
  <2> QED
    BY <1>3, <2>1, <2>2, <2>3, <2>4, <2>5, <2>6, <2>7, <2>8 DEF Guard
<1>4. CASE Mishaps
  BY <1>4 DEF Mishaps, Mishap, SupRaises, SupDies, HostDies, Expires, GivesUp, Fails,
      GuardDies, HelperDies, Raised, Orphan, Drop, HostAlive, Nobody
<1>5. CASE Main \/ Kickstart \/ UNCHANGED vars
  BY <1>5 DEF Main, Load, Arrive, End, Kickstart, vars
<1> QED
  BY <1>1, <1>2, <1>3, <1>4, <1>5 DEF Next, User, Progress

\* A guard that is done leaves Main in the menu, where no host takes the bus.
LEMMA KeepCovered ==
  ASSUME Kinds, LockHeld, OrphansTold, MainPrepared, GuardTrue, Covered, [Next]_vars
  PROVE  Covered'
<1> USE DEF Kinds, LockHeld, OrphansTold, MainPrepared, GuardTrue, Covered, MayTake,
    NoneComing, Active, Over, Cores, SupAlive, procs, files, main, helps, past
<1>1. ASSUME NEW l \in Launches, Launch(l) \/ Supervisor(l)
      PROVE  Covered'
  BY <1>1 DEF Launch, Settled, Supervisor, Preflight, Retest, WriteLease, StartGuard,
      AwaitGuard, EnterMenu, InMenu, StopHelper, StartHelper, Started, LoadCore,
      Loaded, Own, KillMain, Look, Spawn, Journal, HostEnded, Finally, Joined, Steps,
      SupMoves, MayStart, Send, Kill, NdsLoaded, NoMain, Orphan
<1>2. ASSUME NEW l \in Launches, Host(l) \/ HostEnds(l) PROVE Covered'
  BY <1>2 DEF Host, Tie, TakeHostLock, CheckTerm, TakeSpi, HostEnds, HostMoves,
      Drop, Nobody
<1>3. ASSUME NEW l \in Launches, Guard(l) PROVE Covered'
  <2>1. CASE Read(l)
    BY <2>1 DEF Read
  <2>2. CASE Decide(l)
    BY <2>2 DEF Decide, GuardMoves, GuardSteps, Ended, Lost
  <2>3. CASE GuardStopsHelper(l) \/ LookForMain(l)
    BY <2>3 DEF GuardStopsHelper, LookForMain, GuardMoves, GuardSteps
  <2>4. CASE TermSup(l) \/ KillSup(l)
    BY <2>4 DEF TermSup, KillSup, GuardMoves, Raised, Orphan
  <2>5. CASE KillHost(l)
    BY <2>5 DEF KillHost, GuardMoves, Drop, HostAlive, Nobody
  <2>6. CASE TakeLock(l)
    BY <2>6 DEF TakeLock, Lockable, GuardMoves, Nobody
  <2>7. CASE StartMain(l) \/ OneMain(l) \/ LoadMenu(l)
    BY <2>7 DEF StartMain, OneMain, LoadMenu, GuardMoves, Send
  <2>8. CASE MenuLoaded(l) \/ TimesOut(l)
    BY <2>8 DEF MenuLoaded, Restored, TimesOut, Fails, GuardMoves, Nobody
  <2> QED
    BY <1>3, <2>1, <2>2, <2>3, <2>4, <2>5, <2>6, <2>7, <2>8 DEF Guard
<1>4. CASE Mishaps
  BY <1>4 DEF Mishaps, Mishap, SupRaises, SupDies, HostDies, Expires, GivesUp, Fails,
      GuardDies, HelperDies, Raised, Orphan, Drop, HostAlive, Nobody
<1>5. CASE Main \/ Kickstart \/ UNCHANGED vars
  BY <1>5 DEF Main, Load, Arrive, End, Kickstart, vars
<1> QED
  BY <1>1, <1>2, <1>3, <1>4, <1>5 DEF Next, User, Progress

-----------------------------------------------------------------------------
(* The theorems                                                            *)

\* The invariant behind the results, for every name of Main.
THEOREM BusInvariant == Spec => []BusInv
<1>1. Init => BusInv
  <2> SUFFICES ASSUME Init PROVE BusInv
    OBVIOUS
  <2>1. \A l \in Launches : sup[l] = "none" /\ guard[l] = "none" /\ host[l] = "none"
    BY DEF Init
  <2>2. Kinds
    BY DEF Init, Kinds, SupStates, HostStates, GuardStates, Cores
  <2>3. LockHeld /\ NoHostYet /\ OrphansTold /\ OwnerAlone
    BY <2>1 DEF LockHeld, NoHostYet, OrphansTold, OwnerAlone
  <2>4. OneSupervisor /\ Alone /\ MainPrepared /\ NotBack
    BY <2>1 DEF OneSupervisor, Alone, MainPrepared, NotBack, MayTake, SupAlive
  <2> QED
    BY <2>2, <2>3, <2>4 DEF BusInv
<1>2. BusInv /\ [Next]_vars => BusInv'
  BY KeepProcesses, KeepLock, KeepOrphans, KeepAlone, KeepPrepared, KeepBack,
     KeepOwner
  DEF BusInv
<1> QED
  BY <1>1, <1>2, PTL DEF Spec

\* The host and Main never own the SPI bus at the same time, nor do two hosts,
\* however many launches there are and whatever has been killed, with the one
\* exception that the property states: a guard was lost that may have started a Main
\* of a name that the host does not know.
THEOREM OneOwner == Spec => []NeverTwoOwners
<1>1. BusInv => NeverTwoOwners
  <2> SUFFICES ASSUME BusInv, NEW l \in Launches, host[l] = "owning"
               PROVE  /\ mains = {} \/ Unseen
                      /\ \A k \in Launches \ {l} : host[k] # "owning"
    BY DEF NeverTwoOwners
  <2>1. mains = {} \/ Unseen
    BY DEF BusInv, OwnerAlone
  <2>2. \A k \in Launches : host[k] = "owning" => <<"host", k>> = <<"host", l>>
    BY DEF BusInv, LockHeld
  <2> QED
    BY <2>1, <2>2
<1> QED
  BY <1>1, BusInvariant, PTL

\* A host that has the bus has its guard, unless a guard was killed or gave up.
THEOREM HostIsGuarded == Spec => []HostGuarded
<1>1. Init => GuardInv
  <2> SUFFICES ASSUME Init PROVE GuardInv
    OBVIOUS
  <2>1. LeaseKinds /\ LeaseTrue
    BY DEF Init, LeaseKinds, LeaseTrue, Lease, NoLease, Launches
  <2>2. GuardTrue /\ Covered
    BY DEF Init, GuardTrue, Covered, MayTake
  <2> QED
    BY <2>1, <2>2 DEF GuardInv
<1>2. BusInv /\ GuardInv /\ [Next]_vars => GuardInv'
  BY KeepLeaseKinds, KeepLease, KeepGuard, KeepCovered DEF BusInv, GuardInv
<1>3. GuardInv => HostGuarded
  BY DEF GuardInv, Covered, Active, HostGuarded
<1> QED
  BY <1>1, <1>2, <1>3, BusInvariant, PTL DEF Spec

\* Nothing but a crash takes the helper away from a host that runs: neither a guard
\* that cleans up after a launch nor a supervisor that prepares one, unless it found
\* a Main that the host has not seen.
THEOREM RendererStays == Spec => RendererKept
<1>1. ASSUME BusInv, Next, helper, ~helper'
      PROVE  mishaps' # mishaps \/ Unseen \/ \A l \in Launches : host[l] # "owning"
  <2>1. CASE Mishaps
    BY <1>1, <2>1 DEF Mishaps, Mishap, BusInv, Kinds
  <2>2. ASSUME NEW l \in Launches, StopHelper(l)
        PROVE  Unseen \/ \A k \in Launches : host[k] # "owning"
    BY <1>1, <2>2 DEF StopHelper, SupMoves, BusInv, Alone, NoHostYet
  <2>3. ASSUME NEW l \in Launches, GuardStopsHelper(l)
        PROVE  \A k \in Launches : host[k] # "owning"
    BY <1>1, <2>3 DEF GuardStopsHelper, GuardMoves, BusInv, LockHeld
  <2>4. Main \/ Kickstart => UNCHANGED helper \/ helper'
    BY DEF Main, Kickstart, helps
  <2>5. \A l \in Launches : Host(l) \/ HostEnds(l) \/ Launch(l) => UNCHANGED helper
    BY DEF Host, Tie, TakeHostLock, CheckTerm, TakeSpi, HostEnds, HostMoves, Launch,
           Steps, helps
  <2>6. \A l \in Launches : Supervisor(l) => StopHelper(l) \/ UNCHANGED helper
    BY DEF Supervisor, Preflight, Retest, WriteLease, StartGuard, AwaitGuard,
        EnterMenu, InMenu, StartHelper, Started, LoadCore, Loaded, Own, KillMain,
        Look, Spawn, Journal, HostEnded, Finally, Joined, Steps, helps
  <2>7. \A l \in Launches : Guard(l) => GuardStopsHelper(l) \/ UNCHANGED helper
    BY DEF Guard, Read, Decide, TermSup, KillSup, KillHost, TakeLock, LookForMain,
        StartMain, OneMain, LoadMenu, MenuLoaded, TimesOut, Fails, GuardSteps, helps
  <2> QED
    BY <1>1, <2>1, <2>2, <2>3, <2>4, <2>5, <2>6, <2>7 DEF Next, User, Progress
<1>2. BusInv /\ [Next]_vars =>
        [helper /\ ~helper' =>
           mishaps' # mishaps \/ Unseen \/ \A l \in Launches : host[l] # "owning"]_vars
  BY <1>1
<1> QED
  BY <1>2, BusInvariant, PTL DEF Spec, RendererKept
=============================================================================
