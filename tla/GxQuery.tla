------------------------------- MODULE GxQuery -------------------------------
(***************************************************************************)
(* Reads of the geometry engine's matrices by the console's CPU.  The      *)
(* engine lives on the HPS, so a read posts a fence behind the commands    *)
(* and waits for a reply in shared memory.  The intake follows a shadow of *)
(* the matrices (GxMatrixPrefix) and answers at once if the shadow is      *)
(* settled; else the replay worker answers when it gets there.  The FPGA   *)
(* keeps the last settled reply for more reads until a command is written. *)
(*                                                                         *)
(* Commands and display events reach the HPS in the order of one stream    *)
(* (FramePacket) and the worker in the order of the intake (ReplayQueue).  *)
(* A load stands for any command that changes the matrices; their value is *)
(* the number of loads executed.  A swap holds up the commands behind it   *)
(* until the next VBlank.  Every command takes one unit of time.           *)
(***************************************************************************)
EXTENDS Naturals, Sequences, FiniteSetsExt

CONSTANTS
  MaxRequest,      \* the last request identifier, 2^32 - 1
  StepTime,        \* time the worker grants with a command or a query: 65536
                   \* clocks of the ARM9, 32768 of the geometry engine
  MaxDeferredCost, \* GxMatrixPrefix::MaxDeferredCost
  SwapTime,        \* what a swap leaves to be paid for, 325 geometry clocks
  MaxCommands,     \* bound: commands in all
  MaxVBlanks,      \* bound: VBlanks in all
  MaxSessions      \* bound: sessions; the last does not end

ASSUME QueryAssumption ==
  /\ {MaxRequest, StepTime, MaxDeferredCost, SwapTime} \subseteq Nat
  /\ {MaxCommands, MaxVBlanks, MaxSessions} \subseteq Nat
  /\ MaxDeferredCost + SwapTime <= StepTime /\ StepTime > 0

VARIABLES
  session, active, owner,
  requestSequence, cachedValid, cachedBusy, requestInvalidated,  \* owner of the read
  phase, good, cache, response,                                  \* the reply scanner
  stream,                                                        \* FPGA to HPS
  mailbox,                                                       \* the reply in DDR
  pc, reply,                                                     \* the threads' replies
  prefix, queue, engine, faulted,                                \* of the service
  sent, swaps, vblanks, wanted, lastRead                         \* history

ownerVars   == <<owner, requestSequence, cachedValid, cachedBusy, requestInvalidated>>
scannerVars == <<phase, good, cache, response>>
fpga        == <<session, active, ownerVars, scannerVars, stream>>
service     == <<pc, reply, prefix, queue, engine, faulted>>
history     == <<sent, swaps, vblanks, wanted, lastRead>>
vars        == <<fpga, mailbox, service, history>>

Threads == {"intake", "replay"}
NoReply == [id |-> 0, busy |-> FALSE, matrix |-> 0]

-----------------------------------------------------------------------------
(* A queue of commands in front of the matrices                            *)

\* Executes the first n commands, none but the last of them a swap.
Execute(e, n) ==
  [e EXCEPT
    !.matrix  = @ + Cardinality({i \in 1 .. n : e.pending[i] = "load"}),
    !.pending = SubSeq(@, n + 1, Len(@)),
    !.swapped = @ \/ (n > 0 /\ e.pending[n] = "swap")]

\* The commands up to and with the next swap.
Runnable(e) ==
  IF e.swapped THEN 0
  ELSE Min({Len(e.pending)} \cup {i \in 1 .. Len(e.pending) : e.pending[i] = "swap"})

Push(e, c) == [e EXCEPT !.pending = Append(@, c)]

Busy(e) == e.swapped \/ e.pending # <<>>

VBlankOf(e) == [e EXCEPT !.swapped = FALSE]

-----------------------------------------------------------------------------
(* GxMatrixPrefix: the shadow executes a command at once, but none that    *)
(* the worker's engine might not have time for.                            *)

Drain(p) == Execute(p, Runnable(p))

TooCostly(p) == Len(p.pending) + 1 > MaxDeferredCost

PrefixCommand(p, c) ==
  LET d == Drain(p) IN
  IF ~p.valid THEN p
  ELSE IF ~Busy(d) THEN Drain(Push(d, c))
  ELSE IF TooCostly(d) THEN [d EXCEPT !.valid = FALSE, !.pending = <<>>]
  ELSE Push(d, c)

PrefixAfter(item) ==
  CASE item.kind = "vblank" -> IF prefix.valid THEN VBlankOf(prefix) ELSE prefix
    [] item.kind = "query"  -> IF prefix.valid THEN Drain(prefix) ELSE prefix
    [] OTHER                -> PrefixCommand(prefix, item.kind)

-----------------------------------------------------------------------------
(* GPU3D of the replay worker: owed is the time that what it has executed  *)
(* still takes.  Time that passes while a swap waits is lost.              *)

Least(m, n) == IF m <= n THEN m ELSE n

Run(e, time) ==
  LET n == Least(Runnable(e), IF time < e.owed THEN 0 ELSE time - e.owed + 1)
      d == Execute(e, n) IN
  IF e.swapped THEN e
  ELSE [d EXCEPT !.owed = IF d.swapped THEN SwapTime
                          ELSE IF time >= e.owed + n THEN 0
                          ELSE e.owed + n - time]

\* Seeded fault: a query brings no time of its own.
WithoutTime(e) == Run(e, 0)

Queried(e) == Run(e, StepTime)

EngineAfter(item) ==
  CASE item.kind = "vblank" -> VBlankOf(engine)
    [] item.kind = "query"  -> Queried(engine)
    [] OTHER                -> Run(Push(engine, item.kind), StepTime)

-----------------------------------------------------------------------------
NewPrefix(m) == [matrix |-> m, pending |-> <<>>, swapped |-> FALSE, valid |-> TRUE]
NewEngine(m) == [matrix |-> m, pending |-> <<>>, swapped |-> FALSE, owed |-> 0]

Init ==
  /\ session = 1 /\ active = TRUE
  /\ owner = "IDLE" /\ requestSequence = 0
  /\ cachedValid = FALSE /\ cachedBusy = FALSE /\ requestInvalidated = FALSE
  /\ phase = "IDLE" /\ good = FALSE /\ cache = 0 /\ response = 0
  /\ stream = <<>>
  /\ mailbox = [commit |-> 0, session |-> 0, id |-> 0, busy |-> FALSE, matrix |-> 0]
  /\ pc = [t \in Threads |-> "run"] /\ reply = [t \in Threads |-> NoReply]
  /\ prefix = NewPrefix(0) /\ queue = <<>> /\ engine = NewEngine(0) /\ faulted = FALSE
  /\ sent = 0 /\ swaps = 0 /\ vblanks = 0 /\ wanted = 0 /\ lastRead = 0

-----------------------------------------------------------------------------
(* The console                                                             *)

Post(kind, id) == stream' = Append(stream, [kind |-> kind, id |-> id])

\* Seeded fault: only what is cached is invalidated, not what is on its way.
InvalidateCached == cachedValid' = FALSE /\ UNCHANGED requestInvalidated

Invalidate == cachedValid' = FALSE /\ requestInvalidated' = TRUE

\* A command of the CPU or, while the CPU waits for its read, of a DMA channel.
Write(kind) ==
  /\ active /\ sent + swaps < MaxCommands
  /\ Post(kind, 0)
  /\ Invalidate
  /\ sent' = sent + (IF kind = "load" THEN 1 ELSE 0)
  /\ swaps' = swaps + (IF kind = "swap" THEN 1 ELSE 0)
  /\ UNCHANGED <<session, active, owner, requestSequence, cachedBusy, scannerVars,
                 mailbox, service, vblanks, wanted, lastRead>>

VBlank ==
  /\ active /\ vblanks < MaxVBlanks
  /\ Post("vblank", 0)
  /\ vblanks' = vblanks + 1
  /\ UNCHANGED <<session, active, ownerVars, scannerVars, mailbox, service, sent,
                 swaps, wanted, lastRead>>

OwnerMoves(from, to) ==
  /\ active /\ owner = from /\ owner' = to
  /\ UNCHANGED <<session, active, mailbox, service, sent, swaps, vblanks>>

Kept == cachedValid /\ ~cachedBusy

ReadCached ==
  /\ Kept
  /\ OwnerMoves("IDLE", "CACHE")
  /\ wanted' = sent
  /\ UNCHANGED <<requestSequence, cachedValid, cachedBusy, requestInvalidated,
                 scannerVars, stream, lastRead>>

ReadRequest ==
  /\ ~Kept /\ requestSequence < MaxRequest
  /\ OwnerMoves("IDLE", "ISSUE")
  /\ requestSequence' = requestSequence + 1
  /\ requestInvalidated' = FALSE
  /\ UNCHANGED <<cachedValid, cachedBusy, scannerVars, stream, wanted, lastRead>>

\* No identifier is used twice: the read is never answered.
ReadExhausted ==
  /\ ~Kept /\ requestSequence = MaxRequest
  /\ OwnerMoves("IDLE", "EXHAUSTED")
  /\ UNCHANGED <<requestSequence, cachedValid, cachedBusy, requestInvalidated,
                 scannerVars, stream, wanted, lastRead>>

\* The fence is posted and the scanner takes the request.
Issue ==
  /\ phase = "IDLE"
  /\ OwnerMoves("ISSUE", "WAIT_REPLY")
  /\ Post("query", requestSequence)
  /\ phase' = "POLL_HEADER"
  /\ wanted' = sent
  /\ UNCHANGED <<requestSequence, cachedValid, cachedBusy, requestInvalidated, good,
                 cache, response, lastRead>>

TakeReply ==
  /\ response = requestSequence
  /\ OwnerMoves("WAIT_REPLY", "CACHE")
  /\ cachedValid' = ~requestInvalidated
  /\ response' = 0
  /\ UNCHANGED <<requestSequence, cachedBusy, requestInvalidated, phase, good, cache,
                 stream, wanted, lastRead>>

\* The CPU gets its word.
Complete ==
  /\ OwnerMoves("CACHE", "IDLE")
  /\ lastRead' = cache /\ wanted' = 0
  /\ UNCHANGED <<requestSequence, cachedValid, cachedBusy, requestInvalidated,
                 scannerVars, stream>>

-----------------------------------------------------------------------------
(* The reply scanner: one word of the reply with each read of the DDR      *)

ScannerMoves(from, to) ==
  /\ phase = from /\ phase' = to
  /\ UNCHANGED <<session, active, owner, requestSequence, cachedValid,
                 requestInvalidated, stream, mailbox, service, history>>

PollHeader ==
  /\ ScannerMoves("POLL_HEADER",
                  IF mailbox.session = session THEN "POLL_COMMIT" ELSE "POLL_HEADER")
  /\ UNCHANGED <<good, cachedBusy, cache, response>>

PollCommit ==
  /\ ScannerMoves("POLL_COMMIT",
                  IF mailbox.commit = requestSequence THEN "FILL_HEADER" ELSE "POLL_COMMIT")
  /\ UNCHANGED <<good, cachedBusy, cache, response>>

FillHeader ==
  /\ ScannerMoves("FILL_HEADER", "FILL_STATUS")
  /\ good' = (mailbox.session = session /\ mailbox.id = requestSequence)
  /\ UNCHANGED <<cachedBusy, cache, response>>

FillStatus ==
  /\ ScannerMoves("FILL_STATUS", "FILL_MATRIX")
  /\ cachedBusy' = mailbox.busy
  /\ UNCHANGED <<good, cache, response>>

FillMatrix ==
  /\ ScannerMoves("FILL_MATRIX", "FILL_COMMIT")
  /\ cache' = mailbox.matrix
  /\ UNCHANGED <<good, cachedBusy, response>>

FillCommit ==
  /\ ScannerMoves("FILL_COMMIT", "VERIFY_COMMIT")
  /\ good' = (good /\ mailbox.commit = requestSequence)
  /\ UNCHANGED <<cachedBusy, cache, response>>

VerifyCommit ==
  /\ LET whole == good /\ mailbox.commit = requestSequence IN
     /\ ScannerMoves("VERIFY_COMMIT", IF whole THEN "IDLE" ELSE "POLL_HEADER")
     /\ response' = IF whole THEN requestSequence ELSE 0
  /\ good' = FALSE
  /\ UNCHANGED <<cachedBusy, cache>>

-----------------------------------------------------------------------------
(* The threads of the service                                              *)

ThreadMoves(t, from, to) ==
  /\ pc[t] = from /\ pc' = [pc EXCEPT ![t] = to]
  /\ UNCHANGED <<fpga, history>>

\* A prefix that is still busy leaves the answer to the worker.
Settled(p) == p.valid /\ ~Busy(p)

Entry(item, p, fast) ==
  [kind |-> item.kind, id |-> item.id, sure |-> p.valid /\ item.kind = "query",
   matrix |-> p.matrix, fast |-> fast]

\* poll_replay_input with a record: the shadow takes it; what it can answer is
\* answered before the record is queued.
Take ==
  /\ active /\ stream # <<>> /\ pc["intake"] = "run"
  /\ LET item == Head(stream)
         p    == PrefixAfter(item)
         fast == item.kind = "query" /\ Settled(p) IN
     /\ prefix' = p
     /\ stream' = Tail(stream)
     /\ IF fast
        THEN /\ pc' = [pc EXCEPT !["intake"] = "clear"]
             /\ reply' = [reply EXCEPT !["intake"] =
                            [id |-> item.id, busy |-> FALSE, matrix |-> p.matrix]]
             /\ UNCHANGED queue
        ELSE /\ queue' = Append(queue, Entry(item, p, FALSE))
             /\ UNCHANGED <<pc, reply>>
  /\ UNCHANGED <<session, active, ownerVars, scannerVars, mailbox, engine, faulted,
                 history>>

\* Seeded fault: a shadow that is busy is taken to have answered.
AnswersUnshadowed(entry) == entry.kind = "query" /\ ~entry.sure

WorkerAnswers(entry) == entry.kind = "query" /\ ~entry.fast

Disagrees(entry, e) == entry.sure /\ entry.matrix # e.matrix

\* apply_replay_packet; for a fence publish_gx_readback.
Apply ==
  /\ queue # <<>>
  /\ LET entry   == Head(queue)
         e       == EngineAfter(entry)
         answers == ~Disagrees(entry, e) /\ WorkerAnswers(entry) IN
     /\ engine' = e
     /\ faulted' = (faulted \/ Disagrees(entry, e))
     /\ reply' = [reply EXCEPT !["replay"] =
                    IF answers THEN [id |-> entry.id, busy |-> Busy(e) \/ e.owed > 0,
                                     matrix |-> e.matrix]
                    ELSE NoReply]
     /\ ThreadMoves("replay", "run", IF Disagrees(entry, e) THEN "gone"
                                     ELSE IF answers THEN "clear" ELSE "run")
  /\ queue' = Tail(queue)
  /\ UNCHANGED <<mailbox, prefix>>

\* publish of Hybrid3DGxReadback, with its header in one store.  The session is
\* tested before the first word and before the commit.
Store(t, from, to, words) ==
  /\ ThreadMoves(t, from, to)
  /\ mailbox' = words
  /\ UNCHANGED <<reply, prefix, queue, engine, faulted>>

\* Seeded fault: the commit is the first word.
CommitFirst(t) ==
  active /\ Store(t, "clear", "header", [mailbox EXCEPT !.commit = reply[t].id])

Clear(t) == active /\ Store(t, "clear", "header", [mailbox EXCEPT !.commit = 0])

Payload(t) ==
  \/ Store(t, "header", "status",
           [mailbox EXCEPT !.session = session, !.id = reply[t].id])
  \/ Store(t, "status", "matrix", [mailbox EXCEPT !.busy = reply[t].busy])
  \/ Store(t, "matrix", "commit", [mailbox EXCEPT !.matrix = reply[t].matrix])

\* The intake then queues the fence, for the worker to compare.
Commit(t) ==
  /\ active
  /\ ThreadMoves(t, "commit", "run")
  /\ mailbox' = [mailbox EXCEPT !.commit = reply[t].id]
  /\ reply' = [reply EXCEPT ![t] = NoReply]
  /\ queue' = IF t = "replay" THEN queue
              ELSE Append(queue, Entry([kind |-> "query", id |-> reply[t].id],
                                       prefix, TRUE))
  /\ UNCHANGED <<prefix, engine, faulted>>

\* Nobody looks at the work of a service whose threads have left.
Gone(t) ==
  /\ pc' = [pc EXCEPT ![t] = "gone"]
  /\ reply' = [reply EXCEPT ![t] = NoReply]
  /\ IF t = "intake" THEN prefix' = NewPrefix(0) /\ UNCHANGED <<queue, engine>>
     ELSE queue' = <<>> /\ engine' = NewEngine(0) /\ UNCHANGED prefix
  /\ UNCHANGED <<fpga, mailbox, faulted, history>>

\* Poll, or a reply, sees the end of the session; Poll sees the worker's fault;
\* the worker is stopped between two packets.
Leaves(t) ==
  \/ ~active /\ pc[t] \in {"clear", "commit"}
  \/ t = "intake" /\ pc[t] = "run" /\ (~active \/ faulted)
  \/ t = "replay" /\ pc[t] = "run" /\ pc["intake"] = "gone"

Stop == \E t \in Threads : Leaves(t) /\ Gone(t)

-----------------------------------------------------------------------------
(* Sessions                                                                *)

\* The helper is killed; its session ends when the FPGA misses its heartbeat.
Killed ==
  /\ pc' = [t \in Threads |-> "gone"] /\ reply' = [t \in Threads |-> NoReply]
  /\ prefix' = NewPrefix(0) /\ queue' = <<>> /\ engine' = NewEngine(0)
  /\ UNCHANGED faulted

\* service_ready falls: what waits in the FPGA is dropped.
EndSession ==
  /\ active /\ active' = FALSE /\ session < MaxSessions
  /\ Killed \/ UNCHANGED service
  /\ owner' = "IDLE" /\ cachedValid' = FALSE /\ requestInvalidated' = FALSE
  /\ phase' = "IDLE" /\ response' = 0
  /\ stream' = <<>>
  /\ good' = FALSE /\ cachedBusy' = FALSE /\ cache' = 0
  /\ wanted' = 0 /\ lastRead' = sent
  /\ UNCHANGED <<session, requestSequence, mailbox, sent, swaps, vblanks>>

Invalidated == mailbox' = [mailbox EXCEPT !.commit = 0]

\* Another service is ready for the next session, and the CPUs are released.
\* The identifiers go on after a reset, and start again with another core.
NewSession ==
  /\ ~active /\ session < MaxSessions
  /\ \A t \in Threads : pc[t] = "gone"
  /\ session' = session + 1 /\ active' = TRUE
  /\ requestSequence' \in {requestSequence, 0}
  /\ Invalidated
  /\ pc' = [t \in Threads |-> "run"]
  /\ prefix' = NewPrefix(sent) /\ queue' = <<>> /\ engine' = NewEngine(sent)
  /\ faulted' = FALSE
  /\ UNCHANGED <<owner, cachedValid, cachedBusy, requestInvalidated, scannerVars,
                 stream, reply, history>>

-----------------------------------------------------------------------------
Console == Write("load") \/ Write("swap") \/ VBlank
Owner == ReadCached \/ ReadRequest \/ ReadExhausted \/ Issue \/ TakeReply \/ Complete
Scanner ==
  \/ PollHeader \/ PollCommit \/ FillHeader \/ FillStatus \/ FillMatrix
  \/ FillCommit \/ VerifyCommit
Writer(t) == Clear(t) \/ Payload(t) \/ Commit(t)
Intake == Take \/ Writer("intake")
Replay == Apply \/ Writer("replay")

Next ==
  \/ Console \/ Owner \/ Scanner \/ Intake \/ Replay
  \/ Stop \/ EndSession \/ NewSession

Spec == Init /\ [][Next]_vars

\* The clock of the FPGA runs, and so does a thread of the service that can; the
\* CPU reads when it likes.
FairSpec == Spec /\ WF_vars(Scanner \/ TakeReply) /\ WF_vars(Intake \/ Replay)

-----------------------------------------------------------------------------
(* Properties                                                              *)

\* A read shows the matrices after a number of the commands before it, never
\* fewer than an earlier read; and after all of them if its status does not say
\* that the engine is busy, whether the intake, the worker or the cache answers.
ReadsInOrder ==
  owner = "CACHE" =>
    /\ lastRead <= cache /\ cache <= wanted
    /\ cachedBusy \/ cache = wanted

\* The worker never finds that the shadow has answered with matrices that its
\* engine has not reached (the fault "matrix prefix disagreed").
PrefixAgrees == ~faulted

\* A read that waits is answered, unless its session ends.
ReadsAnswered == owner = "WAIT_REPLY" ~> owner # "WAIT_REPLY"
=============================================================================
