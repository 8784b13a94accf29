---------------------------- MODULE GxQueryProofs ----------------------------
(***************************************************************************)
(* Proofs about GxQuery, for every number of commands, VBlanks, sessions   *)
(* and identifiers and for all times that QueryAssumption allows.          *)
(*                                                                         *)
(* The worker's engine and the intake's shadow are two machines with one   *)
(* stream of records.  Match relates them where they have taken the same   *)
(* records, and MatchStep says that it is kept.  In the system they are    *)
(* apart by what the queue holds, so Chain unrolls the shadow along the    *)
(* queue, from the worker's place to the intake's.  OneReply follows the   *)
(* one read on its way; ReadInv and FloorInv bound its answer.             *)
(***************************************************************************)
EXTENDS GxQuery, FiniteSetTheorems, SequenceTheorems, TLAPS

-----------------------------------------------------------------------------
(* The operators of the model                                              *)

Commands == {"load", "swap"}

\* What a queue of commands, the shadow or the engine, holds.
Shadows == [matrix : Nat, pending : Seq(Commands), swapped : BOOLEAN, valid : BOOLEAN]
Engines == [matrix : Nat, pending : Seq(Commands), swapped : BOOLEAN, owed : Nat]

LoadsIn(s, n) == {i \in 1 .. n : s[i] = "load"}

\* The loads that are still to be executed.
Loads(s) == Cardinality(LoadsIn(s, Len(s)))

Weight(kind) == IF kind = "load" THEN 1 ELSE 0

\* The loads among the first n commands are finitely many.
LEMMA LoadsType ==
  ASSUME NEW s \in Seq(Commands), NEW n \in 0 .. Len(s)
  PROVE  IsFiniteSet(LoadsIn(s, n)) /\ Cardinality(LoadsIn(s, n)) \in Nat
<1>1. IsFiniteSet(1 .. n)
  BY FS_Interval
<1>2. LoadsIn(s, n) \in SUBSET (1 .. n)
  BY DEF LoadsIn
<1>3. IsFiniteSet(LoadsIn(s, n))
  BY <1>1, <1>2, FS_Subset
<1> QED
  BY <1>3, FS_CardinalityType

\* So are all of them.
LEMMA LoadsNat ==
  ASSUME NEW s \in Seq(Commands)
  PROVE  Loads(s) \in Nat
BY LoadsType, LenProperties DEF Loads

\* No commands, no loads.
LEMMA LoadsEmpty == Loads(<<>>) = 0
<1>1. LoadsIn(<<>>, Len(<<>>)) = {}
  BY DEF LoadsIn
<1> QED
  BY <1>1, FS_EmptySet DEF Loads

\* A command at the end adds its own load.
LEMMA LoadsAppend ==
  ASSUME NEW s \in Seq(Commands), NEW c \in Commands
  PROVE  Loads(Append(s, c)) = Loads(s) + Weight(c)
<1> DEFINE t == Append(s, c)
<1>1. Len(t) = Len(s) + 1 /\ Len(s) \in Nat /\ (\A i \in 1 .. Len(s) : t[i] = s[i])
      /\ t[Len(s) + 1] = c
  BY AppendProperties, LenProperties
<1> HIDE DEF t
<1>2. IsFiniteSet(LoadsIn(s, Len(s))) /\ Cardinality(LoadsIn(s, Len(s))) \in Nat
  BY <1>1, LoadsType
<1>3. Len(s) + 1 \notin LoadsIn(s, Len(s))
  BY <1>1 DEF LoadsIn
<1>4. LoadsIn(t, Len(t)) = IF c = "load" THEN LoadsIn(s, Len(s)) \cup {Len(s) + 1}
                           ELSE LoadsIn(s, Len(s))
  <2>1. 1 .. Len(t) = (1 .. Len(s)) \cup {Len(s) + 1}
    BY <1>1
  <2> QED
    BY <1>1, <2>1 DEF LoadsIn
<1>5. Cardinality(LoadsIn(s, Len(s)) \cup {Len(s) + 1})
        = Cardinality(LoadsIn(s, Len(s))) + 1
  BY <1>2, <1>3, FS_AddElement
<1>6. Loads(t) = Loads(s) + Weight(c)
  BY <1>2, <1>4, <1>5 DEF Loads, Weight
<1> QED
  BY <1>6 DEF t

\* The first n commands and those behind them.
LEMMA LoadsSplit ==
  ASSUME NEW s \in Seq(Commands), NEW n \in 0 .. Len(s)
  PROVE  /\ SubSeq(s, n + 1, Len(s)) \in Seq(Commands)
         /\ Len(SubSeq(s, n + 1, Len(s))) = Len(s) - n
         /\ \A i \in 1 .. Len(s) - n : SubSeq(s, n + 1, Len(s))[i] = s[n + i]
         /\ Loads(s) = Cardinality(LoadsIn(s, n)) + Loads(SubSeq(s, n + 1, Len(s)))
<1> DEFINE t == SubSeq(s, n + 1, Len(s))
<1>0. Len(s) \in Nat /\ n \in Nat /\ n <= Len(s)
  BY LenProperties
<1>1. \A i \in n + 1 .. Len(s) : s[i] \in Commands
  BY <1>0, ElementOfSeq
<1>2. /\ t \in Seq(Commands)
      /\ Len(t) = (IF n + 1 <= Len(s) THEN Len(s) - (n + 1) + 1 ELSE 0)
      /\ \A i \in 1 .. Len(s) - (n + 1) + 1 : t[i] = s[(n + 1) + i - 1]
  BY <1>0, <1>1, SubSeqProperties
<1>3. Len(t) = Len(s) - n
  BY <1>0, <1>2
<1>4. \A i \in 1 .. Len(s) - n : t[i] = s[n + i]
  <2> TAKE i \in 1 .. Len(s) - n
  <2>1. i \in 1 .. Len(s) - (n + 1) + 1 /\ (n + 1) + i - 1 = n + i
    BY <1>0
  <2> QED
    BY <1>2, <2>1
<1> HIDE DEF t
<1> DEFINE A == LoadsIn(s, n)
           B == LoadsIn(t, Len(t))
           C == {i \in n + 1 .. Len(s) : s[i] = "load"}
           f == [i \in B |-> i + n]
<1>5. IsFiniteSet(A) /\ IsFiniteSet(B) /\ Cardinality(A) \in Nat /\ Cardinality(B) \in Nat
  <2>1. Len(t) \in 0 .. Len(t)
    BY <1>0, <1>3
  <2> QED
    BY <1>2, <2>1, LoadsType
<1>6. f \in Bijection(B, C)
  <2>1. ASSUME NEW i \in B PROVE i + n \in C
    <3>1. i \in 1 .. Len(s) - n /\ t[i] = "load"
      BY <1>3 DEF LoadsIn
    <3>2. i + n \in n + 1 .. Len(s) /\ n + i = i + n
      BY <3>1, <1>0
    <3> QED
      BY <3>1, <3>2, <1>4
  <2>2. ASSUME NEW j \in C PROVE j - n \in B /\ (j - n) + n = j
    <3>1. j - n \in 1 .. Len(s) - n /\ n + (j - n) = j /\ (j - n) + n = j
      BY <1>0
    <3>2. t[j - n] = "load"
      BY <3>1, <1>4
    <3> QED
      BY <3>1, <3>2, <1>3 DEF LoadsIn
  <2>3. f \in [B -> C]
    BY <2>1
  <2>4. \A i, j \in B : f[i] = f[j] => i = j
    BY <1>0, <1>3 DEF LoadsIn
  <2>5. \A j \in C : \E i \in B : f[i] = j
    BY <2>2
  <2> QED
    BY <2>3, <2>4, <2>5 DEF Bijection, Injection, Surjection, IsInjective
<1>7. IsFiniteSet(C) /\ Cardinality(C) = Cardinality(B)
  BY <1>5, <1>6, FS_Bijection DEF ExistsBijection
<1>8. A \cap C = {}
  BY <1>0 DEF LoadsIn
<1>9. A \cup C = LoadsIn(s, Len(s))
  BY <1>0 DEF LoadsIn
<1>10. Cardinality(A \cup C) = Cardinality(A) + Cardinality(C)
  <2>1. Cardinality(A \cap C) = 0
    BY <1>8, FS_EmptySet
  <2>2. Cardinality(A \cup C) = Cardinality(A) + Cardinality(C) - Cardinality(A \cap C)
    BY <1>5, <1>7, FS_Union
  <2> QED
    BY <2>1, <2>2, <1>5, <1>7
<1>11. Loads(s) = Cardinality(A) + Loads(t)
  BY <1>7, <1>9, <1>10 DEF Loads
<1> QED
  BY <1>2, <1>3, <1>4, <1>11 DEF t

\* Min of the community modules, by its definition.
LEMMA Smallest ==
  ASSUME NEW T \in SUBSET Nat, T # {}
  PROVE  Min(T) \in T /\ \A y \in T : Min(T) <= y
<1>1. PICK x \in T : \A y \in T : ~ (<<y, x>> \in OpToRel(<, Nat))
  BY WFMin, NatLessThanWellFounded
<1>2. \A y \in T : x <= y
  <2> SUFFICES ASSUME NEW y \in T, ~(x <= y) PROVE FALSE
    OBVIOUS
  <2>1. x \in Nat /\ y \in Nat /\ y < x
    OBVIOUS
  <2>2. <<y, x>> \in Nat \X Nat /\ <<y, x>>[1] = y /\ <<y, x>>[2] = x
    BY <2>1
  <2>3. <<y, x>> \in OpToRel(<, Nat)
    BY <2>1, <2>2, Zenon DEF OpToRel
  <2> QED
    BY <1>1, <2>3
<1> QED
  BY <1>2 DEF Min

\* What a queue may execute goes up to its first swap.
LEMMA RunnableFacts ==
  ASSUME NEW e, e.pending \in Seq(Commands), e.swapped = FALSE
  PROVE  /\ Runnable(e) \in 0 .. Len(e.pending)
         /\ \A i \in 1 .. Runnable(e) : e.pending[i] = "swap" => i = Runnable(e)
         /\ \/ Runnable(e) > 0 /\ e.pending[Runnable(e)] = "swap"
            \/ /\ Runnable(e) = Len(e.pending)
               /\ \A i \in 1 .. Len(e.pending) : e.pending[i] # "swap"
<1> DEFINE S == {i \in 1 .. Len(e.pending) : e.pending[i] = "swap"}
           T == {Len(e.pending)} \cup S
<1>1. Len(e.pending) \in Nat
  BY LenProperties
<1>2. T \in SUBSET Nat /\ T # {}
  BY <1>1
<1>3. Runnable(e) = Min(T)
  BY DEF Runnable
<1> HIDE DEF S, T
<1>4. Runnable(e) \in T /\ \A y \in T : Runnable(e) <= y
  BY <1>2, <1>3, Smallest
<1> USE DEF S, T
<1>5. Runnable(e) \in 0 .. Len(e.pending)
  BY <1>1, <1>4
<1>6. ASSUME NEW i \in 1 .. Runnable(e), e.pending[i] = "swap" PROVE i = Runnable(e)
  BY <1>1, <1>4, <1>5, <1>6
<1>7. CASE Runnable(e) \in S
  BY <1>1, <1>5, <1>6, <1>7
<1>8. CASE Runnable(e) \notin S
  <2>1. Runnable(e) = Len(e.pending)
    BY <1>4, <1>8
  <2>2. \A i \in 1 .. Len(e.pending) : e.pending[i] # "swap"
    BY <1>1, <1>4, <1>8, <2>1
  <2> QED
    BY <1>5, <1>6, <2>1, <2>2
<1> QED
  BY <1>7, <1>8

Kinds == Commands \cup {"vblank", "query"}

\* The shadow after a record, and the engine after it.
ShadowBy(p, kind) ==
  CASE kind = "vblank" -> IF p.valid THEN VBlankOf(p) ELSE p
    [] kind = "query"  -> IF p.valid THEN Drain(p) ELSE p
    [] OTHER           -> PrefixCommand(p, kind)

EngineBy(e, kind) ==
  CASE kind = "vblank" -> VBlankOf(e)
    [] kind = "query"  -> Queried(e)
    [] OTHER           -> Run(Push(e, kind), StepTime)

\* What QueryAssumption says of each constant.
LEMMA Constants ==
  /\ MaxDeferredCost \in Nat /\ SwapTime \in Nat /\ StepTime \in Nat
  /\ MaxRequest \in Nat /\ StepTime > 0
  /\ MaxDeferredCost + SwapTime <= StepTime
BY QueryAssumption

\* The shadow executes n commands; what they load leaves the queue.
LEMMA ExecuteShadow ==
  ASSUME NEW p \in Shadows, NEW n \in 0 .. Len(p.pending)
  PROVE  /\ Execute(p, n) \in Shadows
         /\ Execute(p, n).valid = p.valid
         /\ Execute(p, n).matrix = p.matrix + Cardinality(LoadsIn(p.pending, n))
         /\ Execute(p, n).pending = SubSeq(p.pending, n + 1, Len(p.pending))
         /\ Execute(p, n).swapped = (p.swapped \/ (n > 0 /\ p.pending[n] = "swap"))
         /\ Len(Execute(p, n).pending) = Len(p.pending) - n
         /\ Execute(p, n).matrix + Loads(Execute(p, n).pending)
              = p.matrix + Loads(p.pending)
<1>1. p.pending \in Seq(Commands) /\ p.matrix \in Nat /\ p.swapped \in BOOLEAN
  BY DEF Shadows
<1>2. Execute(p, n).matrix = p.matrix + Cardinality(LoadsIn(p.pending, n))
  BY DEF Execute, LoadsIn, Shadows
<1>3. Execute(p, n).pending = SubSeq(p.pending, n + 1, Len(p.pending))
  BY DEF Execute, Shadows
<1>4. Execute(p, n).swapped = (p.swapped \/ (n > 0 /\ p.pending[n] = "swap"))
  BY DEF Execute, Shadows
<1>5. Execute(p, n).valid = p.valid
  BY DEF Execute, Shadows
<1>6. Cardinality(LoadsIn(p.pending, n)) \in Nat
  BY <1>1, LoadsType
<1>7. /\ Execute(p, n).pending \in Seq(Commands)
      /\ Len(Execute(p, n).pending) = Len(p.pending) - n
      /\ Loads(p.pending)
           = Cardinality(LoadsIn(p.pending, n)) + Loads(Execute(p, n).pending)
  BY <1>1, <1>3, LoadsSplit
<1>8. Execute(p, n) \in Shadows
  <2>1. p.matrix + Cardinality({i \in 1 .. n : p.pending[i] = "load"}) \in Nat
    BY <1>1, <1>6 DEF LoadsIn
  <2>2. SubSeq(p.pending, n + 1, Len(p.pending)) \in Seq(Commands)
    BY <1>3, <1>7
  <2>3. (p.swapped \/ (n > 0 /\ p.pending[n] = "swap")) \in BOOLEAN
    OBVIOUS
  <2> QED
    BY <2>1, <2>2, <2>3 DEF Execute, Shadows
<1>9. Loads(Execute(p, n).pending) \in Nat
  BY <1>7, LoadsNat
<1> QED
  BY <1>1, <1>2, <1>3, <1>4, <1>5, <1>6, <1>7, <1>8, <1>9

\* So does the engine, whose debt of time is settled elsewhere.
LEMMA ExecuteEngine ==
  ASSUME NEW e \in Engines, NEW n \in 0 .. Len(e.pending)
  PROVE  /\ Execute(e, n) \in Engines
         /\ Execute(e, n).owed = e.owed
         /\ Execute(e, n).matrix = e.matrix + Cardinality(LoadsIn(e.pending, n))
         /\ Execute(e, n).pending = SubSeq(e.pending, n + 1, Len(e.pending))
         /\ Execute(e, n).swapped = (e.swapped \/ (n > 0 /\ e.pending[n] = "swap"))
         /\ Execute(e, n).matrix >= e.matrix
         /\ Execute(e, n).matrix + Loads(Execute(e, n).pending)
              = e.matrix + Loads(e.pending)
<1>1. e.pending \in Seq(Commands) /\ e.matrix \in Nat /\ e.swapped \in BOOLEAN
  BY DEF Engines
<1>2. Execute(e, n).matrix = e.matrix + Cardinality(LoadsIn(e.pending, n))
  BY DEF Execute, LoadsIn, Engines
<1>3. Execute(e, n).pending = SubSeq(e.pending, n + 1, Len(e.pending))
  BY DEF Execute, Engines
<1>4. Execute(e, n).swapped = (e.swapped \/ (n > 0 /\ e.pending[n] = "swap"))
  BY DEF Execute, Engines
<1>5. Execute(e, n).owed = e.owed
  BY DEF Execute, Engines
<1>6. Cardinality(LoadsIn(e.pending, n)) \in Nat
  BY <1>1, LoadsType
<1>7. /\ Execute(e, n).pending \in Seq(Commands)
      /\ Loads(e.pending)
           = Cardinality(LoadsIn(e.pending, n)) + Loads(Execute(e, n).pending)
  BY <1>1, <1>3, LoadsSplit
<1>8. Execute(e, n) \in Engines
  <2>1. e.matrix + Cardinality({i \in 1 .. n : e.pending[i] = "load"}) \in Nat
    BY <1>1, <1>6 DEF LoadsIn
  <2>2. SubSeq(e.pending, n + 1, Len(e.pending)) \in Seq(Commands)
    BY <1>3, <1>7
  <2>3. (e.swapped \/ (n > 0 /\ e.pending[n] = "swap")) \in BOOLEAN
    OBVIOUS
  <2> QED
    BY <2>1, <2>2, <2>3 DEF Execute, Engines
<1>9. Loads(Execute(e, n).pending) \in Nat
  BY <1>7, LoadsNat
<1> QED
  BY <1>1, <1>2, <1>3, <1>4, <1>5, <1>6, <1>7, <1>8, <1>9

\* Nothing can be executed behind a swap that waits.
LEMMA DrainFacts ==
  ASSUME NEW p \in Shadows
  PROVE  /\ Runnable(p) \in 0 .. Len(p.pending)
         /\ Drain(p) \in Shadows /\ Drain(p).valid = p.valid
         /\ Drain(p).swapped \/ Drain(p).pending = <<>>
         /\ Len(Drain(p).pending) <= Len(p.pending)
         /\ Drain(p).matrix + Loads(Drain(p).pending) = p.matrix + Loads(p.pending)
<1>0. p.pending \in Seq(Commands) /\ Len(p.pending) \in Nat /\ p.swapped \in BOOLEAN
  BY LenProperties DEF Shadows
<1>1. CASE p.swapped
  <2>1. Runnable(p) = 0
    BY <1>1 DEF Runnable
  <2>2. Runnable(p) \in 0 .. Len(p.pending)
    BY <2>1, <1>0
  <2>3. /\ Drain(p) \in Shadows /\ Drain(p).valid = p.valid
        /\ Drain(p).swapped
             = (p.swapped \/ (Runnable(p) > 0 /\ p.pending[Runnable(p)] = "swap"))
        /\ Len(Drain(p).pending) = Len(p.pending) - Runnable(p)
        /\ Drain(p).matrix + Loads(Drain(p).pending) = p.matrix + Loads(p.pending)
    BY <2>2, ExecuteShadow DEF Drain
  <2>4. Drain(p).swapped
    BY <1>1, <2>3
  <2>5. Len(Drain(p).pending) <= Len(p.pending)
    BY <1>0, <2>1, <2>3
  <2> QED
    BY <2>2, <2>3, <2>4, <2>5
<1>2. CASE p.swapped = FALSE
  <2>1. /\ Runnable(p) \in 0 .. Len(p.pending)
        /\ \/ Runnable(p) > 0 /\ p.pending[Runnable(p)] = "swap"
           \/ Runnable(p) = Len(p.pending)
    BY <1>0, <1>2, RunnableFacts
  <2>2. /\ Drain(p) \in Shadows /\ Drain(p).valid = p.valid
        /\ Drain(p).swapped
             = (p.swapped \/ (Runnable(p) > 0 /\ p.pending[Runnable(p)] = "swap"))
        /\ Len(Drain(p).pending) = Len(p.pending) - Runnable(p)
        /\ Drain(p).matrix + Loads(Drain(p).pending) = p.matrix + Loads(p.pending)
    BY <2>1, ExecuteShadow DEF Drain
  <2>3. Runnable(p) = Len(p.pending) => Drain(p).pending = <<>>
    <3>1. Drain(p).pending \in Seq(Commands)
      BY <2>2 DEF Shadows
    <3> QED
      BY <3>1, <2>2, <1>0, EmptySeq
  <2>4. Drain(p).swapped \/ Drain(p).pending = <<>>
    <3>1. CASE Runnable(p) > 0 /\ p.pending[Runnable(p)] = "swap"
      BY <2>2, <3>1
    <3>2. CASE Runnable(p) = Len(p.pending)
      BY <2>3, <3>2
    <3> QED
      BY <2>1, <3>1, <3>2
  <2>5. Len(Drain(p).pending) <= Len(p.pending)
    BY <1>0, <2>1, <2>2
  <2> QED
    BY <2>1, <2>2, <2>4, <2>5
<1> QED
  BY <1>0, <1>1, <1>2

\* A command is queued in front of the shadow.
LEMMA PushShadow ==
  ASSUME NEW p \in Shadows, NEW c \in Commands
  PROVE  /\ Push(p, c) \in Shadows /\ Push(p, c).valid = p.valid
         /\ Push(p, c).matrix = p.matrix /\ Push(p, c).swapped = p.swapped
         /\ Push(p, c).pending = Append(p.pending, c)
         /\ Len(Push(p, c).pending) = Len(p.pending) + 1
         /\ Push(p, c).matrix + Loads(Push(p, c).pending)
              = p.matrix + Loads(p.pending) + Weight(c)
<1>1. p.pending \in Seq(Commands) /\ p.matrix \in Nat
  BY DEF Shadows
<1>2. /\ Append(p.pending, c) \in Seq(Commands)
      /\ Len(Append(p.pending, c)) = Len(p.pending) + 1
  BY <1>1, AppendProperties
<1>3. /\ Loads(Append(p.pending, c)) = Loads(p.pending) + Weight(c)
      /\ Loads(p.pending) \in Nat
  BY <1>1, LoadsAppend, LoadsNat
<1>4. /\ Push(p, c) \in Shadows /\ Push(p, c).valid = p.valid
      /\ Push(p, c).matrix = p.matrix /\ Push(p, c).swapped = p.swapped
      /\ Push(p, c).pending = Append(p.pending, c)
  BY <1>2 DEF Push, Shadows
<1> QED
  BY <1>1, <1>2, <1>3, <1>4 DEF Weight

\* A command is queued in front of the engine.
LEMMA PushEngine ==
  ASSUME NEW e \in Engines, NEW c \in Commands
  PROVE  /\ Push(e, c) \in Engines /\ Push(e, c).owed = e.owed
         /\ Push(e, c).matrix = e.matrix /\ Push(e, c).swapped = e.swapped
         /\ Push(e, c).pending = Append(e.pending, c)
         /\ Push(e, c).matrix + Loads(Push(e, c).pending)
              = e.matrix + Loads(e.pending) + Weight(c)
<1>1. e.pending \in Seq(Commands) /\ e.matrix \in Nat
  BY DEF Engines
<1>2. Append(e.pending, c) \in Seq(Commands)
  BY <1>1, AppendProperties
<1>3. /\ Loads(Append(e.pending, c)) = Loads(e.pending) + Weight(c)
      /\ Loads(e.pending) \in Nat
  BY <1>1, LoadsAppend, LoadsNat
<1>4. /\ Push(e, c) \in Engines /\ Push(e, c).owed = e.owed
      /\ Push(e, c).matrix = e.matrix /\ Push(e, c).swapped = e.swapped
      /\ Push(e, c).pending = Append(e.pending, c)
  BY <1>2 DEF Push, Engines
<1> QED
  BY <1>1, <1>2, <1>3, <1>4 DEF Weight

\* Within the time that it is given, the engine executes what it can.
Budget(e, time) == IF time < e.owed THEN 0 ELSE time - e.owed + 1

\* In whatever time, the engine loses no load and takes none back.
LEMMA RunFacts ==
  ASSUME NEW e \in Engines, NEW time \in Nat
  PROVE  /\ Run(e, time) \in Engines
         /\ Run(e, time).matrix >= e.matrix
         /\ Run(e, time).matrix + Loads(Run(e, time).pending)
              = e.matrix + Loads(e.pending)
<1>0. /\ e.pending \in Seq(Commands) /\ Len(e.pending) \in Nat /\ e.swapped \in BOOLEAN
      /\ e.matrix \in Nat /\ e.owed \in Nat
  BY LenProperties DEF Engines
<1>1. CASE e.swapped
  BY <1>0, <1>1 DEF Run
<1>2. CASE e.swapped = FALSE
  <2> DEFINE n == Least(Runnable(e), Budget(e, time))
             d == Execute(e, n)
             owed == IF d.swapped THEN SwapTime
                     ELSE IF time >= e.owed + n THEN 0
                     ELSE e.owed + n - time
  <2>1. Runnable(e) \in 0 .. Len(e.pending)
    BY <1>0, <1>2, RunnableFacts
  <2>2. n \in 0 .. Len(e.pending)
    BY <2>1, <1>0 DEF Least, Budget
  <2> HIDE DEF n
  <2>3. /\ d \in Engines /\ d.matrix >= e.matrix
        /\ d.matrix + Loads(d.pending) = e.matrix + Loads(e.pending)
    BY <2>2, ExecuteEngine
  <2>4. owed \in Nat
    BY <1>0, <2>2, Constants
  <2>5. Run(e, time) = [d EXCEPT !.owed = owed]
    BY <1>2 DEF Run, Budget, n
  <2> HIDE DEF d, owed
  <2>6. Run(e, time) \in Engines /\ Run(e, time).matrix = d.matrix
        /\ Run(e, time).pending = d.pending
    BY <2>3, <2>4, <2>5 DEF Engines
  <2> QED
    BY <2>3, <2>6
<1> QED
  BY <1>0, <1>1, <1>2

\* A shadow that is valid after a record was before, and has lost no load.
LEMMA ShadowFacts ==
  ASSUME NEW p \in Shadows, NEW kind \in Kinds
  PROVE  /\ ShadowBy(p, kind) \in Shadows
         /\ ShadowBy(p, kind).valid =>
              /\ p.valid
              /\ ShadowBy(p, kind).matrix + Loads(ShadowBy(p, kind).pending)
                   = p.matrix + Loads(p.pending) + Weight(kind)
<1>0. /\ p.pending \in Seq(Commands) /\ p.matrix \in Nat /\ Loads(p.pending) \in Nat
      /\ p.valid \in BOOLEAN
  BY LoadsNat DEF Shadows
<1>1. CASE kind = "vblank"
  <2>1. /\ VBlankOf(p) \in Shadows /\ VBlankOf(p).valid = p.valid
        /\ VBlankOf(p).matrix = p.matrix /\ VBlankOf(p).pending = p.pending
    BY DEF VBlankOf, Shadows
  <2> QED
    BY <1>0, <1>1, <2>1 DEF ShadowBy, Weight
<1>2. CASE kind = "query"
  BY <1>0, <1>2, DrainFacts DEF ShadowBy, Weight
<1>3. CASE kind \in Commands
  <2> DEFINE d == Drain(p)
             r == Push(d, kind)
  <2>1. ShadowBy(p, kind) = PrefixCommand(p, kind)
    BY <1>3 DEF ShadowBy, Commands
  <2>2. d \in Shadows /\ d.valid = p.valid
        /\ d.matrix + Loads(d.pending) = p.matrix + Loads(p.pending)
    BY DrainFacts
  <2>3. r \in Shadows /\ r.valid = p.valid
        /\ r.matrix + Loads(r.pending) = p.matrix + Loads(p.pending) + Weight(kind)
    BY <1>3, <2>2, PushShadow
  <2>4. Drain(r) \in Shadows /\ Drain(r).valid = p.valid
        /\ Drain(r).matrix + Loads(Drain(r).pending)
             = p.matrix + Loads(p.pending) + Weight(kind)
    BY <2>3, DrainFacts
  <2>5. [d EXCEPT !.valid = FALSE, !.pending = <<>>] \in Shadows
        /\ [d EXCEPT !.valid = FALSE, !.pending = <<>>].valid = FALSE
    BY <2>2, EmptySeq DEF Shadows
  <2>6. \/ p.valid = FALSE /\ PrefixCommand(p, kind) = p
        \/ p.valid /\ PrefixCommand(p, kind) = Drain(r)
        \/ PrefixCommand(p, kind) = [d EXCEPT !.valid = FALSE, !.pending = <<>>]
        \/ p.valid /\ PrefixCommand(p, kind) = r
    BY <1>0 DEF PrefixCommand
  <2> HIDE DEF d, r
  <2> QED
    BY <2>1, <2>2, <2>3, <2>4, <2>5, <2>6
<1> QED
  BY <1>1, <1>2, <1>3 DEF Kinds

\* The engine loses no load with a record and takes none back.
LEMMA EngineFacts ==
  ASSUME NEW e \in Engines, NEW kind \in Kinds
  PROVE  /\ EngineBy(e, kind) \in Engines
         /\ EngineBy(e, kind).matrix >= e.matrix
         /\ EngineBy(e, kind).matrix + Loads(EngineBy(e, kind).pending)
              = e.matrix + Loads(e.pending) + Weight(kind)
<1>0. e.pending \in Seq(Commands) /\ e.matrix \in Nat /\ Loads(e.pending) \in Nat
  BY LoadsNat DEF Engines
<1>1. CASE kind = "vblank"
  <2>1. /\ VBlankOf(e) \in Engines
        /\ VBlankOf(e).matrix = e.matrix /\ VBlankOf(e).pending = e.pending
    BY DEF VBlankOf, Engines
  <2> QED
    BY <1>0, <1>1, <2>1 DEF EngineBy, Weight
<1>2. CASE kind = "query"
  <2>1. EngineBy(e, kind) = Run(e, StepTime)
    BY <1>2 DEF EngineBy, Queried
  <2>2. /\ EngineBy(e, kind) \in Engines /\ EngineBy(e, kind).matrix >= e.matrix
        /\ EngineBy(e, kind).matrix + Loads(EngineBy(e, kind).pending)
             = e.matrix + Loads(e.pending)
    BY <2>1, RunFacts, Constants
  <2>3. Weight(kind) = 0
    BY <1>2 DEF Weight
  <2> QED
    BY <1>0, <2>2, <2>3
<1>3. CASE kind \in Commands
  <2>1. EngineBy(e, kind) = Run(Push(e, kind), StepTime)
    BY <1>3 DEF EngineBy, Commands
  <2>2. /\ Push(e, kind) \in Engines /\ Push(e, kind).matrix = e.matrix
        /\ Push(e, kind).matrix + Loads(Push(e, kind).pending)
              = e.matrix + Loads(e.pending) + Weight(kind)
    BY <1>3, PushEngine
  <2> QED
    BY <2>1, <2>2, RunFacts, Constants
<1> QED
  BY <1>1, <1>2, <1>3 DEF Kinds

\* The engine has executed what the shadow has, and has the time for the rest.
Match(e, p) ==
  p.valid =>
    /\ e.matrix = p.matrix /\ e.pending = p.pending /\ e.swapped = p.swapped
    /\ Len(p.pending) <= MaxDeferredCost
    /\ e.owed <= SwapTime \/ (~e.swapped /\ e.pending = <<>> /\ e.owed <= 1)

\* A step is long enough for all that the engine owes and holds.
LEMMA MatchTime ==
  ASSUME NEW e \in Engines, NEW p \in Shadows, p.valid, Match(e, p)
  PROVE  e.owed + Len(e.pending) <= StepTime /\ Len(e.pending) \in Nat
<1>1. Len(e.pending) \in Nat /\ e.owed \in Nat /\ (e.pending = <<>> => Len(e.pending) = 0)
  BY LenProperties, EmptySeq DEF Engines
<1> QED
  BY <1>1, Constants DEF Match

\* The engine runs to the next swap, or through all it has.
LEMMA RunAll ==
  ASSUME NEW e \in Engines, e.swapped = FALSE,
         e.owed + Len(e.pending) <= StepTime + 1
  PROVE  /\ Runnable(e) \in 0 .. Len(e.pending)
         /\ Run(e, StepTime).matrix = Execute(e, Runnable(e)).matrix
         /\ Run(e, StepTime).pending = Execute(e, Runnable(e)).pending
         /\ Run(e, StepTime).swapped = Execute(e, Runnable(e)).swapped
         /\ \/ Run(e, StepTime).swapped /\ Run(e, StepTime).owed = SwapTime
            \/ /\ ~Run(e, StepTime).swapped /\ Run(e, StepTime).pending = <<>>
               /\ Run(e, StepTime).owed <= 1
<1> DEFINE n == Runnable(e)
           d == Execute(e, n)
           owed == IF d.swapped THEN SwapTime
                   ELSE IF StepTime >= e.owed + n THEN 0
                   ELSE e.owed + n - StepTime
<1>0. e.pending \in Seq(Commands) /\ Len(e.pending) \in Nat /\ e.owed \in Nat
  BY LenProperties DEF Engines
<1>1. /\ n \in 0 .. Len(e.pending)
      /\ \/ n > 0 /\ e.pending[n] = "swap"
         \/ n = Len(e.pending) /\ (\A i \in 1 .. Len(e.pending) : e.pending[i] # "swap")
  BY <1>0, RunnableFacts
<1>2. Least(n, Budget(e, StepTime)) = n
  BY <1>0, <1>1, Constants DEF Least, Budget
<1>3. Run(e, StepTime) = [d EXCEPT !.owed = owed]
  BY <1>2 DEF Run, Budget
<1>4. /\ d \in Engines
      /\ d.swapped = (e.swapped \/ (n > 0 /\ e.pending[n] = "swap"))
      /\ d.pending = SubSeq(e.pending, n + 1, Len(e.pending))
  BY <1>1, ExecuteEngine
<1>5. n = Len(e.pending) => d.pending = <<>>
  BY <1>0, <1>4, SubSeqEmpty
<1>6. owed <= 1 \/ d.swapped
  BY <1>0, <1>1, Constants
<1>7. d.swapped => owed = SwapTime
  OBVIOUS
<1>8. d.swapped \/ d.pending = <<>>
  <2>1. CASE n > 0 /\ e.pending[n] = "swap"
    BY <1>4, <2>1
  <2>2. CASE n = Len(e.pending)
    BY <1>5, <2>2
  <2> QED
    BY <1>1, <2>1, <2>2
<1> HIDE DEF d, owed
<1>9. /\ Run(e, StepTime).matrix = d.matrix
      /\ Run(e, StepTime).pending = d.pending
      /\ Run(e, StepTime).swapped = d.swapped
      /\ Run(e, StepTime).owed = owed
  BY <1>3, <1>4 DEF Engines
<1>10. d.swapped \in BOOLEAN
  BY <1>4 DEF Engines
<1>11. \/ Run(e, StepTime).swapped /\ Run(e, StepTime).owed = SwapTime
       \/ /\ ~Run(e, StepTime).swapped /\ Run(e, StepTime).pending = <<>>
          /\ Run(e, StepTime).owed <= 1
  BY <1>6, <1>7, <1>8, <1>9, <1>10
<1> QED
  BY <1>1, <1>9, <1>11 DEF d

\* Equal queues are executed alike.
LEMMA SameExecute ==
  ASSUME NEW e \in Engines, NEW p \in Shadows, NEW n \in 0 .. Len(p.pending),
         e.matrix = p.matrix, e.pending = p.pending, e.swapped = p.swapped
  PROVE  /\ Runnable(e) = Runnable(p)
         /\ Execute(e, n).matrix = Execute(p, n).matrix
         /\ Execute(e, n).pending = Execute(p, n).pending
         /\ Execute(e, n).swapped = Execute(p, n).swapped
<1>1. Runnable(e) = Runnable(p)
  BY DEF Runnable
<1>2. n \in 0 .. Len(e.pending)
  OBVIOUS
<1>3. /\ Execute(p, n).matrix = p.matrix + Cardinality(LoadsIn(p.pending, n))
      /\ Execute(p, n).pending = SubSeq(p.pending, n + 1, Len(p.pending))
      /\ Execute(p, n).swapped = (p.swapped \/ (n > 0 /\ p.pending[n] = "swap"))
  BY ExecuteShadow
<1>4. /\ Execute(e, n).matrix = e.matrix + Cardinality(LoadsIn(e.pending, n))
      /\ Execute(e, n).pending = SubSeq(e.pending, n + 1, Len(e.pending))
      /\ Execute(e, n).swapped = (e.swapped \/ (n > 0 /\ e.pending[n] = "swap"))
  BY <1>2, ExecuteEngine
<1> QED
  BY <1>1, <1>3, <1>4

\* A VBlank releases both.
LEMMA MatchVBlank ==
  ASSUME NEW e \in Engines, NEW p \in Shadows, Match(e, p)
  PROVE  Match(EngineBy(e, "vblank"), ShadowBy(p, "vblank"))
<1>1. CASE p.valid
  <2>1. /\ VBlankOf(p).matrix = p.matrix /\ VBlankOf(p).pending = p.pending
        /\ VBlankOf(p).swapped = FALSE
    BY DEF VBlankOf, Shadows
  <2>2. /\ VBlankOf(e).matrix = e.matrix /\ VBlankOf(e).pending = e.pending
        /\ VBlankOf(e).swapped = FALSE /\ VBlankOf(e).owed = e.owed
    BY DEF VBlankOf, Engines
  <2> QED
    BY <1>1, <2>1, <2>2 DEF Match, EngineBy, ShadowBy
<1>2. CASE ~p.valid
  BY <1>2 DEF Match, ShadowBy
<1> QED
  BY <1>1, <1>2

\* A fence leaves neither with anything to run.
LEMMA MatchQuery ==
  ASSUME NEW e \in Engines, NEW p \in Shadows, Match(e, p)
  PROVE  Match(EngineBy(e, "query"), ShadowBy(p, "query"))
<1>1. CASE ~p.valid
  BY <1>1 DEF Match, ShadowBy
<1>2. CASE p.valid
  <2>0. /\ e.matrix = p.matrix /\ e.pending = p.pending /\ e.swapped = p.swapped
        /\ Len(p.pending) <= MaxDeferredCost
        /\ e.owed + Len(e.pending) <= StepTime /\ Len(e.pending) \in Nat
        /\ e.owed \in Nat
    BY <1>2, MatchTime DEF Match, Engines
  <2>1. EngineBy(e, "query") = Run(e, StepTime) /\ ShadowBy(p, "query") = Drain(p)
    BY <1>2 DEF EngineBy, ShadowBy, Queried
  <2>2. CASE e.swapped
    <3>1. Run(e, StepTime) = e
      BY <2>2 DEF Run
    <3>2. Runnable(p) = 0
      BY <2>0, <2>2 DEF Runnable
    <3>3. /\ Drain(p).matrix = p.matrix + Cardinality(LoadsIn(p.pending, 0))
          /\ Drain(p).pending = SubSeq(p.pending, 1, Len(p.pending))
          /\ Drain(p).swapped
      <4>1. 0 \in 0 .. Len(p.pending) /\ 0 + 1 = 1
        BY <2>0
      <4>2. /\ Execute(p, 0).matrix = p.matrix + Cardinality(LoadsIn(p.pending, 0))
            /\ Execute(p, 0).pending = SubSeq(p.pending, 0 + 1, Len(p.pending))
            /\ Execute(p, 0).swapped = (p.swapped \/ (0 > 0 /\ p.pending[0] = "swap"))
        BY <4>1, ExecuteShadow
      <4> QED
        BY <2>0, <2>2, <3>2, <4>1, <4>2 DEF Drain
    <3>4. LoadsIn(p.pending, 0) = {}
      BY DEF LoadsIn
    <3>5. Drain(p).matrix = p.matrix
      <4>1. Cardinality(LoadsIn(p.pending, 0)) = 0
        BY <3>4, FS_EmptySet
      <4> QED
        BY <3>3, <4>1 DEF Shadows
    <3>6. Drain(p).pending = p.pending
      BY <3>3, SubSeqFull DEF Shadows
    <3> QED
      BY <1>2, <2>0, <2>1, <2>2, <3>1, <3>3, <3>5, <3>6 DEF Match
  <2>3. CASE e.swapped = FALSE
    <3>1. /\ Runnable(e) \in 0 .. Len(e.pending)
          /\ Run(e, StepTime).matrix = Execute(e, Runnable(e)).matrix
          /\ Run(e, StepTime).pending = Execute(e, Runnable(e)).pending
          /\ Run(e, StepTime).swapped = Execute(e, Runnable(e)).swapped
          /\ \/ Run(e, StepTime).swapped /\ Run(e, StepTime).owed = SwapTime
             \/ /\ ~Run(e, StepTime).swapped /\ Run(e, StepTime).pending = <<>>
                /\ Run(e, StepTime).owed <= 1
      <4>1. e.owed + Len(e.pending) <= StepTime + 1
        BY <2>0, Constants
      <4> QED
        BY <2>3, <4>1, RunAll
    <3>2. /\ Drain(p).matrix = Run(e, StepTime).matrix
          /\ Drain(p).pending = Run(e, StepTime).pending
          /\ Drain(p).swapped = Run(e, StepTime).swapped
      BY <2>0, <3>1, SameExecute DEF Drain
    <3>3. Len(Drain(p).pending) <= MaxDeferredCost
      <4>1. Drain(p) \in Shadows /\ Len(Drain(p).pending) <= Len(p.pending)
        BY DrainFacts
      <4>2. Len(Drain(p).pending) \in Nat
        BY <4>1, LenProperties DEF Shadows
      <4> QED
        BY <2>0, <4>1, <4>2, Constants
    <3>4. Run(e, StepTime).owed <= SwapTime
          \/ (~Run(e, StepTime).swapped /\ Run(e, StepTime).pending = <<>>
              /\ Run(e, StepTime).owed <= 1)
      BY <3>1, Constants
    <3> QED
      BY <2>1, <3>2, <3>3, <3>4 DEF Match
  <2> QED
    BY <2>2, <2>3 DEF Engines
<1> QED
  BY <1>1, <1>2 DEF Shadows

\* The loads in front of what is appended, and what is behind them.
LEMMA AppendSplit ==
  ASSUME NEW s \in Seq(Commands), NEW c \in Commands, NEW n \in 0 .. Len(s)
  PROVE  /\ LoadsIn(Append(s, c), n) = LoadsIn(s, n)
         /\ SubSeq(Append(s, c), n + 1, Len(Append(s, c)))
              = Append(SubSeq(s, n + 1, Len(s)), c)
<1> DEFINE t == Append(s, c)
           u == SubSeq(s, n + 1, Len(s))
           v == SubSeq(t, n + 1, Len(t))
<1>1. /\ t \in Seq(Commands) /\ Len(t) = Len(s) + 1 /\ Len(s) \in Nat
      /\ (\A i \in 1 .. Len(s) : t[i] = s[i]) /\ t[Len(s) + 1] = c
  BY AppendProperties, LenProperties
<1> HIDE DEF t
<1>2. LoadsIn(t, n) = LoadsIn(s, n)
  BY <1>1 DEF LoadsIn
<1>3. /\ u \in Seq(Commands) /\ Len(u) = Len(s) - n
      /\ \A i \in 1 .. Len(s) - n : u[i] = s[n + i]
  BY LoadsSplit
<1>4. n \in 0 .. Len(t)
  BY <1>1
<1>5. /\ v \in Seq(Commands) /\ Len(v) = Len(t) - n
      /\ \A i \in 1 .. Len(t) - n : v[i] = t[n + i]
  BY <1>1, <1>4, LoadsSplit
<1> HIDE DEF u, v
<1>6. /\ Append(u, c) \in Seq(Commands) /\ Len(Append(u, c)) = Len(s) - n + 1
      /\ (\A i \in 1 .. Len(s) - n : Append(u, c)[i] = u[i])
      /\ Append(u, c)[Len(s) - n + 1] = c
  BY <1>3, AppendProperties
<1>7. Len(v) = Len(Append(u, c)) /\ Len(v) = Len(s) - n + 1
  BY <1>1, <1>5, <1>6
<1>8. ASSUME NEW i \in 1 .. Len(v) PROVE v[i] = Append(u, c)[i]
  <2>1. i \in 1 .. Len(t) - n /\ n + i \in Int
    BY <1>1, <1>5
  <2>2. v[i] = t[n + i]
    BY <2>1, <1>5
  <2>3. CASE i = Len(s) - n + 1
    <3>1. n + i = Len(s) + 1
      BY <1>1, <2>3
    <3> QED
      BY <1>1, <1>6, <2>2, <2>3, <3>1
  <2>4. CASE i # Len(s) - n + 1
    <3>1. i \in 1 .. Len(s) - n /\ n + i \in 1 .. Len(s)
      BY <1>1, <1>7, <2>4
    <3> QED
      BY <1>1, <1>3, <1>6, <2>2, <3>1
  <2> QED
    BY <2>3, <2>4
<1>9. v = Append(u, c)
  BY <1>5, <1>6, <1>7, <1>8, SeqEqual
<1> QED
  BY <1>2, <1>9 DEF t, u, v

\* A command goes through both, waits in both, or ends the shadow.
LEMMA MatchCommand ==
  ASSUME NEW e \in Engines, NEW p \in Shadows, NEW c \in Commands, Match(e, p)
  PROVE  Match(EngineBy(e, c), ShadowBy(p, c))
<1> DEFINE d == Drain(p)
           r == Push(d, c)
           q == Push(e, c)
           n == Runnable(p)
           s == p.pending
<1>1. CASE ~p.valid
  BY <1>1 DEF Match, ShadowBy, PrefixCommand, Commands
<1>2. CASE p.valid
  <2>0. /\ e.matrix = p.matrix /\ e.pending = s /\ e.swapped = p.swapped
        /\ Len(s) <= MaxDeferredCost
        /\ e.owed <= SwapTime \/ (~e.swapped /\ s = <<>> /\ e.owed <= 1)
        /\ e.owed + Len(s) <= StepTime /\ Len(s) \in Nat
        /\ e.owed \in Nat /\ s \in Seq(Commands) /\ p.matrix \in Nat
        /\ p.swapped \in BOOLEAN
    BY <1>2, MatchTime DEF Match, Engines, Shadows
  <2>1. EngineBy(e, c) = Run(q, StepTime) /\ ShadowBy(p, c) = PrefixCommand(p, c)
    BY DEF EngineBy, ShadowBy, Commands
  <2>2. /\ q \in Engines /\ q.matrix = p.matrix /\ q.swapped = p.swapped
        /\ q.pending = Append(s, c) /\ q.owed = e.owed /\ Len(q.pending) = Len(s) + 1
    <3>1. /\ q \in Engines /\ q.matrix = e.matrix /\ q.swapped = e.swapped
          /\ q.pending = Append(e.pending, c) /\ q.owed = e.owed
      BY PushEngine
    <3>2. Len(Append(s, c)) = Len(s) + 1
      BY <2>0, AppendProperties
    <3> HIDE DEF q
    <3> QED
      BY <2>0, <3>1, <3>2
  <2>3. /\ n \in 0 .. Len(s) /\ d \in Shadows /\ d.valid /\ Len(d.pending) <= Len(s)
    BY <1>2, DrainFacts
  <2>4. /\ d.matrix = p.matrix + Cardinality(LoadsIn(s, n))
        /\ d.pending = SubSeq(s, n + 1, Len(s))
        /\ d.swapped = (p.swapped \/ (n > 0 /\ s[n] = "swap"))
    BY <2>3, ExecuteShadow DEF Drain
  <2>5. /\ r \in Shadows /\ r.valid /\ r.matrix = d.matrix /\ r.swapped = d.swapped
        /\ r.pending = Append(d.pending, c) /\ Len(r.pending) = Len(d.pending) + 1
    BY <2>3, PushShadow
  \* A swap waits: both put the command behind it, or the shadow gives up.
  <2>6. CASE p.swapped
    <3>1. Run(q, StepTime) = q
      BY <2>2, <2>6 DEF Run
    <3>2. n = 0
      BY <2>6 DEF Runnable
    <3>3. d.matrix = p.matrix /\ d.pending = s /\ d.swapped
      <4>1. LoadsIn(s, 0) = {}
        BY DEF LoadsIn
      <4>2. Cardinality(LoadsIn(s, 0)) = 0
        BY <4>1, FS_EmptySet
      <4>3. SubSeq(s, 0 + 1, Len(s)) = s
        BY <2>0, SubSeqFull
      <4>4. d.matrix = p.matrix + Cardinality(LoadsIn(s, 0))
            /\ d.pending = SubSeq(s, 0 + 1, Len(s))
        BY <2>4, <3>2
      <4>5. d.swapped
        BY <2>4, <2>6
      <4> HIDE DEF d
      <4> QED
        BY <2>0, <4>2, <4>3, <4>4, <4>5
    <3>4. \/ ~PrefixCommand(p, c).valid
          \/ PrefixCommand(p, c) = r /\ Len(d.pending) + 1 <= MaxDeferredCost
      <4>1. Busy(d)
        BY <3>3 DEF Busy
      <4>2. [d EXCEPT !.valid = FALSE, !.pending = <<>>].valid = FALSE
        BY <2>3 DEF Shadows
      <4>3. Len(d.pending) \in Nat
        BY <2>0, <3>3
      <4> HIDE DEF d, r
      <4> QED
        BY <1>2, <4>1, <4>2, <4>3, Constants DEF PrefixCommand, TooCostly, d, r
    <3>5. CASE ~PrefixCommand(p, c).valid
      BY <2>1, <3>5 DEF Match
    <3>6. CASE PrefixCommand(p, c) = r /\ Len(d.pending) + 1 <= MaxDeferredCost
      <4>1. q.owed <= SwapTime
        BY <2>0, <2>2, <2>6
      <4> HIDE DEF d, r, q
      <4> QED
        BY <2>1, <2>2, <2>5, <2>6, <3>1, <3>3, <3>6, <4>1 DEF Match
    <3> QED
      BY <3>4, <3>5, <3>6
  <2>7. CASE p.swapped = FALSE
    <3>1. /\ \A i \in 1 .. n : s[i] = "swap" => i = n
          /\ \/ n > 0 /\ s[n] = "swap"
             \/ n = Len(s) /\ \A i \in 1 .. Len(s) : s[i] # "swap"
      BY <2>0, <2>7, RunnableFacts
    <3>2. q.owed + Len(q.pending) <= StepTime + 1 /\ q.swapped = FALSE
      BY <2>0, <2>2, <2>7, Constants
    <3>3. /\ Runnable(q) \in 0 .. Len(q.pending)
          /\ Run(q, StepTime).matrix = Execute(q, Runnable(q)).matrix
          /\ Run(q, StepTime).pending = Execute(q, Runnable(q)).pending
          /\ Run(q, StepTime).swapped = Execute(q, Runnable(q)).swapped
          /\ \/ Run(q, StepTime).swapped /\ Run(q, StepTime).owed = SwapTime
             \/ /\ ~Run(q, StepTime).swapped /\ Run(q, StepTime).pending = <<>>
                /\ Run(q, StepTime).owed <= 1
      BY <2>2, <3>2, RunAll
    <3>4. /\ Execute(q, Runnable(q)).matrix
               = q.matrix + Cardinality(LoadsIn(q.pending, Runnable(q)))
          /\ Execute(q, Runnable(q)).pending
               = SubSeq(q.pending, Runnable(q) + 1, Len(q.pending))
          /\ Execute(q, Runnable(q)).swapped
               = (q.swapped \/ (Runnable(q) > 0 /\ q.pending[Runnable(q)] = "swap"))
      BY <2>2, <3>3, ExecuteEngine
    <3>5. /\ \A i \in 1 .. Runnable(q) : q.pending[i] = "swap" => i = Runnable(q)
          /\ \/ Runnable(q) > 0 /\ q.pending[Runnable(q)] = "swap"
             \/ /\ Runnable(q) = Len(q.pending)
                /\ \A i \in 1 .. Len(q.pending) : q.pending[i] # "swap"
      BY <2>2, <3>2, RunnableFacts DEF Engines
    <3>6. /\ \A i \in 1 .. Len(s) : q.pending[i] = s[i]
          /\ q.pending[Len(s) + 1] = c
      BY <2>0, <2>2, AppendProperties
    <3>7. Run(q, StepTime).owed <= SwapTime
          \/ (~Run(q, StepTime).swapped /\ Run(q, StepTime).pending = <<>>
              /\ Run(q, StepTime).owed <= 1)
      BY <3>3, Constants
    \* A swap is among those in front of the command.
    <3>8. CASE n > 0 /\ s[n] = "swap"
      <4>1. n \in 1 .. Len(s) /\ q.pending[n] = "swap"
        BY <2>3, <2>0, <3>6, <3>8
      <4>2. Runnable(q) = n
        <5>1. Runnable(q) <= n
          BY <4>1, <2>0, <2>2, <3>3, <3>5
        <5>2. Runnable(q) > 0 /\ q.pending[Runnable(q)] = "swap"
          <6>1. n \in 1 .. Len(q.pending)
            BY <4>1, <2>0, <2>2
          <6> HIDE DEF n, q
          <6> QED
            BY <4>1, <3>5, <6>1
        <5>3. Runnable(q) \in 1 .. n /\ Runnable(q) \in 1 .. Len(s)
          BY <5>1, <5>2, <3>3, <4>1, <2>0
        <5> QED
          BY <5>2, <5>3, <3>1, <3>6
      <4>3. /\ LoadsIn(q.pending, n) = LoadsIn(s, n)
            /\ SubSeq(q.pending, n + 1, Len(q.pending)) = Append(d.pending, c)
        <5>1. /\ LoadsIn(Append(s, c), n) = LoadsIn(s, n)
              /\ SubSeq(Append(s, c), n + 1, Len(Append(s, c)))
                   = Append(SubSeq(s, n + 1, Len(s)), c)
          BY <2>0, <2>3, AppendSplit
        <5> HIDE DEF n, q, d
        <5> QED
          BY <2>2, <2>4, <5>1
      <4>4. /\ Run(q, StepTime).matrix = d.matrix
            /\ Run(q, StepTime).pending = Append(d.pending, c)
            /\ Run(q, StepTime).swapped
        BY <2>2, <2>4, <3>3, <3>4, <3>8, <4>1, <4>2, <4>3
      <4>5. d.swapped
        BY <2>4, <3>8
      <4>6. \/ ~PrefixCommand(p, c).valid
            \/ PrefixCommand(p, c) = r /\ Len(d.pending) + 1 <= MaxDeferredCost
        <5>1. Busy(d)
          BY <4>5 DEF Busy
        <5>2. [d EXCEPT !.valid = FALSE, !.pending = <<>>].valid = FALSE
          BY <2>3 DEF Shadows
        <5>3. Len(d.pending) \in Nat
          BY <2>3, LenProperties DEF Shadows
        <5> HIDE DEF d, r
        <5> QED
          BY <1>2, <5>1, <5>2, <5>3, Constants DEF PrefixCommand, TooCostly, d, r
      <4>7. CASE ~PrefixCommand(p, c).valid
        BY <2>1, <4>7 DEF Match
      <4>8. CASE PrefixCommand(p, c) = r /\ Len(d.pending) + 1 <= MaxDeferredCost
        <5> HIDE DEF d, r, q
        <5> QED
          BY <2>1, <2>5, <3>7, <4>4, <4>5, <4>8 DEF Match
      <4> QED
        BY <4>6, <4>7, <4>8
    \* None is: the shadow is not busy and executes the command too.
    <3>9. CASE n = Len(s) /\ \A i \in 1 .. Len(s) : s[i] # "swap"
      <4>1. d.swapped = FALSE /\ d.pending = <<>>
        <5>1. n > 0 => s[n] # "swap"
          BY <2>0, <3>9
        <5>2. SubSeq(s, n + 1, Len(s)) = <<>>
          BY <2>0, <3>9, SubSeqEmpty
        <5> QED
          BY <2>4, <2>7, <5>1, <5>2
      <4>2. PrefixCommand(p, c) = Drain(r)
        BY <1>2, <4>1 DEF PrefixCommand, Busy
      <4>3. Runnable(q) = Len(s) + 1
        <5>1. Runnable(q) \notin 1 .. Len(s)
          BY <3>5, <3>6, <3>9, <2>0, <2>2
        <5>2. Runnable(q) # 0
          BY <3>5, <2>0, <2>2
        <5> QED
          BY <5>1, <5>2, <3>3, <2>0, <2>2
      <4>4. /\ Run(q, StepTime).matrix = p.matrix + Loads(Append(s, c))
            /\ Run(q, StepTime).pending = <<>>
            /\ Run(q, StepTime).swapped = (c = "swap")
        <5>1. LoadsIn(q.pending, Runnable(q)) = LoadsIn(Append(s, c), Len(Append(s, c)))
          BY <2>2, <4>3
        <5>2. SubSeq(q.pending, Runnable(q) + 1, Len(q.pending)) = <<>>
          BY <2>0, <2>2, <4>3, SubSeqEmpty
        <5>3. Runnable(q) > 0 /\ q.pending[Runnable(q)] = c
          BY <2>0, <3>6, <4>3
        <5> QED
          BY <2>2, <2>7, <3>3, <3>4, <5>1, <5>2, <5>3 DEF Loads
      <4>5. Loads(Append(s, c)) = Loads(s) + Weight(c)
        BY <2>0, LoadsAppend
      <4>6. /\ r.pending = <<c>> /\ Len(r.pending) = 1 /\ r.pending[1] = c
            /\ r.swapped = FALSE
        BY <2>5, <4>1
      <4>7. Runnable(r) = 1
        <5>1. r.pending \in Seq(Commands)
          BY <2>5 DEF Shadows
        <5>2. /\ Runnable(r) \in 0 .. Len(r.pending)
              /\ Runnable(r) > 0 \/ Runnable(r) = Len(r.pending)
          BY <4>6, <5>1, RunnableFacts
        <5> QED
          BY <4>6, <5>2
      <4>8. /\ Drain(r).valid = r.valid
            /\ Drain(r).matrix + Loads(Drain(r).pending) = r.matrix + Loads(r.pending)
            /\ Drain(r).pending = SubSeq(r.pending, 2, 1)
            /\ Drain(r).swapped = (r.swapped \/ (1 > 0 /\ r.pending[1] = "swap"))
            /\ Drain(r) \in Shadows
        <5>1. 1 \in 0 .. Len(r.pending) /\ 1 + 1 = 2
          BY <4>6
        <5>2. Drain(r) = Execute(r, 1)
          BY <4>7 DEF Drain
        <5> HIDE DEF r
        <5>3. /\ Execute(r, 1) \in Shadows /\ Execute(r, 1).valid = r.valid
              /\ Execute(r, 1).matrix + Loads(Execute(r, 1).pending)
                   = r.matrix + Loads(r.pending)
              /\ Execute(r, 1).pending = SubSeq(r.pending, 1 + 1, Len(r.pending))
              /\ Execute(r, 1).swapped = (r.swapped \/ (1 > 0 /\ r.pending[1] = "swap"))
          BY <2>5, <5>1, ExecuteShadow
        <5> QED
          BY <4>6, <5>1, <5>2, <5>3
      <4>9. Drain(r).pending = <<>>
        BY <4>8, SubSeqEmpty
      <4>10. Drain(r).swapped = (c = "swap")
        BY <4>6, <4>8
      <4>11. Drain(r).matrix = p.matrix + Loads(Append(s, c))
        <5>1. Loads(r.pending) = Weight(c)
          <6>1. r.pending = Append(<<>>, c) /\ <<>> \in Seq(Commands)
            BY <2>5, <4>1, EmptySeq
          <6>2. Loads(Append(<<>>, c)) = Loads(<<>>) + Weight(c)
            BY <6>1, LoadsAppend
          <6> QED
            BY <6>1, <6>2, LoadsEmpty DEF Weight
        <5>2. r.matrix = p.matrix + Loads(s)
          BY <2>4, <2>5, <3>9 DEF Loads
        <5>3. Loads(s) \in Nat /\ Weight(c) \in Nat
          BY <2>0, LoadsNat DEF Weight
        <5>4. Loads(Drain(r).pending) = 0
          BY <4>9, LoadsEmpty
        <5>5. Drain(r).matrix \in Nat
          BY <4>8 DEF Shadows
        <5> HIDE DEF r
        <5> QED
          BY <2>0, <4>5, <4>8, <5>1, <5>2, <5>3, <5>4, <5>5
      <4>12. Len(<<>>) <= MaxDeferredCost
        BY Constants
      <4> HIDE DEF d, r, q
      <4> QED
        BY <2>1, <3>7, <4>2, <4>4, <4>9, <4>10, <4>11, <4>12 DEF Match
    <3> QED
      BY <3>1, <3>8, <3>9
  <2> QED
    BY <2>0, <2>6, <2>7
<1> QED
  BY <1>1, <1>2 DEF Shadows

\* The engine keeps up with a shadow that is valid, record by record.
LEMMA MatchStep ==
  ASSUME NEW e \in Engines, NEW p \in Shadows, NEW kind \in Kinds, Match(e, p)
  PROVE  Match(EngineBy(e, kind), ShadowBy(p, kind))
BY MatchVBlank, MatchQuery, MatchCommand DEF Kinds

-----------------------------------------------------------------------------
(* The invariant                                                           *)

OwnerStates == {"IDLE", "ISSUE", "WAIT_REPLY", "CACHE", "EXHAUSTED"}

Filling == {"FILL_HEADER", "FILL_STATUS", "FILL_MATRIX", "FILL_COMMIT", "VERIFY_COMMIT"}

Phases == {"IDLE", "POLL_HEADER", "POLL_COMMIT"} \cup Filling

Publishing == {"clear", "header", "status", "matrix", "commit"}

Items     == [kind : Kinds, id : Nat]
Entries   == [kind : Kinds, id : Nat, sure : BOOLEAN, matrix : Nat, fast : BOOLEAN]
Replies   == [id : Nat, busy : BOOLEAN, matrix : Nat]
Mailboxes == [commit : Nat, session : Nat, id : Nat, busy : BOOLEAN, matrix : Nat]

TypeOK ==
  /\ session \in Nat /\ active \in BOOLEAN /\ owner \in OwnerStates
  /\ requestSequence \in Nat
  /\ cachedValid \in BOOLEAN /\ cachedBusy \in BOOLEAN /\ requestInvalidated \in BOOLEAN
  /\ phase \in Phases /\ good \in BOOLEAN /\ cache \in Nat /\ response \in Nat
  /\ stream \in Seq(Items) /\ mailbox \in Mailboxes
  /\ pc \in [Threads -> Publishing \cup {"run", "gone"}]
  /\ reply \in [Threads -> Replies]
  /\ prefix \in Shadows /\ queue \in Seq(Entries) /\ engine \in Engines
  /\ faulted \in BOOLEAN
  /\ sent \in Nat /\ swaps \in Nat /\ vblanks \in Nat
  /\ wanted \in Nat /\ lastRead \in Nat

\* Where a read is on its way to its answer: in the stream, left to the worker, in
\* the hands of a thread, or answered.
Asked(i)  == stream[i].kind = "query"
Left(i)   == queue[i].kind = "query" /\ ~queue[i].fast
Held(t)   == pc[t] \in Publishing
Posted    == owner = "WAIT_REPLY" /\ mailbox.commit = requestSequence

InStream == \E i \in 1 .. Len(stream) : Asked(i)
InQueue  == \E i \in 1 .. Len(queue) : Left(i)
InHand   == \E t \in Threads : Held(t)

\* It is in one of them, and that is the read that the owner waits for.
OneReply ==
  active =>
    /\ InStream \/ InQueue \/ InHand => owner = "WAIT_REPLY" /\ ~Posted
    /\ ~(InStream /\ InQueue) /\ ~(InStream /\ InHand) /\ ~(InQueue /\ InHand)
    /\ \A i, j \in 1 .. Len(stream) : Asked(i) /\ Asked(j) => i = j
    /\ \A i, j \in 1 .. Len(queue) : Left(i) /\ Left(j) => i = j
    /\ \A t, u \in Threads : Held(t) /\ Held(u) => t = u
    /\ \A i \in 1 .. Len(stream) : Asked(i) => stream[i].id = requestSequence
    /\ \A i \in 1 .. Len(queue) : Left(i) => queue[i].id = requestSequence
    /\ \A t \in Threads : Held(t) => reply[t].id = requestSequence
    /\ mailbox.commit <= requestSequence
    /\ owner = "ISSUE" => mailbox.commit < requestSequence
    /\ owner = "WAIT_REPLY" => requestSequence > 0

\* Between the sessions the FPGA is reset, and in a session both threads run.
SessionInv ==
  /\ ~active => /\ owner = "IDLE" /\ phase = "IDLE" /\ response = 0 /\ stream = <<>>
                /\ ~cachedValid /\ cache = 0 /\ lastRead = sent
                /\ wanted = 0
  /\ active => \A t \in Threads : pc[t] # "gone"

\* What the scanner has of a reply is in the mailbox, which is not touched.
ScanInv ==
  /\ phase # "IDLE" => owner = "WAIT_REPLY" /\ response = 0
  /\ phase \in Filling => Posted
  /\ phase \in {"FILL_MATRIX", "FILL_COMMIT", "VERIFY_COMMIT"} =>
       cachedBusy = mailbox.busy
  /\ phase \in {"FILL_COMMIT", "VERIFY_COMMIT"} => cache = mailbox.matrix
  /\ response # 0 => /\ response = requestSequence /\ Posted
                     /\ cachedBusy = mailbox.busy /\ cache = mailbox.matrix

\* What may be answered to the read that the owner waits for.
Right(busy, matrix) == lastRead <= matrix /\ matrix <= wanted /\ (busy \/ matrix = wanted)

\* The worker gets to v before it gets to the record i.
ReachedBefore(v, i) ==
  v <= engine.matrix \/ \E j \in 1 .. i - 1 : queue[j].sure /\ v <= queue[j].matrix

Reached(v) == ReachedBefore(v, Len(queue) + 1)

ReadInv ==
  active =>
    /\ lastRead <= sent /\ wanted <= sent
    /\ owner = "WAIT_REPLY" => lastRead <= wanted /\ (requestInvalidated \/ wanted = sent)
    /\ owner \in {"IDLE", "CACHE"} /\ cachedValid => cachedBusy \/ cache = sent
    /\ owner = "CACHE" => Right(cachedBusy, cache)
    /\ Posted => Right(mailbox.busy, mailbox.matrix)
    /\ \A t \in Threads :
         /\ Held(t) => Right(reply[t].busy, reply[t].matrix)
         /\ pc[t] \in {"matrix", "commit"} => mailbox.busy = reply[t].busy
         /\ pc[t] = "commit" => mailbox.matrix = reply[t].matrix
    /\ Held("replay") => reply["replay"].matrix <= engine.matrix
    /\ Held("intake") => reply["intake"].busy = FALSE

\* No read shows what the worker has not reached when it gets to the next.
FloorInv ==
  active =>
    /\ Reached(lastRead) /\ Reached(cache)
    /\ Posted => Reached(mailbox.matrix)
    /\ \A i \in 1 .. Len(queue) : Left(i) => ReachedBefore(lastRead, i)

\* With T the shadow and D the loads written so far behind each record of the queue,
\* and C the loads behind each record of the stream.
Chain(T, D, C) ==
  /\ T \in [0 .. Len(queue) -> Shadows]
  /\ D \in [0 .. Len(queue) -> Nat]
  /\ C \in [0 .. Len(stream) -> Nat]
  /\ Match(engine, T[0])
  /\ D[0] = engine.matrix + Loads(engine.pending)
  /\ \A i \in 0 .. Len(queue) : T[i].valid => T[i].matrix + Loads(T[i].pending) = D[i]
  /\ \A i \in 1 .. Len(queue) :
       /\ T[i] = ShadowBy(T[i - 1], queue[i].kind)
       /\ D[i] = D[i - 1] + Weight(queue[i].kind)
       /\ queue[i].sure => T[i].valid /\ queue[i].matrix = T[i].matrix
  /\ \A i \in 1 .. Len(stream) : C[i] = C[i - 1] + Weight(stream[i].kind)
  /\ active =>
       /\ C[0] = D[Len(queue)] /\ C[Len(stream)] = sent
       /\ pc["intake"] = "run" => prefix = T[Len(queue)]
       /\ Held("intake") => /\ prefix = ShadowBy(T[Len(queue)], "query") /\ prefix.valid
                            /\ reply["intake"].matrix = prefix.matrix
                            /\ D[Len(queue)] = wanted
       /\ \A i \in 1 .. Len(queue) : Left(i) => D[i] = wanted
       /\ \A i \in 1 .. Len(stream) : Asked(i) => C[i] = wanted

Chained == \E T, D, C : Chain(T, D, C)

\* The first state has its types.
LEMMA TypeInit == Init => TypeOK
<1>1. <<>> \in Seq(Items) /\ <<>> \in Seq(Entries) /\ <<>> \in Seq(Commands)
  BY EmptySeq
<1>2. NewPrefix(0) \in Shadows /\ NewEngine(0) \in Engines
  BY <1>1 DEF NewPrefix, NewEngine, Shadows, Engines
<1>3. ASSUME Init PROVE TypeOK
  <2>1. mailbox \in Mailboxes /\ reply \in [Threads -> Replies]
    BY <1>3 DEF Init, Mailboxes, Replies, NoReply
  <2>2. pc \in [Threads -> Publishing \cup {"run", "gone"}]
    BY <1>3 DEF Init
  <2> QED
    BY <1>1, <1>2, <1>3, <2>1, <2>2 DEF Init, TypeOK, OwnerStates, Phases
<1> QED
  BY <1>3

\* The entry of a record in the queue.
LEMMA EntryType ==
  ASSUME NEW kind \in Kinds, NEW id \in Nat, NEW p \in Shadows, NEW fast \in BOOLEAN
  PROVE  /\ Entry([kind |-> kind, id |-> id], p, fast) \in Entries
         /\ Entry([kind |-> kind, id |-> id], p, fast).kind = kind
         /\ Entry([kind |-> kind, id |-> id], p, fast).id = id
         /\ Entry([kind |-> kind, id |-> id], p, fast).sure = (p.valid /\ kind = "query")
         /\ Entry([kind |-> kind, id |-> id], p, fast).matrix = p.matrix
         /\ Entry([kind |-> kind, id |-> id], p, fast).fast = fast
BY DEF Entry, Entries, Shadows

\* A command, a VBlank or a fence in the stream.
LEMMA PostFacts ==
  ASSUME TypeOK, NEW kind \in Kinds, NEW id \in Nat, Post(kind, id)
  PROVE  /\ stream' \in Seq(Items) /\ Len(stream') = Len(stream) + 1
         /\ Len(stream) \in Nat
         /\ \A i \in 1 .. Len(stream) : stream'[i] = stream[i]
         /\ stream'[Len(stream) + 1].kind = kind /\ stream'[Len(stream) + 1].id = id
<1>1. [kind |-> kind, id |-> id] \in Items
  BY DEF Items
<1> QED
  BY <1>1, AppendProperties, LenProperties DEF Post, TypeOK

\* The head of the stream and what it does to the shadow.
LEMMA TakeFacts ==
  ASSUME TypeOK, Take
  PROVE  /\ active /\ pc["intake"] = "run"
         /\ Len(stream) \in Nat /\ Len(stream) > 0
         /\ stream' \in Seq(Items) /\ Len(stream') = Len(stream) - 1
         /\ \A i \in 1 .. Len(stream') : stream'[i] = stream[i + 1]
         /\ stream[1] \in Items /\ stream[1].kind \in Kinds /\ stream[1].id \in Nat
         /\ prefix' = ShadowBy(prefix, stream[1].kind) /\ prefix' \in Shadows
         /\ \/ /\ stream[1].kind = "query" /\ Settled(prefix')
               /\ pc' = [pc EXCEPT !["intake"] = "clear"]
               /\ reply' = [reply EXCEPT !["intake"] =
                       [id |-> stream[1].id, busy |-> FALSE, matrix |-> prefix'.matrix]]
               /\ queue' = queue
            \/ /\ ~(stream[1].kind = "query" /\ Settled(prefix'))
               /\ queue' = Append(queue, Entry(stream[1], prefix', FALSE))
               /\ pc' = pc /\ reply' = reply
         /\ UNCHANGED <<session, active, ownerVars, scannerVars, mailbox, engine, faulted,
                        history>>
<1>1. active /\ stream # <<>> /\ pc["intake"] = "run"
  BY DEF Take
<1>2. stream \in Seq(Items)
  BY DEF TypeOK
<1>3. /\ Len(stream) \in Nat /\ Len(stream) > 0 /\ Head(stream) = stream[1]
      /\ Tail(stream) \in Seq(Items) /\ Len(Tail(stream)) = Len(stream) - 1
      /\ \A i \in 1 .. Len(Tail(stream)) : Tail(stream)[i] = stream[i + 1]
  BY <1>1, <1>2, HeadTailProperties, EmptySeq, LenProperties
<1>4. stream[1] \in Items /\ stream[1].kind \in Kinds /\ stream[1].id \in Nat
  <2>1. 1 \in 1 .. Len(stream)
    BY <1>3
  <2>2. stream[1] \in Items
    BY <1>2, <2>1, ElementOfSeq
  <2> QED
    BY <2>2 DEF Items
<1>5. PrefixAfter(stream[1]) = ShadowBy(prefix, stream[1].kind)
  BY DEF PrefixAfter, ShadowBy
<1>6. ShadowBy(prefix, stream[1].kind) \in Shadows
  BY <1>4, ShadowFacts DEF TypeOK
<1>7. prefix' = ShadowBy(prefix, stream[1].kind) /\ stream' = Tail(stream)
  BY <1>3, <1>5 DEF Take
<1>8. /\ \/ /\ stream[1].kind = "query" /\ Settled(prefix')
            /\ pc' = [pc EXCEPT !["intake"] = "clear"]
            /\ reply' = [reply EXCEPT !["intake"] =
                       [id |-> stream[1].id, busy |-> FALSE, matrix |-> prefix'.matrix]]
            /\ queue' = queue
         \/ /\ ~(stream[1].kind = "query" /\ Settled(prefix'))
            /\ queue' = Append(queue, Entry(stream[1], prefix', FALSE))
            /\ pc' = pc /\ reply' = reply
      /\ UNCHANGED <<session, active, ownerVars, scannerVars, mailbox, engine, faulted,
                     history>>
  BY <1>3, <1>5, <1>7 DEF Take
<1> QED
  BY <1>1, <1>3, <1>4, <1>6, <1>7, <1>8

\* An entry at the end of the queue.
LEMMA QueueAppend ==
  ASSUME TypeOK, NEW x \in Entries, queue' = Append(queue, x)
  PROVE  /\ queue' \in Seq(Entries) /\ Len(queue') = Len(queue) + 1
         /\ Len(queue) \in Nat
         /\ \A i \in 1 .. Len(queue) : queue'[i] = queue[i]
         /\ queue'[Len(queue) + 1] = x
BY AppendProperties, LenProperties DEF TypeOK

\* The worker and the head of the queue.
LEMMA ApplyFacts ==
  ASSUME TypeOK, Apply
  PROVE  /\ pc["replay"] = "run"
         /\ Len(queue) \in Nat /\ Len(queue) > 0
         /\ queue' \in Seq(Entries) /\ Len(queue') = Len(queue) - 1
         /\ \A i \in 1 .. Len(queue') : queue'[i] = queue[i + 1]
         /\ queue[1] \in Entries
         /\ engine' = EngineBy(engine, queue[1].kind) /\ engine' \in Engines
         /\ faulted' = (faulted \/ Disagrees(queue[1], engine'))
         /\ \/ /\ Disagrees(queue[1], engine')
               /\ pc' = [pc EXCEPT !["replay"] = "gone"]
               /\ reply' = [reply EXCEPT !["replay"] = NoReply]
            \/ /\ ~Disagrees(queue[1], engine') /\ Left(1)
               /\ pc' = [pc EXCEPT !["replay"] = "clear"]
               /\ reply' = [reply EXCEPT !["replay"] =
                    [id |-> queue[1].id, busy |-> Busy(engine') \/ engine'.owed > 0,
                     matrix |-> engine'.matrix]]
            \/ /\ ~Disagrees(queue[1], engine') /\ ~Left(1)
               /\ pc' = [pc EXCEPT !["replay"] = "run"]
               /\ reply' = [reply EXCEPT !["replay"] = NoReply]
         /\ UNCHANGED <<fpga, history, mailbox, prefix>>
<1>1. queue # <<>> /\ pc["replay"] = "run"
  BY DEF Apply, ThreadMoves
<1>2. queue \in Seq(Entries)
  BY DEF TypeOK
<1>3. /\ Len(queue) \in Nat /\ Len(queue) > 0 /\ Head(queue) = queue[1]
      /\ Tail(queue) \in Seq(Entries) /\ Len(Tail(queue)) = Len(queue) - 1
      /\ \A i \in 1 .. Len(Tail(queue)) : Tail(queue)[i] = queue[i + 1]
  BY <1>1, <1>2, HeadTailProperties, EmptySeq, LenProperties
<1>4. queue[1] \in Entries /\ queue[1].kind \in Kinds
  <2>1. 1 \in 1 .. Len(queue)
    BY <1>3
  <2>2. queue[1] \in Entries
    BY <1>2, <2>1, ElementOfSeq
  <2> QED
    BY <2>2 DEF Entries
<1>5. EngineAfter(queue[1]) = EngineBy(engine, queue[1].kind)
  BY DEF EngineAfter, EngineBy
<1>6. EngineBy(engine, queue[1].kind) \in Engines
  BY <1>4, EngineFacts DEF TypeOK
<1>7. engine' = EngineBy(engine, queue[1].kind) /\ queue' = Tail(queue)
  BY <1>3, <1>5 DEF Apply
<1>8. WorkerAnswers(queue[1]) <=> Left(1)
  BY DEF WorkerAnswers, Left
<1>9. /\ faulted' = (faulted \/ Disagrees(queue[1], engine'))
      /\ \/ /\ Disagrees(queue[1], engine')
            /\ pc' = [pc EXCEPT !["replay"] = "gone"]
            /\ reply' = [reply EXCEPT !["replay"] = NoReply]
         \/ /\ ~Disagrees(queue[1], engine') /\ Left(1)
            /\ pc' = [pc EXCEPT !["replay"] = "clear"]
            /\ reply' = [reply EXCEPT !["replay"] =
                    [id |-> queue[1].id, busy |-> Busy(engine') \/ engine'.owed > 0,
                     matrix |-> engine'.matrix]]
         \/ /\ ~Disagrees(queue[1], engine') /\ ~Left(1)
            /\ pc' = [pc EXCEPT !["replay"] = "run"]
            /\ reply' = [reply EXCEPT !["replay"] = NoReply]
      /\ UNCHANGED <<fpga, history, mailbox, prefix>>
  BY <1>3, <1>5, <1>7, <1>8 DEF Apply, ThreadMoves
<1> QED
  BY <1>1, <1>3, <1>4, <1>6, <1>7, <1>9

\* The fence that the intake has answered.
LEMMA CommitFacts ==
  ASSUME TypeOK, NEW t \in Threads, Commit(t)
  PROVE  /\ active /\ pc[t] = "commit" /\ pc' = [pc EXCEPT ![t] = "run"]
         /\ mailbox' \in Mailboxes
         /\ mailbox'.commit = reply[t].id /\ mailbox'.session = mailbox.session
         /\ mailbox'.id = mailbox.id /\ mailbox'.busy = mailbox.busy
         /\ mailbox'.matrix = mailbox.matrix
         /\ reply' = [reply EXCEPT ![t] = NoReply] /\ reply' \in [Threads -> Replies]
         /\ queue' = IF t = "replay" THEN queue
                     ELSE Append(queue, Entry([kind |-> "query", id |-> reply[t].id],
                                              prefix, TRUE))
         /\ Entry([kind |-> "query", id |-> reply[t].id], prefix, TRUE) \in Entries
         /\ UNCHANGED <<fpga, history, prefix, engine, faulted>>
<1>1. reply[t] \in Replies /\ reply[t].id \in Nat
  BY DEF TypeOK, Replies
<1>2. "query" \in Kinds
  BY DEF Kinds
<1>3. Entry([kind |-> "query", id |-> reply[t].id], prefix, TRUE) \in Entries
  BY <1>1, <1>2, EntryType DEF TypeOK
<1>4. mailbox' = [mailbox EXCEPT !.commit = reply[t].id]
  BY DEF Commit
<1>5. /\ mailbox' \in Mailboxes
      /\ mailbox'.commit = reply[t].id /\ mailbox'.session = mailbox.session
      /\ mailbox'.id = mailbox.id /\ mailbox'.busy = mailbox.busy
      /\ mailbox'.matrix = mailbox.matrix
  BY <1>1, <1>4 DEF TypeOK, Mailboxes
<1>6. NoReply \in Replies
  BY DEF NoReply, Replies
<1> QED
  BY <1>3, <1>5, <1>6 DEF Commit, ThreadMoves, TypeOK

\* One word of a reply.
LEMMA WriteFacts ==
  ASSUME TypeOK, NEW t \in Threads, Clear(t) \/ Payload(t)
  PROVE  /\ \/ /\ active /\ pc[t] = "clear" /\ pc' = [pc EXCEPT ![t] = "header"]
               /\ mailbox'.commit = 0
            \/ /\ pc[t] = "header" /\ pc' = [pc EXCEPT ![t] = "status"]
               /\ mailbox'.commit = mailbox.commit
            \/ /\ pc[t] = "status" /\ pc' = [pc EXCEPT ![t] = "matrix"]
               /\ mailbox'.commit = mailbox.commit /\ mailbox'.busy = reply[t].busy
            \/ /\ pc[t] = "matrix" /\ pc' = [pc EXCEPT ![t] = "commit"]
               /\ mailbox'.commit = mailbox.commit /\ mailbox'.busy = mailbox.busy
               /\ mailbox'.matrix = reply[t].matrix
         /\ mailbox' \in Mailboxes /\ Held(t)
         /\ pc' \in [Threads -> Publishing \cup {"run", "gone"}]
         /\ pc'[t] \in Publishing /\ \A u \in Threads \ {t} : pc'[u] = pc[u]
         /\ UNCHANGED <<fpga, history, reply, prefix, queue, engine, faulted>>
<1>1. reply[t] \in Replies /\ mailbox \in Mailboxes
  BY DEF TypeOK
<1>2. /\ [mailbox EXCEPT !.commit = 0] \in Mailboxes
      /\ [mailbox EXCEPT !.commit = 0].commit = 0
  BY <1>1 DEF Mailboxes
<1>3. /\ [mailbox EXCEPT !.session = session, !.id = reply[t].id] \in Mailboxes
      /\ [mailbox EXCEPT !.session = session, !.id = reply[t].id].commit = mailbox.commit
  BY <1>1 DEF Mailboxes, Replies, TypeOK
<1>4. /\ [mailbox EXCEPT !.busy = reply[t].busy] \in Mailboxes
      /\ [mailbox EXCEPT !.busy = reply[t].busy].commit = mailbox.commit
      /\ [mailbox EXCEPT !.busy = reply[t].busy].busy = reply[t].busy
  BY <1>1 DEF Mailboxes, Replies
<1>5. /\ [mailbox EXCEPT !.matrix = reply[t].matrix] \in Mailboxes
      /\ [mailbox EXCEPT !.matrix = reply[t].matrix].commit = mailbox.commit
      /\ [mailbox EXCEPT !.matrix = reply[t].matrix].busy = mailbox.busy
      /\ [mailbox EXCEPT !.matrix = reply[t].matrix].matrix = reply[t].matrix
  BY <1>1 DEF Mailboxes, Replies
<1>6. \/ /\ active /\ pc[t] = "clear" /\ pc' = [pc EXCEPT ![t] = "header"]
         /\ mailbox' = [mailbox EXCEPT !.commit = 0]
      \/ /\ pc[t] = "header" /\ pc' = [pc EXCEPT ![t] = "status"]
         /\ mailbox' = [mailbox EXCEPT !.session = session, !.id = reply[t].id]
      \/ /\ pc[t] = "status" /\ pc' = [pc EXCEPT ![t] = "matrix"]
         /\ mailbox' = [mailbox EXCEPT !.busy = reply[t].busy]
      \/ /\ pc[t] = "matrix" /\ pc' = [pc EXCEPT ![t] = "commit"]
         /\ mailbox' = [mailbox EXCEPT !.matrix = reply[t].matrix]
  BY DEF Clear, Payload, Store, ThreadMoves
<1>7. /\ pc' \in [Threads -> Publishing \cup {"run", "gone"}]
      /\ pc'[t] \in Publishing /\ \A u \in Threads \ {t} : pc'[u] = pc[u]
      /\ pc[t] \in Publishing
  BY <1>6 DEF TypeOK, Publishing
<1>8. UNCHANGED <<fpga, history, reply, prefix, queue, engine, faulted>>
  BY DEF Clear, Payload, Store, ThreadMoves
<1> QED
  BY <1>2, <1>3, <1>4, <1>5, <1>6, <1>7, <1>8 DEF Held

\* A beat of the scanner.
LEMMA ScannerFacts ==
  ASSUME TypeOK, Scanner
  PROVE  /\ \/ /\ phase = "POLL_HEADER" /\ phase' \in {"POLL_HEADER", "POLL_COMMIT"}
               /\ UNCHANGED <<cachedBusy, cache, response>>
            \/ /\ phase = "FILL_HEADER" /\ phase' = "FILL_STATUS"
               /\ UNCHANGED <<cachedBusy, cache, response>>
            \/ /\ phase = "POLL_COMMIT"
               /\ \/ phase' = "POLL_COMMIT"
                  \/ phase' = "FILL_HEADER" /\ mailbox.commit = requestSequence
               /\ UNCHANGED <<cachedBusy, cache, response>>
            \/ /\ phase = "FILL_STATUS" /\ phase' = "FILL_MATRIX"
               /\ cachedBusy' = mailbox.busy /\ UNCHANGED <<cache, response>>
            \/ /\ phase = "FILL_MATRIX" /\ phase' = "FILL_COMMIT"
               /\ cache' = mailbox.matrix /\ UNCHANGED <<cachedBusy, response>>
            \/ /\ phase = "FILL_COMMIT" /\ phase' = "VERIFY_COMMIT"
               /\ UNCHANGED <<cachedBusy, cache, response>>
            \/ /\ phase = "VERIFY_COMMIT"
               /\ \/ phase' = "IDLE" /\ response' = requestSequence
                  \/ phase' = "POLL_HEADER" /\ response' = 0
               /\ UNCHANGED <<cachedBusy, cache>>
         /\ good' \in BOOLEAN
         /\ UNCHANGED <<session, active, owner, requestSequence, cachedValid,
                        requestInvalidated, stream, mailbox, service, history>>
<1>1. CASE PollHeader
  BY <1>1 DEF PollHeader, ScannerMoves, TypeOK
<1>2. CASE PollCommit
  BY <1>2 DEF PollCommit, ScannerMoves, TypeOK
<1>3. CASE FillHeader
  <2>1. good' \in BOOLEAN
    BY <1>3, Zenon DEF FillHeader
  <2> QED
    BY <1>3, <2>1 DEF FillHeader, ScannerMoves
<1>4. CASE FillStatus
  BY <1>4 DEF FillStatus, ScannerMoves, TypeOK
<1>5. CASE FillMatrix
  BY <1>5 DEF FillMatrix, ScannerMoves, TypeOK
<1>6. CASE FillCommit
  <2>1. good' \in BOOLEAN
    BY <1>6, Zenon DEF FillCommit
  <2> QED
    BY <1>6, <2>1 DEF FillCommit, ScannerMoves
<1>7. CASE VerifyCommit
  BY <1>7 DEF VerifyCommit, ScannerMoves
<1> QED
  BY <1>1, <1>2, <1>3, <1>4, <1>5, <1>6, <1>7 DEF Scanner

\* Each action keeps them.
LEMMA TypeStep == TypeOK /\ [Next]_vars => TypeOK'
<1> SUFFICES ASSUME TypeOK, [Next]_vars PROVE TypeOK'
  OBVIOUS
<1> USE DEF fpga, service, history, ownerVars, scannerVars
<1>1. ASSUME NEW kind \in Commands, Write(kind) PROVE TypeOK'
  <2>1. stream' \in Seq(Items)
    BY <1>1, PostFacts DEF Write, Kinds
  <2>2. sent' \in Nat /\ swaps' \in Nat
    BY <1>1 DEF Write, TypeOK
  <2> QED
    BY <1>1, <2>1, <2>2 DEF Write, Invalidate, TypeOK
<1>2. CASE VBlank
  <2>1. stream' \in Seq(Items)
    BY <1>2, PostFacts DEF VBlank, Kinds
  <2>2. vblanks' \in Nat
    BY <1>2 DEF VBlank, TypeOK
  <2> QED
    BY <1>2, <2>1, <2>2 DEF VBlank, TypeOK
<1>3. CASE ReadCached
  BY <1>3 DEF ReadCached, OwnerMoves, TypeOK, OwnerStates
<1>4. CASE ReadRequest
  <2>1. requestSequence' \in Nat
    BY <1>4 DEF ReadRequest, TypeOK
  <2> QED
    BY <1>4, <2>1 DEF ReadRequest, OwnerMoves, TypeOK, OwnerStates
<1>5. CASE ReadExhausted
  BY <1>5 DEF ReadExhausted, OwnerMoves, TypeOK, OwnerStates
<1>6. CASE Issue
  <2>1. stream' \in Seq(Items)
    <3>1. requestSequence \in Nat /\ "query" \in Kinds
      BY DEF TypeOK, Kinds
    <3> QED
      BY <1>6, <3>1, PostFacts DEF Issue
  <2> QED
    BY <1>6, <2>1 DEF Issue, OwnerMoves, TypeOK, OwnerStates, Phases
<1>7. CASE TakeReply
  BY <1>7 DEF TakeReply, OwnerMoves, TypeOK, OwnerStates
<1>8. CASE Complete
  BY <1>8 DEF Complete, OwnerMoves, TypeOK, OwnerStates
<1>9. CASE Scanner
  <2>1. mailbox.busy \in BOOLEAN /\ mailbox.matrix \in Nat
    BY DEF TypeOK, Mailboxes
  <2>2. phase' \in Phases
    BY <1>9, ScannerFacts DEF Phases, Filling
  <2>3. cachedBusy' \in BOOLEAN /\ cache' \in Nat /\ response' \in Nat
    <3>1. /\ cachedBusy' = cachedBusy \/ cachedBusy' = mailbox.busy
          /\ cache' = cache \/ cache' = mailbox.matrix
          /\ response' = response \/ response' = requestSequence \/ response' = 0
      BY <1>9, ScannerFacts
    <3> QED
      BY <2>1, <3>1 DEF TypeOK
  <2> QED
    BY <1>9, <2>2, <2>3, ScannerFacts DEF TypeOK
<1>10. CASE Take
  <2>1. /\ stream' \in Seq(Items) /\ prefix' \in Shadows
        /\ stream[1] = [kind |-> stream[1].kind, id |-> stream[1].id]
        /\ stream[1].kind \in Kinds /\ stream[1].id \in Nat
        /\ UNCHANGED <<session, active, ownerVars, scannerVars, mailbox, engine, faulted,
                        history>>
    BY <1>10, TakeFacts DEF Items
  <2>2. Entry(stream[1], prefix', FALSE) \in Entries
    BY <2>1, EntryType
  <2>3. queue' \in Seq(Entries)
    BY <1>10, <2>2, TakeFacts, QueueAppend DEF TypeOK
  <2>4. pc' \in [Threads -> Publishing \cup {"run", "gone"}]
    BY <1>10, TakeFacts DEF TypeOK, Publishing, Threads
  <2>5. reply' \in [Threads -> Replies]
    <3>1. [id |-> stream[1].id, busy |-> FALSE, matrix |-> prefix'.matrix] \in Replies
      BY <2>1 DEF Replies, Shadows
    <3> QED
      BY <1>10, <3>1, TakeFacts DEF TypeOK
  <2> QED
    BY <2>1, <2>3, <2>4, <2>5 DEF TypeOK
<1>11. ASSUME NEW t \in Threads, Clear(t) \/ Payload(t) PROVE TypeOK'
  BY <1>11, WriteFacts DEF TypeOK
<1>12. ASSUME NEW t \in Threads, Commit(t) PROVE TypeOK'
  <2>1. queue' \in Seq(Entries)
    BY <1>12, CommitFacts, QueueAppend DEF TypeOK
  <2>2. pc' \in [Threads -> Publishing \cup {"run", "gone"}]
    BY <1>12, CommitFacts DEF TypeOK
  <2> QED
    BY <1>12, <2>1, <2>2, CommitFacts DEF TypeOK
<1>13. CASE Apply
  <2>1. pc' \in [Threads -> Publishing \cup {"run", "gone"}]
    BY <1>13, ApplyFacts DEF TypeOK, Publishing
  <2>2. reply' \in [Threads -> Replies]
    <3>1. NoReply \in Replies
      BY DEF NoReply, Replies
    <3>2. [id |-> queue[1].id, busy |-> Busy(engine') \/ engine'.owed > 0,
           matrix |-> engine'.matrix] \in Replies
      BY <1>13, ApplyFacts DEF Replies, Entries, Engines
    <3> QED
      BY <1>13, <3>1, <3>2, ApplyFacts DEF TypeOK
  <2>3. faulted' \in BOOLEAN
    BY <1>13, ApplyFacts
  <2> QED
    BY <1>13, <2>1, <2>2, <2>3, ApplyFacts DEF TypeOK
<1>14. <<>> \in Seq(Entries) /\ <<>> \in Seq(Items) /\ <<>> \in Seq(Commands)
  BY EmptySeq
<1>15. \A m \in Nat : NewPrefix(m) \in Shadows /\ NewEngine(m) \in Engines
  BY <1>14 DEF NewPrefix, NewEngine, Shadows, Engines
<1>16. NoReply \in Replies
  BY DEF NoReply, Replies
<1>17. CASE Stop
  <2>1. PICK t \in Threads : Gone(t)
    BY <1>17 DEF Stop
  <2>2. /\ pc' \in [Threads -> Publishing \cup {"run", "gone"}]
        /\ reply' \in [Threads -> Replies]
        /\ prefix' \in Shadows /\ queue' \in Seq(Entries) /\ engine' \in Engines
    BY <2>1, <1>14, <1>15, <1>16 DEF Gone, TypeOK
  <2> QED
    BY <2>1, <2>2 DEF Gone, TypeOK
<1>18. CASE EndSession
  <2>1. /\ pc' \in [Threads -> Publishing \cup {"run", "gone"}]
        /\ reply' \in [Threads -> Replies]
        /\ prefix' \in Shadows /\ queue' \in Seq(Entries) /\ engine' \in Engines
        /\ faulted' \in BOOLEAN
    BY <1>18, <1>14, <1>15, <1>16 DEF EndSession, Killed, TypeOK
  <2> QED
    BY <1>18, <2>1, <1>14 DEF EndSession, TypeOK, OwnerStates, Phases
<1>19. CASE NewSession
  <2>1. mailbox' \in Mailboxes
    BY <1>19 DEF NewSession, Invalidated, TypeOK, Mailboxes
  <2>2. session' \in Nat /\ requestSequence' \in Nat
    BY <1>19 DEF NewSession, TypeOK
  <2>3. pc' \in [Threads -> Publishing \cup {"run", "gone"}]
    BY <1>19 DEF NewSession
  <2>4. prefix' \in Shadows /\ queue' \in Seq(Entries) /\ engine' \in Engines
    BY <1>19, <1>14, <1>15 DEF NewSession, TypeOK
  <2> QED
    BY <1>19, <2>1, <2>2, <2>3, <2>4 DEF NewSession, TypeOK
<1>20. CASE UNCHANGED vars
  BY <1>20 DEF vars, TypeOK
<1> QED
  BY <1>1, <1>2, <1>3, <1>4, <1>5, <1>6, <1>7, <1>8, <1>9, <1>10, <1>11, <1>12, <1>13,
     <1>17, <1>18, <1>19, <1>20
  DEF Next, Console, Owner, Intake, Replay, Writer, Commands, Threads

-----------------------------------------------------------------------------
(* The worker agrees with the shadow                                       *)

\* An engine and a shadow that start together.
LEMMA Together ==
  ASSUME NEW m \in Nat
  PROVE  /\ NewPrefix(m) \in Shadows /\ NewEngine(m) \in Engines
         /\ Match(NewEngine(m), NewPrefix(m))
         /\ NewEngine(m).matrix = m /\ NewPrefix(m).matrix = m
         /\ Loads(NewEngine(m).pending) = 0 /\ Loads(NewPrefix(m).pending) = 0
<1>1. <<>> \in Seq(Commands) /\ Len(<<>>) = 0
  BY EmptySeq
<1> QED
  BY <1>1, LoadsEmpty, Constants
  DEF NewPrefix, NewEngine, Shadows, Engines, Match

\* A service that starts, or that has stopped.
LEMMA ChainFresh ==
  ASSUME NEW m \in Nat, queue' = <<>>, engine' = NewEngine(m),
         stream' = <<>>, sent' \in Nat,
         active' => /\ m = sent' /\ prefix' = NewPrefix(m) /\ ~Held("intake")'
  PROVE  Chained'
<1> DEFINE T == [i \in 0 .. 0 |-> NewPrefix(m)]
           D == [i \in 0 .. 0 |-> m]
<1>1. Len(queue') = 0 /\ Len(stream') = 0
  BY EmptySeq
<1>2. Chain(T, D, D)'
  BY <1>1, Together DEF Chain
<1> QED
  BY <1>2 DEF Chained

\* Worker and intake begin together.
LEMMA ChainInit == Init => Chained
<1> SUFFICES ASSUME Init PROVE Chained
  OBVIOUS
<1> DEFINE T == [i \in 0 .. 0 |-> NewPrefix(0)]
           D == [i \in 0 .. 0 |-> 0]
<1>1. /\ queue = <<>> /\ engine = NewEngine(0) /\ stream = <<>> /\ sent = 0
      /\ prefix = NewPrefix(0) /\ ~Held("intake") /\ pc["intake"] = "run"
  BY DEF Init, Held, Publishing, Threads
<1>2. Len(queue) = 0 /\ Len(stream) = 0
  BY <1>1, EmptySeq
<1>3. Chain(T, D, D)
  BY <1>1, <1>2, Together DEF Chain
<1> QED
  BY <1>3 DEF Chained

\* A record is posted.
LEMMA ChainPost ==
  ASSUME TypeOK, TypeOK', Chained, NEW kind \in Kinds, NEW id \in Nat, Post(kind, id),
         active, UNCHANGED <<engine, queue, active, pc, prefix, reply>>,
         sent' = sent + Weight(kind),
         \/ wanted' = wanted /\ kind # "query"
         \/ wanted' = sent /\ kind = "query" /\ ~InStream /\ ~InQueue /\ ~InHand
  PROVE  Chained'
<1>1. PICK T, D, C : Chain(T, D, C)
  BY DEF Chained
<1> DEFINE n == Len(stream)
<1>2. /\ Len(stream') = n + 1 /\ n \in Nat
      /\ \A i \in 1 .. n : stream'[i] = stream[i]
      /\ stream'[n + 1].kind = kind
  BY PostFacts
<1>3. /\ \A i \in 1 .. n : C[i] = C[i - 1] + Weight(stream[i].kind)
      /\ C \in [0 .. n -> Nat] /\ C[0] = D[Len(queue)] /\ C[n] = sent
  BY <1>1 DEF Chain
<1>4. PICK E : E = [i \in 0 .. n + 1 |-> IF i <= n THEN C[i] ELSE sent']
  OBVIOUS
<1>10. E \in [0 .. n + 1 -> Nat]
  BY <1>2, <1>3, <1>4 DEF TypeOK
<1>5. ASSUME NEW i \in 1 .. n + 1 PROVE E[i] = E[i - 1] + Weight(stream'[i].kind)
  <2>1. CASE i = n + 1
    BY <1>2, <1>3, <1>4, <2>1
  <2>2. CASE i \in 1 .. n
    BY <1>2, <1>3, <1>4, <2>2
  <2> QED
    BY <1>2, <2>1, <2>2
<1>6. E[0] = C[0] /\ E[n + 1] = sent'
  BY <1>2, <1>4
<1>7. ASSUME NEW i \in 1 .. n + 1, Asked(i)' PROVE E[i] = wanted'
  <2>1. CASE i = n + 1
    <3>1. kind = "query"
      BY <1>2, <1>7, <2>1 DEF Asked
    <3>2. sent' = sent
      BY <3>1 DEF Weight, TypeOK
    <3> QED
      BY <1>6, <2>1, <3>1, <3>2
  <2>2. CASE i \in 1 .. n
    <3>1. Asked(i)
      BY <1>2, <1>7, <2>2 DEF Asked
    <3>2. wanted' = wanted
      BY <2>2, <3>1 DEF InStream
    <3>3. C[i] = wanted
      BY <1>1, <2>2, <3>1 DEF Chain
    <3> QED
      BY <1>2, <1>4, <2>2, <3>2, <3>3
  <2> QED
    BY <1>2, <2>1, <2>2
<1> HIDE DEF n
<1>8. /\ \A i \in 1 .. Len(queue) : Left(i)' => D[i] = wanted'
      /\ Held("intake")' => D[Len(queue)] = wanted'
  <2>1. \A i \in 1 .. Len(queue) : Left(i)' => Left(i)
    BY DEF Left
  <2>2. Held("intake")' => Held("intake")
    BY DEF Held
  <2>3. (\E i \in 1 .. Len(queue) : Left(i)) \/ Held("intake") => wanted' = wanted
    BY DEF InQueue, InHand, Threads
  <2> QED
    BY <1>1, <2>1, <2>2, <2>3 DEF Chain
<1>9. Chain(T, D, E)'
  BY <1>1, <1>2, <1>3, <1>10, <1>5, <1>6, <1>7, <1>8 DEF Chain, Held, n
<1> QED
  BY <1>9 DEF Chained

\* Neither a record nor the shadow moves.
LEMMA ChainQuiet ==
  ASSUME Chained, UNCHANGED <<engine, queue, stream, active, sent, prefix>>,
         UNCHANGED reply["intake"],
         Held("intake")' <=> Held("intake"),
         (pc["intake"] = "run")' <=> pc["intake"] = "run",
         active => wanted' = wanted \/ (~InStream /\ ~InQueue /\ ~InHand)
  PROVE  Chained'
<1>1. PICK T, D, C : Chain(T, D, C)
  BY DEF Chained
<1>2. \A i \in 1 .. Len(queue) : Left(i)' <=> Left(i)
  BY DEF Left
<1>3. \A i \in 1 .. Len(stream) : Asked(i)' <=> Asked(i)
  BY DEF Asked
<1>4. active /\ (InStream \/ InQueue \/ InHand) => wanted' = wanted
  OBVIOUS
<1>5. active' =>
        /\ C[0] = D[Len(queue')] /\ C[Len(stream')] = sent'
        /\ pc'["intake"] = "run" => prefix' = T[Len(queue')]
        /\ Held("intake")' =>
             /\ prefix' = ShadowBy(T[Len(queue')], "query") /\ prefix'.valid
             /\ reply'["intake"].matrix = prefix'.matrix
             /\ D[Len(queue')] = wanted'
        /\ \A i \in 1 .. Len(queue') : Left(i)' => D[i] = wanted'
        /\ \A i \in 1 .. Len(stream') : Asked(i)' => C[i] = wanted'
  BY <1>1, <1>2, <1>3, <1>4 DEF Chain, InStream, InQueue, InHand, Threads
<1>6. Chain(T, D, C)'
  BY <1>1, <1>5 DEF Chain
<1> QED
  BY <1>6 DEF Chained

\* U and E are T and D with the entry x behind them, which leaves the shadow p.
Longer(T, D, x, p, U, E) ==
  /\ U \in [0 .. Len(queue') -> Shadows] /\ E \in [0 .. Len(queue') -> Nat]
  /\ U[0] = T[0] /\ E[0] = D[0]
  /\ \A i \in 0 .. Len(queue) : U[i] = T[i] /\ E[i] = D[i]
  /\ U[Len(queue')] = p
  /\ E[Len(queue')] = D[Len(queue)] + Weight(x.kind)
  /\ \A i \in 0 .. Len(queue') :
                U[i].valid => U[i].matrix + Loads(U[i].pending) = E[i]
  /\ \A i \in 1 .. Len(queue') :
       /\ U[i] = ShadowBy(U[i - 1], queue'[i].kind)
       /\ E[i] = E[i - 1] + Weight(queue'[i].kind)
       /\ queue'[i].sure => U[i].valid /\ queue'[i].matrix = U[i].matrix

\* An entry at the end of the queue, and the shadow behind it.
LEMMA ChainEntry ==
  ASSUME TypeOK, TypeOK', NEW T, NEW D, NEW C, Chain(T, D, C), active,
         NEW x \in Entries, queue' = Append(queue, x), UNCHANGED engine,
         NEW p \in Shadows, p = ShadowBy(T[Len(queue)], x.kind),
         x.sure => p.valid /\ x.matrix = p.matrix
  PROVE  \E U, E : Longer(T, D, x, p, U, E)
<1> DEFINE n == Len(queue)
<1>1. /\ Len(queue') = n + 1 /\ n \in Nat
      /\ \A i \in 1 .. n : queue'[i] = queue[i]
      /\ queue'[n + 1] = x
  BY QueueAppend
<1>2. /\ T \in [0 .. n -> Shadows] /\ D \in [0 .. n -> Nat]
      /\ \A i \in 0 .. n : T[i].valid => T[i].matrix + Loads(T[i].pending) = D[i]
      /\ \A i \in 1 .. n :
           /\ T[i] = ShadowBy(T[i - 1], queue[i].kind)
           /\ D[i] = D[i - 1] + Weight(queue[i].kind)
           /\ queue[i].sure => T[i].valid /\ queue[i].matrix = T[i].matrix
  BY DEF Chain
<1>3. PICK U : U = [i \in 0 .. n + 1 |-> IF i <= n THEN T[i] ELSE p]
  OBVIOUS
<1>4. PICK E : E = [i \in 0 .. n + 1 |-> IF i <= n THEN D[i] ELSE D[n] + Weight(x.kind)]
  OBVIOUS
<1> HIDE DEF n
<1>5. U \in [0 .. n + 1 -> Shadows]
  BY <1>1, <1>2, <1>3
<1>6. D[n] \in Nat /\ Weight(x.kind) \in Nat /\ T[n] \in Shadows
  BY <1>1, <1>2 DEF Weight
<1>7. E \in [0 .. n + 1 -> Nat]
  BY <1>1, <1>2, <1>4, <1>6
<1>8. /\ \A i \in 0 .. n : U[i] = T[i] /\ E[i] = D[i]
      /\ U[n + 1] = p /\ E[n + 1] = D[n] + Weight(x.kind)
  BY <1>1, <1>3, <1>4
<1>9. U[n + 1].valid => U[n + 1].matrix + Loads(U[n + 1].pending) = E[n + 1]
  <2>1. x.kind \in Kinds
    BY DEF Entries
  <2>2. p.valid => /\ T[n].valid
                   /\ p.matrix + Loads(p.pending)
                        = T[n].matrix + Loads(T[n].pending) + Weight(x.kind)
    BY <1>6, <2>1, ShadowFacts DEF n
  <2>3. T[n].valid => T[n].matrix + Loads(T[n].pending) = D[n]
    BY <1>1, <1>2
  <2> QED
    BY <1>8, <2>2, <2>3
<1>10. ASSUME NEW i \in 0 .. n + 1, U[i].valid
       PROVE  U[i].matrix + Loads(U[i].pending) = E[i]
  BY <1>1, <1>2, <1>8, <1>9, <1>10
<1>11. ASSUME NEW i \in 1 .. n + 1
       PROVE  /\ U[i] = ShadowBy(U[i - 1], queue'[i].kind)
              /\ E[i] = E[i - 1] + Weight(queue'[i].kind)
              /\ queue'[i].sure => U[i].valid /\ queue'[i].matrix = U[i].matrix
  <2>1. CASE i = n + 1
    <3>1. i - 1 = n /\ n \in 0 .. n
      BY <1>1, <2>1
    <3> QED
      BY <1>1, <1>8, <2>1, <3>1 DEF n
  <2>2. CASE i \in 1 .. n
    <3>1. i \in 0 .. n /\ i - 1 \in 0 .. n
      BY <1>1, <2>2
    <3> QED
      BY <1>1, <1>2, <1>8, <2>2, <3>1
  <2> QED
    BY <1>1, <2>1, <2>2
<1>12. 0 \in 0 .. n
  BY <1>1
<1>13. Longer(T, D, x, p, U, E)
  BY <1>1, <1>5, <1>7, <1>8, <1>10, <1>11, <1>12 DEF n, Longer
<1> QED
  BY <1>13

\* The intake goes on by a record, and the chain gets longer by one.
LEMMA ChainTake ==
  ASSUME TypeOK, TypeOK', OneReply, Chained, Take
  PROVE  Chained'
<1>1. PICK T, D, C : Chain(T, D, C)
  BY DEF Chained
<1> DEFINE x  == stream[1]
           q  == Len(queue)
           n  == Len(stream')
<1>2. /\ active /\ pc["intake"] = "run"
      /\ Len(stream) = n + 1 /\ n \in Nat /\ q \in Nat
      /\ \A i \in 1 .. n : stream'[i] = stream[i + 1]
      /\ x = [kind |-> x.kind, id |-> x.id] /\ x.kind \in Kinds /\ x.id \in Nat
      /\ prefix' = ShadowBy(prefix, x.kind) /\ prefix' \in Shadows
      /\ UNCHANGED <<active, engine, sent, wanted>>
  <2>1. Len(queue) \in Nat
    BY LenProperties DEF TypeOK
  <2> QED
    BY <2>1, TakeFacts DEF Items, history
<1>3. prefix = T[q] /\ C[0] = D[q] /\ C[n + 1] = sent
  BY <1>1, <1>2 DEF Chain
<1>4. /\ C \in [0 .. n + 1 -> Nat]
      /\ \A i \in 1 .. n + 1 : C[i] = C[i - 1] + Weight(stream[i].kind)
      /\ \A i \in 1 .. n + 1 : Asked(i) => C[i] = wanted
      /\ \A i \in 1 .. q : Left(i) => D[i] = wanted
  BY <1>1, <1>2 DEF Chain
<1>5. PICK B : B = [i \in 0 .. n |-> C[i + 1]]
  OBVIOUS
<1> HIDE DEF n, x
<1>6. /\ B \in [0 .. n -> Nat] /\ B[0] = C[1] /\ B[n] = sent
      /\ \A i \in 1 .. n : B[i] = B[i - 1] + Weight(stream'[i].kind)
      /\ \A i \in 1 .. n : Asked(i)' => B[i] = wanted
  <2>1. B \in [0 .. n -> Nat] /\ B[0] = C[1] /\ B[n] = sent
    BY <1>2, <1>3, <1>4, <1>5
  <2>2. ASSUME NEW i \in 1 .. n
        PROVE  /\ B[i] = B[i - 1] + Weight(stream'[i].kind)
               /\ Asked(i)' => B[i] = wanted
    <3>1. /\ i + 1 \in 1 .. n + 1 /\ i \in 0 .. n /\ i - 1 \in 0 .. n
          /\ (i - 1) + 1 = i /\ (i + 1) - 1 = i
      BY <1>2
    <3>2. B[i] = C[i + 1] /\ B[i - 1] = C[i]
      BY <1>5, <3>1
    <3>3. Asked(i)' => Asked(i + 1)
      BY <1>2 DEF Asked
    <3> QED
      BY <1>2, <1>4, <3>1, <3>2, <3>3
  <2> QED
    BY <2>1, <2>2
<1>7. C[1] = C[0] + Weight(x.kind) /\ (x.kind = "query" => C[1] = wanted)
  <2>1. 1 \in 1 .. n + 1 /\ 1 - 1 = 0
    BY <1>2
  <2> QED
    BY <1>4, <2>1 DEF Asked, x
<1>8. CASE x.kind = "query" /\ Settled(prefix') /\ queue' = queue
           /\ pc' = [pc EXCEPT !["intake"] = "clear"]
           /\ reply' = [reply EXCEPT !["intake"] =
                          [id |-> x.id, busy |-> FALSE, matrix |-> prefix'.matrix]]
  <2>1. D[q] = wanted
    <3>1. D[q] \in Nat
      BY <1>1, <1>2 DEF Chain
    <3> QED
      BY <1>3, <1>7, <1>8, <3>1 DEF Weight
  <2>2. /\ pc'["intake"] = "clear"
        /\ reply'["intake"].matrix = prefix'.matrix
    BY <1>8 DEF TypeOK, Threads
  <2>3. prefix'.valid /\ prefix' = ShadowBy(T[q], "query")
    BY <1>2, <1>3, <1>8 DEF Settled
  <2>4. \A i \in 1 .. q : Left(i)' <=> Left(i)
    BY <1>8 DEF Left
  <2>5. C[1] = D[q]
    BY <1>7, <1>8, <2>1
  <2>6. Len(queue') = q
    BY <1>8
  <2>7. active' =>
        /\ B[0] = D[Len(queue')] /\ B[Len(stream')] = sent'
        /\ pc'["intake"] = "run" => prefix' = T[Len(queue')]
        /\ Held("intake")' =>
             /\ prefix' = ShadowBy(T[Len(queue')], "query") /\ prefix'.valid
             /\ reply'["intake"].matrix = prefix'.matrix
             /\ D[Len(queue')] = wanted'
        /\ \A i \in 1 .. Len(queue') : Left(i)' => D[i] = wanted'
        /\ \A i \in 1 .. Len(stream') : Asked(i)' => B[i] = wanted'
    BY <1>2, <1>4, <1>6, <2>1, <2>2, <2>3, <2>4, <2>5, <2>6 DEF n
  <2>8. Chain(T, D, B)'
    BY <1>1, <1>2, <1>6, <1>8, <2>6, <2>7 DEF Chain, n
  <2> QED
    BY <2>8 DEF Chained
<1>9. CASE ~(x.kind = "query" /\ Settled(prefix'))
           /\ queue' = Append(queue, Entry(x, prefix', FALSE))
           /\ pc' = pc /\ reply' = reply
  <2> DEFINE y == Entry(x, prefix', FALSE)
  <2>1. /\ y \in Entries /\ y.kind = x.kind /\ y.matrix = prefix'.matrix
        /\ y.sure = (prefix'.valid /\ x.kind = "query")
    <3>1. prefix'.valid \in BOOLEAN /\ prefix'.matrix \in Nat
      BY <1>2 DEF Shadows
    <3> QED
      BY <1>2, <3>1 DEF Entry, Entries
  <2>2. PICK w \in Entries : w = y
    BY <2>1
  <2>3. PICK p \in Shadows : p = prefix'
    BY <1>2
  <2> HIDE DEF y
  <2>4. /\ queue' = Append(queue, w) /\ p = ShadowBy(T[Len(queue)], w.kind)
        /\ w.sure => p.valid /\ w.matrix = p.matrix
    BY <1>2, <1>3, <1>9, <2>1, <2>2, <2>3 DEF y
  <2>4a. PICK U, E : Longer(T, D, w, p, U, E)
    BY <1>1, <1>2, <2>4, ChainEntry
  <2>5. /\ U \in [0 .. Len(queue') -> Shadows] /\ E \in [0 .. Len(queue') -> Nat]
        /\ U[0] = T[0] /\ E[0] = D[0]
        /\ \A i \in 0 .. Len(queue) : U[i] = T[i] /\ E[i] = D[i]
        /\ U[Len(queue')] = p
        /\ E[Len(queue')] = D[Len(queue)] + Weight(w.kind)
        /\ \A i \in 0 .. Len(queue') :
                U[i].valid => U[i].matrix + Loads(U[i].pending) = E[i]
        /\ \A i \in 1 .. Len(queue') :
             /\ U[i] = ShadowBy(U[i - 1], queue'[i].kind)
             /\ E[i] = E[i - 1] + Weight(queue'[i].kind)
             /\ queue'[i].sure => U[i].valid /\ queue'[i].matrix = U[i].matrix
    BY <2>4a DEF Longer
  <2>6. /\ Len(queue') = q + 1
        /\ \A i \in 1 .. q : queue'[i] = queue[i]
        /\ queue'[q + 1] = w
    BY <2>4, QueueAppend
  <2>7. E[Len(queue')] = C[1]
    BY <1>3, <1>7, <2>1, <2>2, <2>5
  <2>8. ASSUME NEW i \in 1 .. Len(queue'), Left(i)' PROVE E[i] = wanted
    <3>1. CASE i = q + 1
      <4>1. x.kind = "query"
        BY <2>1, <2>2, <2>6, <2>8, <3>1 DEF Left
      <4> QED
        BY <1>7, <2>6, <2>7, <3>1, <4>1
    <3>2. CASE i \in 1 .. q
      <4>1. Left(i)
        BY <2>6, <2>8, <3>2 DEF Left
      <4>2. E[i] = D[i]
        BY <1>2, <2>5, <3>2
      <4> QED
        BY <1>4, <3>2, <4>1, <4>2
    <3> QED
      BY <1>2, <2>6, <3>1, <3>2
  <2>9. ~Held("intake")'
    BY <1>2, <1>9 DEF Held, Publishing
  <2>10. active' =>
        /\ B[0] = E[Len(queue')] /\ B[Len(stream')] = sent'
        /\ pc'["intake"] = "run" => prefix' = U[Len(queue')]
        /\ Held("intake")' =>
             /\ prefix' = ShadowBy(U[Len(queue')], "query") /\ prefix'.valid
             /\ reply'["intake"].matrix = prefix'.matrix
             /\ E[Len(queue')] = wanted'
        /\ \A i \in 1 .. Len(queue') : Left(i)' => E[i] = wanted'
        /\ \A i \in 1 .. Len(stream') : Asked(i)' => B[i] = wanted'
    BY <1>2, <1>6, <2>3, <2>5, <2>7, <2>8, <2>9 DEF n
  <2>11. Match(engine', U[0]) /\ E[0] = engine'.matrix + Loads(engine'.pending)
    BY <1>1, <1>2, <2>5 DEF Chain
  <2>12. Chain(U, E, B)'
    BY <1>6, <2>5, <2>10, <2>11 DEF Chain, n
  <2> QED
    BY <2>12 DEF Chained
<1> QED
  BY <1>8, <1>9, TakeFacts DEF x

\* So it does when the fence the intake has answered is queued.
LEMMA ChainCommit ==
  ASSUME TypeOK, TypeOK', Chained, NEW t \in Threads, Commit(t)
  PROVE  Chained'
<1>1. CASE t = "replay"
  <2>1. UNCHANGED <<engine, queue, stream, active, sent, prefix, wanted>>
    BY <1>1, CommitFacts DEF fpga, history
  <2>2. reply'["intake"] = reply["intake"] /\ pc'["intake"] = pc["intake"]
    BY <1>1, CommitFacts DEF TypeOK, Threads
  <2> QED
    BY <2>1, <2>2, ChainQuiet DEF Held
<1>2. CASE t = "intake"
  <2>0. PICK T, D, C : Chain(T, D, C)
    BY DEF Chained
  <2> DEFINE q == Len(queue)
  <2>1. /\ active /\ pc[t] = "commit" /\ pc'[t] = "run"
        /\ UNCHANGED <<engine, stream, active, sent, prefix, wanted>>
        /\ queue' = Append(queue, Entry([kind |-> "query", id |-> reply[t].id],
                                        prefix, TRUE))
        /\ Entry([kind |-> "query", id |-> reply[t].id], prefix, TRUE) \in Entries
    BY <1>2, CommitFacts DEF fpga, history, TypeOK
  <2>2. PICK w \in Entries :
               w = Entry([kind |-> "query", id |-> reply[t].id], prefix, TRUE)
    BY <2>1
  <2>3. w.kind = "query" /\ w.fast = TRUE /\ w.matrix = prefix.matrix
    BY <2>2 DEF Entry
  <2>4. PICK p \in Shadows : p = prefix
    BY DEF TypeOK
  <2>5. Held("intake")
    BY <1>2, <2>1 DEF Held, Publishing
  <2>6. /\ prefix = ShadowBy(T[q], "query") /\ prefix.valid /\ D[q] = wanted
    BY <2>0, <2>1, <2>5 DEF Chain
  <2>7. PICK U, E : Longer(T, D, w, p, U, E)
    BY <2>0, <2>1, <2>2, <2>3, <2>4, <2>6, ChainEntry
  <2>8. /\ U \in [0 .. Len(queue') -> Shadows] /\ E \in [0 .. Len(queue') -> Nat]
        /\ U[0] = T[0] /\ E[0] = D[0]
        /\ \A i \in 0 .. q : U[i] = T[i] /\ E[i] = D[i]
        /\ U[Len(queue')] = p
        /\ E[Len(queue')] = D[q] + Weight(w.kind)
        /\ \A i \in 0 .. Len(queue') :
                U[i].valid => U[i].matrix + Loads(U[i].pending) = E[i]
        /\ \A i \in 1 .. Len(queue') :
                /\ U[i] = ShadowBy(U[i - 1], queue'[i].kind)
                /\ E[i] = E[i - 1] + Weight(queue'[i].kind)
                /\ queue'[i].sure => U[i].valid /\ queue'[i].matrix = U[i].matrix
    BY <2>7 DEF Longer
  <2>9. /\ Len(queue') = q + 1 /\ q \in Nat
        /\ \A i \in 1 .. q : queue'[i] = queue[i]
        /\ queue'[q + 1] = w
    BY <2>1, <2>2, QueueAppend
  <2>10. D[q] \in Nat
    BY <2>0, <2>9 DEF Chain
  <2>11. E[Len(queue')] = D[q]
    BY <2>3, <2>8, <2>10 DEF Weight
  <2>12. ASSUME NEW i \in 1 .. Len(queue'), Left(i)' PROVE E[i] = wanted
    <3>1. i # q + 1
      BY <2>3, <2>9, <2>12 DEF Left
    <3>2. i \in 1 .. q /\ i \in 0 .. q
      BY <2>9, <3>1
    <3>3. Left(i)
      BY <2>9, <2>12, <3>2 DEF Left
    <3>4. D[i] = wanted
      BY <2>0, <2>1, <3>2, <3>3 DEF Chain
    <3> QED
      BY <2>8, <3>2, <3>4
  <2>13. \A i \in 1 .. Len(stream) : Asked(i)' <=> Asked(i)
    BY <2>1 DEF Asked
  <2>14. ~Held("intake")'
    BY <1>2, <2>1 DEF Held, Publishing
  <2>15. active' =>
        /\ C[0] = E[Len(queue')] /\ C[Len(stream')] = sent'
        /\ pc'["intake"] = "run" => prefix' = U[Len(queue')]
        /\ Held("intake")' =>
             /\ prefix' = ShadowBy(U[Len(queue')], "query") /\ prefix'.valid
             /\ reply'["intake"].matrix = prefix'.matrix
             /\ E[Len(queue')] = wanted'
        /\ \A i \in 1 .. Len(queue') : Left(i)' => E[i] = wanted'
        /\ \A i \in 1 .. Len(stream') : Asked(i)' => C[i] = wanted'
    BY <2>0, <2>1, <2>4, <2>8, <2>11, <2>12, <2>13, <2>14 DEF Chain
  <2>16. Match(engine', U[0]) /\ E[0] = engine'.matrix + Loads(engine'.pending)
    BY <2>0, <2>1, <2>8 DEF Chain
  <2>17. Chain(U, E, C)'
    BY <2>0, <2>1, <2>8, <2>15, <2>16 DEF Chain
  <2> QED
    BY <2>17 DEF Chained
<1> QED
  BY <1>1, <1>2 DEF Threads

\* The engine that gets to an answer of the shadow has the same matrices.
LEMMA ApplyAgrees ==
  ASSUME TypeOK, NEW T, NEW D, NEW C, Chain(T, D, C), Apply
  PROVE  /\ Match(engine', T[1])
         /\ D[1] = engine'.matrix + Loads(engine'.pending)
         /\ queue[1].sure => engine'.matrix = queue[1].matrix
         /\ ~Disagrees(queue[1], engine')
<1>1. /\ Len(queue) \in Nat /\ Len(queue) > 0 /\ queue[1].kind \in Kinds
      /\ engine' = EngineBy(engine, queue[1].kind)
  BY ApplyFacts DEF Entries
<1>2. 0 \in 0 .. Len(queue) /\ 1 \in 1 .. Len(queue) /\ 1 - 1 = 0
  BY <1>1
<1>3. /\ T[0] \in Shadows /\ Match(engine, T[0])
      /\ D[0] = engine.matrix + Loads(engine.pending)
      /\ T[1] = ShadowBy(T[0], queue[1].kind)
      /\ D[1] = D[0] + Weight(queue[1].kind)
      /\ queue[1].sure => T[1].valid /\ queue[1].matrix = T[1].matrix
  BY <1>2 DEF Chain
<1>4. Match(engine', T[1])
  BY <1>1, <1>3, MatchStep DEF TypeOK
<1>5. D[1] = engine'.matrix + Loads(engine'.pending)
  BY <1>1, <1>3, EngineFacts DEF TypeOK
<1>6. queue[1].sure => engine'.matrix = queue[1].matrix
  BY <1>3, <1>4 DEF Match
<1> QED
  BY <1>4, <1>5, <1>6 DEF Disagrees

\* The worker goes on by a record, and the chain starts one later.
LEMMA ChainApply ==
  ASSUME TypeOK, TypeOK', Chained, Apply
  PROVE  Chained' /\ (~faulted => ~faulted')
<1>0. PICK T, D, C : Chain(T, D, C)
  BY DEF Chained
<1> DEFINE q == Len(queue')
<1>1. /\ q \in Nat /\ Len(queue) = q + 1
      /\ \A i \in 1 .. q : queue'[i] = queue[i + 1]
      /\ UNCHANGED <<stream, active, sent, prefix, wanted>>
      /\ faulted' = (faulted \/ Disagrees(queue[1], engine'))
  BY ApplyFacts DEF fpga, history
<1>2. /\ Match(engine', T[1])
      /\ D[1] = engine'.matrix + Loads(engine'.pending)
      /\ ~Disagrees(queue[1], engine')
  BY <1>0, ApplyAgrees
<1>3. PICK U : U = [i \in 0 .. q |-> T[i + 1]]
  OBVIOUS
<1>4. PICK E : E = [i \in 0 .. q |-> D[i + 1]]
  OBVIOUS
<1> HIDE DEF q
<1>5. \A i \in 0 .. q : i + 1 \in 0 .. q + 1 /\ i + 1 \in 1 .. q + 1
  BY <1>1
<1>6. /\ U \in [0 .. q -> Shadows] /\ E \in [0 .. q -> Nat]
      /\ \A i \in 0 .. q : U[i].valid => U[i].matrix + Loads(U[i].pending) = E[i]
      /\ U[0] = T[1] /\ E[0] = D[1] /\ U[q] = T[q + 1] /\ E[q] = D[q + 1]
  <2>1. /\ T \in [0 .. q + 1 -> Shadows] /\ D \in [0 .. q + 1 -> Nat]
        /\ \A i \in 0 .. q + 1 : T[i].valid => T[i].matrix + Loads(T[i].pending) = D[i]
    BY <1>0, <1>1 DEF Chain
  <2>2. 0 \in 0 .. q /\ q \in 0 .. q /\ 0 + 1 = 1
    BY <1>1
  <2> QED
    BY <1>3, <1>4, <1>5, <2>1, <2>2
<1>7. ASSUME NEW i \in 1 .. q
      PROVE  /\ U[i] = ShadowBy(U[i - 1], queue'[i].kind)
             /\ E[i] = E[i - 1] + Weight(queue'[i].kind)
             /\ queue'[i].sure => U[i].valid /\ queue'[i].matrix = U[i].matrix
             /\ active /\ Left(i)' => E[i] = wanted
  <2>1. /\ i + 1 \in 1 .. q + 1 /\ i \in 0 .. q /\ i - 1 \in 0 .. q
        /\ (i - 1) + 1 = i /\ (i + 1) - 1 = i
    BY <1>1
  <2>2. U[i] = T[i + 1] /\ U[i - 1] = T[i] /\ E[i] = D[i + 1] /\ E[i - 1] = D[i]
    BY <1>3, <1>4, <2>1
  <2>3. /\ T[i + 1] = ShadowBy(T[i], queue[i + 1].kind)
        /\ D[i + 1] = D[i] + Weight(queue[i + 1].kind)
        /\ queue[i + 1].sure => T[i + 1].valid /\ queue[i + 1].matrix = T[i + 1].matrix
        /\ active /\ Left(i + 1) => D[i + 1] = wanted
    BY <1>0, <1>1, <2>1 DEF Chain
  <2>4. Left(i)' <=> Left(i + 1)
    BY <1>1 DEF Left
  <2> QED
    BY <1>1, <2>2, <2>3, <2>4
<1>8. (pc'["intake"] = pc["intake"]) /\ reply'["intake"] = reply["intake"]
  BY ApplyFacts DEF TypeOK, Threads
<1>9. \A i \in 1 .. Len(stream) : Asked(i)' <=> Asked(i)
  BY <1>1 DEF Asked
<1>10. active' =>
        /\ C[0] = E[Len(queue')] /\ C[Len(stream')] = sent'
        /\ pc'["intake"] = "run" => prefix' = U[Len(queue')]
        /\ Held("intake")' =>
             /\ prefix' = ShadowBy(U[Len(queue')], "query") /\ prefix'.valid
             /\ reply'["intake"].matrix = prefix'.matrix
             /\ E[Len(queue')] = wanted'
        /\ \A i \in 1 .. Len(queue') : Left(i)' => E[i] = wanted'
        /\ \A i \in 1 .. Len(stream') : Asked(i)' => C[i] = wanted'
  BY <1>0, <1>1, <1>6, <1>7, <1>8, <1>9 DEF Chain, Held, q
<1>11. Chain(U, E, C)'
  BY <1>0, <1>1, <1>2, <1>6, <1>7, <1>10 DEF Chain, q
<1> QED
  BY <1>1, <1>2, <1>11 DEF Chained

\* No thread leaves while the session lasts.
LEMMA NotGone ==
  ASSUME TypeOK, SessionInv, ~faulted, Stop
  PROVE  ~active
BY DEF Stop, Leaves, SessionInv, TypeOK, Threads

\* No step takes worker and shadow apart.
LEMMA AgreeStep ==
  ASSUME TypeOK, TypeOK', SessionInv, OneReply, ~faulted, Chained, [Next]_vars
  PROVE  ~faulted' /\ Chained'
<1> USE DEF fpga, service, history, ownerVars, scannerVars
<1>1. ASSUME NEW kind \in Commands, Write(kind) PROVE ~faulted' /\ Chained'
  <2>1. sent' = sent + Weight(kind)
    BY <1>1 DEF Write, Weight
  <2>2. kind # "query" /\ kind \in Kinds
    BY DEF Commands, Kinds
  <2> QED
    BY <1>1, <2>1, <2>2, ChainPost DEF Write
<1>2. CASE VBlank
  <2>1. sent' = sent + Weight("vblank")
    BY <1>2 DEF VBlank, Weight, TypeOK
  <2> QED
    BY <1>2, <2>1, ChainPost DEF VBlank, Kinds
<1>3. CASE ReadCached
  <2>1. ~InStream /\ ~InQueue /\ ~InHand
    BY <1>3 DEF ReadCached, OwnerMoves, OneReply
  <2> QED
    BY <1>3, <2>1, ChainQuiet DEF ReadCached, OwnerMoves, Held
<1>4. CASE ReadRequest
  BY <1>4, ChainQuiet DEF ReadRequest, OwnerMoves, Held
<1>5. CASE ReadExhausted
  BY <1>5, ChainQuiet DEF ReadExhausted, OwnerMoves, Held
<1>6. CASE Issue
  <2>1. ~InStream /\ ~InQueue /\ ~InHand
    BY <1>6 DEF Issue, OwnerMoves, OneReply
  <2>2. sent' = sent + Weight("query") /\ requestSequence \in Nat
    BY <1>6 DEF Issue, OwnerMoves, Weight, TypeOK
  <2> QED
    BY <1>6, <2>1, <2>2, ChainPost DEF Issue, OwnerMoves, Kinds
<1>7. CASE TakeReply
  BY <1>7, ChainQuiet DEF TakeReply, OwnerMoves, Held
<1>8. CASE Complete
  <2>1. ~InStream /\ ~InQueue /\ ~InHand
    BY <1>8 DEF Complete, OwnerMoves, OneReply
  <2> QED
    BY <1>8, <2>1, ChainQuiet DEF Complete, OwnerMoves, Held
<1>9. CASE Scanner
  BY <1>9, ScannerFacts, ChainQuiet DEF Held
<1>10. CASE Take
  BY <1>10, TakeFacts, ChainTake
<1>11. ASSUME NEW t \in Threads, Clear(t) \/ Payload(t) PROVE ~faulted' /\ Chained'
  <2>1. Held("intake")' <=> Held("intake")
    BY <1>11, WriteFacts DEF Held, Threads
  <2>2. (pc["intake"] = "run")' <=> pc["intake"] = "run"
    BY <1>11, WriteFacts DEF Held, Threads, Publishing
  <2> QED
    BY <1>11, <2>1, <2>2, WriteFacts, ChainQuiet
<1>12. ASSUME NEW t \in Threads, Commit(t) PROVE ~faulted' /\ Chained'
  BY <1>12, CommitFacts, ChainCommit
<1>13. CASE Apply
  BY <1>13, ChainApply
<1>14. CASE Stop
  <2>0. PICK t \in Threads : Gone(t)
    BY <1>14 DEF Stop
  <2>1. ~active /\ ~active' /\ ~faulted'
    BY <1>14, <2>0, NotGone DEF Gone
  <2>2. stream = <<>> /\ stream' = <<>>
    BY <2>0, <2>1 DEF SessionInv, Gone
  <2>3. CASE t = "intake"
    <3>1. PICK T, D, C : Chain(T, D, C)
      BY DEF Chained
    <3>2. Chain(T, D, C)'
      BY <2>0, <2>1, <2>3, <3>1 DEF Gone, Chain
    <3> QED
      BY <2>1, <3>2 DEF Chained
  <2>4. CASE t = "replay"
    <3>1. queue' = <<>> /\ engine' = NewEngine(0) /\ sent' \in Nat
      BY <2>0, <2>4 DEF Gone, TypeOK
    <3> QED
      BY <2>1, <2>2, <3>1, ChainFresh
  <2> QED
    BY <2>3, <2>4 DEF Threads
<1>15. CASE EndSession
  <2>1. ~active' /\ stream' = <<>> /\ sent' \in Nat /\ ~faulted'
    BY <1>15 DEF EndSession, Killed, TypeOK
  <2>2. CASE Killed
    <3>1. queue' = <<>> /\ engine' = NewEngine(0)
      BY <2>2 DEF Killed
    <3> QED
      BY <2>1, <3>1, ChainFresh
  <2>3. CASE UNCHANGED service
    <3>1. PICK T, D, C : Chain(T, D, C)
      BY DEF Chained
    <3>2. PICK B : B = [i \in 0 .. 0 |-> 0]
      OBVIOUS
    <3>3. Len(stream') = 0
      BY <2>1, EmptySeq
    <3>4. Chain(T, D, B)'
      BY <2>1, <2>3, <3>1, <3>2, <3>3 DEF Chain
    <3> QED
      BY <2>1, <3>4 DEF Chained
  <2> QED
    BY <1>15, <2>2, <2>3 DEF EndSession
<1>16. CASE NewSession
  <2>1. /\ queue' = <<>> /\ engine' = NewEngine(sent') /\ prefix' = NewPrefix(sent')
        /\ stream' = <<>> /\ sent' \in Nat /\ ~faulted' /\ pc'["intake"] = "run"
    BY <1>16 DEF NewSession, SessionInv, TypeOK, Threads
  <2>2. ~Held("intake")'
    BY <2>1 DEF Held, Publishing
  <2> QED
    BY <2>1, <2>2, ChainFresh
<1>17. CASE UNCHANGED vars
  BY <1>17, ChainQuiet DEF vars, Held
<1> QED
  BY <1>1, <1>2, <1>3, <1>4, <1>5, <1>6, <1>7, <1>8, <1>9, <1>10, <1>11, <1>12, <1>13,
     <1>14, <1>15, <1>16, <1>17
  DEF Next, Console, Owner, Intake, Replay, Writer, Commands, Threads

-----------------------------------------------------------------------------
(* One read, one reply                                                     *)

\* The first session is on.
LEMMA SessionInit == Init => SessionInv
BY DEF Init, SessionInv, Threads

\* Its end resets the FPGA, and no thread leaves before.
LEMMA SessionStep ==
  ASSUME TypeOK, TypeOK', SessionInv, ~faulted, ~faulted', [Next]_vars
  PROVE  SessionInv'
<1> USE DEF fpga, service, history, ownerVars, scannerVars
<1>1. ASSUME NEW kind \in Commands, Write(kind) PROVE SessionInv'
  BY <1>1 DEF Write, SessionInv
<1>2. CASE VBlank
  BY <1>2 DEF VBlank, SessionInv
<1>3. CASE Owner
  <2>1. active /\ active' /\ pc' = pc
    BY <1>3 DEF Owner, ReadCached, ReadRequest, ReadExhausted, Issue, TakeReply, Complete,
      OwnerMoves
  <2> QED
    BY <2>1 DEF SessionInv
<1>4. CASE Scanner
  <2>1. active' = active /\ pc' = pc
    BY <1>4, ScannerFacts
  <2>2. active
    BY <1>4, ScannerFacts DEF SessionInv
  <2> QED
    BY <2>1, <2>2 DEF SessionInv
<1>5. CASE Take
  <2>1. active /\ active' = active
    BY <1>5, TakeFacts
  <2>2. \/ pc' = [pc EXCEPT !["intake"] = "clear"]
        \/ pc' = pc
    BY <1>5, TakeFacts
  <2> QED
    BY <2>1, <2>2 DEF SessionInv, TypeOK
<1>6. ASSUME NEW t \in Threads, Clear(t) \/ Payload(t) PROVE SessionInv'
  <2>1. /\ UNCHANGED <<fpga, history>>
        /\ pc'[t] \in Publishing /\ \A u \in Threads \ {t} : pc'[u] = pc[u]
    BY <1>6, WriteFacts
  <2> QED
    BY <2>1 DEF SessionInv, Publishing
<1>7. ASSUME NEW t \in Threads, Commit(t) PROVE SessionInv'
  <2>1. UNCHANGED <<fpga, history>> /\ active /\ pc' = [pc EXCEPT ![t] = "run"]
    BY <1>7, CommitFacts
  <2> QED
    BY <2>1 DEF SessionInv, TypeOK
<1>8. CASE Apply
  <2>1. UNCHANGED <<fpga, history>>
    BY <1>8, ApplyFacts
  <2>2. \/ pc' = [pc EXCEPT !["replay"] = "clear"]
        \/ pc' = [pc EXCEPT !["replay"] = "run"]
    BY <1>8, ApplyFacts
  <2> QED
    BY <2>1, <2>2 DEF SessionInv, TypeOK
<1>9. CASE Stop
  <2>1. ~active
    BY <1>9, NotGone
  <2>2. UNCHANGED <<fpga, history>>
    BY <1>9 DEF Stop, Gone
  <2> QED
    BY <2>1, <2>2 DEF SessionInv
<1>10. CASE EndSession
  BY <1>10 DEF EndSession, SessionInv
<1>11. CASE NewSession
  BY <1>11 DEF NewSession, SessionInv, Threads
<1>12. CASE UNCHANGED vars
  BY <1>12 DEF vars, SessionInv
<1> QED
  BY <1>1, <1>2, <1>3, <1>4, <1>5, <1>6, <1>7, <1>8, <1>9, <1>10, <1>11, <1>12
  DEF Next, Console, Intake, Replay, Writer, Commands, Threads

\* What is posted is asked if it is a fence.
LEMMA PostAsked ==
  ASSUME TypeOK, NEW kind \in Kinds, NEW id \in Nat, Post(kind, id)
  PROVE  /\ Len(stream') = Len(stream) + 1 /\ Len(stream) \in Nat
         /\ \A i \in 1 .. Len(stream) : (Asked(i)' <=> Asked(i))
                                        /\ stream'[i].id = stream[i].id
         /\ stream'[Len(stream) + 1].kind = kind
         /\ stream'[Len(stream) + 1].id = id
BY PostFacts DEF Asked

\* An entry at the end of the queue leaves nothing of before.
LEMMA AppendLeft ==
  ASSUME TypeOK, NEW x \in Entries, queue' = Append(queue, x)
  PROVE  /\ Len(queue') = Len(queue) + 1 /\ Len(queue) \in Nat
         /\ \A i \in 1 .. Len(queue) : (Left(i)' <=> Left(i))
                                       /\ queue'[i].id = queue[i].id
         /\ queue'[Len(queue) + 1] = x
BY QueueAppend DEF Left

\* No read is on its way.
LEMMA OneReplyInit == Init => OneReply
<1> SUFFICES ASSUME Init PROVE OneReply
  OBVIOUS
<1>1. Len(stream) = 0 /\ Len(queue) = 0
  BY EmptySeq DEF Init
<1>2. \A t \in Threads : ~Held(t)
  BY DEF Init, Held, Publishing
<1> QED
  BY <1>1, <1>2 DEF Init, OneReply, InStream, InQueue, InHand

\* None of stream, queue and threads changes; the owner waits for no other read.
LEMMA OneReplyQuiet ==
  ASSUME TypeOK, TypeOK', OneReply, active,
         UNCHANGED <<stream, queue, active, pc, reply>>,
         \A i \in 1 .. Len(stream) : Asked(i)' <=> Asked(i),
         \/ UNCHANGED <<owner, requestSequence, mailbox>>
         \/ /\ ~InStream /\ ~InQueue /\ ~InHand
            /\ mailbox'.commit <= requestSequence'
            /\ owner' = "ISSUE" => mailbox'.commit < requestSequence'
            /\ owner' # "WAIT_REPLY"
  PROVE  OneReply'
<1>1. \A i \in 1 .. Len(queue) : Left(i)' <=> Left(i)
  BY DEF Left
<1>2. \A t \in Threads : Held(t)' <=> Held(t)
  BY DEF Held
<1>3. (InStream' <=> InStream) /\ (InQueue' <=> InQueue) /\ (InHand' <=> InHand)
  BY <1>1, <1>2 DEF InStream, InQueue, InHand
<1>4. CASE UNCHANGED <<owner, requestSequence, mailbox>>
  <2>1. Posted' <=> Posted
    BY <1>4 DEF Posted
  <2> QED
    BY <1>1, <1>2, <1>3, <1>4, <2>1 DEF OneReply
<1>5. CASE /\ ~InStream /\ ~InQueue /\ ~InHand
           /\ mailbox'.commit <= requestSequence'
           /\ owner' = "ISSUE" => mailbox'.commit < requestSequence'
           /\ owner' # "WAIT_REPLY"
  BY <1>1, <1>2, <1>3, <1>5 DEF OneReply, InStream, InQueue, InHand
<1> QED
  BY <1>4, <1>5

\* A fence enters the stream as the only one on its way.
LEMMA OneReplyPost ==
  ASSUME TypeOK, TypeOK', OneReply, NEW kind \in Kinds, NEW id \in Nat, Post(kind, id),
         active, UNCHANGED <<queue, active, pc, reply, requestSequence, mailbox>>,
         \/ kind # "query" /\ owner' = owner
         \/ /\ kind = "query" /\ id = requestSequence /\ ~InStream /\ ~InQueue /\ ~InHand
            /\ owner' = "WAIT_REPLY" /\ mailbox.commit # requestSequence
            /\ requestSequence > 0
  PROVE  OneReply'
<1>1. /\ Len(stream') = Len(stream) + 1 /\ Len(stream) \in Nat
      /\ \A i \in 1 .. Len(stream) : (Asked(i)' <=> Asked(i))
                                        /\ stream'[i].id = stream[i].id
      /\ stream'[Len(stream) + 1].kind = kind
      /\ stream'[Len(stream) + 1].id = id
  BY PostAsked
<1>2. \A i \in 1 .. Len(queue) : Left(i)' <=> Left(i)
  BY DEF Left
<1>3. \A t \in Threads : Held(t)' <=> Held(t)
  BY DEF Held
<1>4. (InQueue' <=> InQueue) /\ (InHand' <=> InHand)
  BY <1>2, <1>3 DEF InQueue, InHand
<1>5. CASE kind # "query" /\ owner' = owner
  <2>1. ASSUME NEW i \in 1 .. Len(stream'), Asked(i)'
        PROVE  i \in 1 .. Len(stream) /\ Asked(i) /\ stream'[i].id = stream[i].id
    <3>1. i # Len(stream) + 1
      BY <1>1, <1>5, <2>1 DEF Asked
    <3>2. i \in 1 .. Len(stream)
      BY <1>1, <3>1
    <3> QED
      BY <1>1, <2>1, <3>2
  <2>2. InStream' => InStream
    BY <2>1 DEF InStream
  <2>3. Posted' <=> Posted
    BY <1>5 DEF Posted
  <2> QED
    BY <1>2, <1>3, <1>4, <1>5, <2>1, <2>2, <2>3 DEF OneReply
<1>6. CASE /\ kind = "query" /\ id = requestSequence /\ ~InStream /\ ~InQueue /\ ~InHand
            /\ owner' = "WAIT_REPLY" /\ mailbox.commit # requestSequence
            /\ requestSequence > 0
  <2>1. \A i \in 1 .. Len(stream') : Asked(i)' => i = Len(stream) + 1
                                                   /\ stream'[i].id = requestSequence
    BY <1>1, <1>6 DEF InStream
  <2>2. ~Posted' /\ owner' = "WAIT_REPLY"
    BY <1>6 DEF Posted
  <2>3. ~InQueue' /\ ~InHand'
    BY <1>4, <1>6
  <2> QED
    BY <1>2, <1>3, <1>6, <2>1, <2>2, <2>3 DEF OneReply, InQueue, InHand
<1> QED
  BY <1>5, <1>6

\* The intake takes the read in its hands, or leaves it to the worker.
LEMMA OneReplyTake ==
  ASSUME TypeOK, TypeOK', OneReply, Take
  PROVE  OneReply'
<1> DEFINE x == stream[1]
<1>1. /\ active /\ Len(stream) \in Nat /\ Len(stream) > 0
      /\ Len(stream') = Len(stream) - 1
      /\ \A i \in 1 .. Len(stream') : stream'[i] = stream[i + 1]
      /\ pc["intake"] = "run"
      /\ UNCHANGED <<active, owner, requestSequence, mailbox>>
  BY TakeFacts DEF ownerVars
<1>2. \A i \in 1 .. Len(stream') :
        /\ i + 1 \in 1 .. Len(stream) /\ i + 1 # 1
        /\ (Asked(i)' <=> Asked(i + 1)) /\ stream'[i].id = stream[i + 1].id
  BY <1>1 DEF Asked
<1>3. 1 \in 1 .. Len(stream)
  BY <1>1
<1>4. InStream' => InStream
  BY <1>2 DEF InStream
<1>5. Asked(1) => ~InStream'
  <2> SUFFICES ASSUME Asked(1), NEW i \in 1 .. Len(stream'), Asked(i)' PROVE FALSE
    BY DEF InStream
  <2>1. Asked(i + 1) /\ i + 1 \in 1 .. Len(stream) /\ i + 1 # 1
    BY <1>2
  <2> QED
    BY <1>1, <1>3, <2>1 DEF OneReply
<1>6. Asked(1) => InStream /\ x.id = requestSequence /\ owner = "WAIT_REPLY" /\ ~Posted
                  /\ ~InQueue /\ ~InHand
  BY <1>1, <1>3 DEF InStream, OneReply
<1>7. ASSUME NEW i \in 1 .. Len(stream'), NEW j \in 1 .. Len(stream'),
             Asked(i)', Asked(j)'
      PROVE  i = j /\ stream'[i].id = requestSequence
  <2>1. /\ i + 1 \in 1 .. Len(stream) /\ j + 1 \in 1 .. Len(stream)
        /\ Asked(i + 1) /\ Asked(j + 1) /\ stream'[i].id = stream[i + 1].id
    BY <1>2, <1>7
  <2>2. i + 1 = j + 1 /\ stream[i + 1].id = requestSequence
    BY <1>1, <2>1 DEF OneReply
  <2> QED
    BY <1>1, <2>1, <2>2
<1>8. Posted' <=> Posted
  BY <1>1 DEF Posted
<1>9. CASE x.kind = "query" /\ queue' = queue
           /\ pc' = [pc EXCEPT !["intake"] = "clear"]
           /\ reply' = [reply EXCEPT !["intake"] =
                [id |-> x.id, busy |-> FALSE, matrix |-> prefix'.matrix]]
  <2>1. Asked(1)
    BY <1>9 DEF Asked
  <2>2. \A i \in 1 .. Len(queue') : ~Left(i)'
    BY <1>6, <1>9, <2>1 DEF Left, InQueue
  <2>3. \A t \in Threads : Held(t)' => t = "intake"
    BY <1>6, <1>9, <2>1 DEF Held, InHand, TypeOK
  <2>4. reply'["intake"].id = requestSequence
    BY <1>6, <1>9, <2>1 DEF TypeOK, Threads
  <2>5. ~InQueue' /\ ~InStream'
    BY <1>5, <2>1, <2>2 DEF InQueue
  <2>6. \A i \in 1 .. Len(stream') : ~Asked(i)'
    BY <2>5 DEF InStream
  <2> QED
    BY <1>1, <1>6, <1>8, <2>1, <2>2, <2>3, <2>4, <2>5, <2>6 DEF OneReply
<1>10. CASE queue' = Append(queue, Entry(x, prefix', FALSE)) /\ pc' = pc /\ reply' = reply
  <2> DEFINE y == Entry(x, prefix', FALSE)
  <2>1. y \in Entries /\ y.kind = x.kind /\ y.id = x.id /\ ~y.fast
    <3>1. x.kind \in Kinds /\ x.id \in Nat /\ prefix' \in Shadows
      BY TakeFacts
    <3>2. prefix'.valid \in BOOLEAN /\ prefix'.matrix \in Nat
      BY <3>1 DEF Shadows
    <3> QED
      BY <3>1, <3>2 DEF Entry, Entries
  <2> HIDE DEF y
  <2>2. /\ Len(queue') = Len(queue) + 1 /\ Len(queue) \in Nat
        /\ \A i \in 1 .. Len(queue) : (Left(i)' <=> Left(i))
                                      /\ queue'[i].id = queue[i].id
        /\ queue'[Len(queue) + 1].kind = x.kind /\ queue'[Len(queue) + 1].id = x.id
    <3>1. PICK w \in Entries : w = y
      BY <2>1
    <3>2. queue' = Append(queue, w)
      BY <1>10, <3>1 DEF y
    <3> QED
      BY <2>1, <3>1, <3>2, AppendLeft
  <2>3. \A t \in Threads : Held(t)' <=> Held(t)
    BY <1>10 DEF Held
  <2>4. InHand' <=> InHand
    BY <2>3 DEF InHand
  <2>5. CASE Asked(1)
    <3>1. \A i \in 1 .. Len(queue') : Left(i)' => i = Len(queue) + 1
      BY <1>6, <2>2, <2>5 DEF InQueue
    <3>2. \A i \in 1 .. Len(stream') : ~Asked(i)'
      BY <1>5, <2>5 DEF InStream
    <3>3. ~InStream' /\ ~InHand'
      BY <1>5, <1>6, <2>4, <2>5
    <3>4. \A t \in Threads : ~Held(t)'
      BY <3>3 DEF InHand
    <3> QED
      BY <1>1, <1>6, <1>8, <2>2, <2>5, <3>1, <3>2, <3>3, <3>4 DEF OneReply
  <2>6. CASE ~Asked(1)
    <3>1. ASSUME NEW i \in 1 .. Len(queue'), Left(i)'
          PROVE  i \in 1 .. Len(queue) /\ Left(i) /\ queue'[i].id = queue[i].id
      <4>1. i # Len(queue) + 1
        BY <2>2, <2>6, <3>1 DEF Asked, Left
      <4>2. i \in 1 .. Len(queue)
        BY <2>2, <4>1
      <4> QED
        BY <2>2, <3>1, <4>2
    <3>2. InQueue' => InQueue
      BY <3>1 DEF InQueue
    <3> QED
      BY <1>1, <1>4, <1>7, <1>8, <1>10, <2>3, <2>4, <3>1, <3>2 DEF OneReply
  <2> QED
    BY <2>5, <2>6
<1> QED
  BY <1>9, <1>10, TakeFacts

\* The thread that writes has the read, and nothing is posted yet.
LEMMA OneReplyWrite ==
  ASSUME TypeOK, TypeOK', OneReply, active, NEW t \in Threads, Clear(t) \/ Payload(t)
  PROVE  OneReply' /\ ~Posted /\ ~Posted' /\ owner = "WAIT_REPLY"
<1>1. /\ mailbox'.commit \in {0, mailbox.commit}
      /\ Held(t) /\ pc'[t] \in Publishing /\ \A u \in Threads \ {t} : pc'[u] = pc[u]
      /\ UNCHANGED <<active, owner, requestSequence, stream, queue, reply>>
  BY WriteFacts DEF fpga, ownerVars
<1>2. /\ owner = "WAIT_REPLY" /\ ~Posted /\ requestSequence > 0
      /\ mailbox.commit <= requestSequence
  BY <1>1 DEF OneReply, InHand
<1>3. ~Posted'
  BY <1>1, <1>2 DEF Posted
<1>4. mailbox'.commit <= requestSequence
  BY <1>1, <1>2 DEF TypeOK
<1>5. \A u \in Threads : Held(u)' <=> Held(u)
  BY <1>1 DEF Held
<1>6. /\ \A i \in 1 .. Len(stream) : Asked(i)' <=> Asked(i)
      /\ \A i \in 1 .. Len(queue) : Left(i)' <=> Left(i)
  BY <1>1 DEF Asked, Left
<1>7. (InStream' <=> InStream) /\ (InQueue' <=> InQueue) /\ (InHand' <=> InHand)
  BY <1>1, <1>5, <1>6 DEF InStream, InQueue, InHand
<1>8. OneReply'
  BY <1>1, <1>2, <1>3, <1>4, <1>5, <1>6, <1>7 DEF OneReply
<1> QED
  BY <1>2, <1>3, <1>8

\* The commit word ends the way of the read.
LEMMA OneReplyCommit ==
  ASSUME TypeOK, TypeOK', OneReply, NEW t \in Threads, Commit(t)
  PROVE  OneReply' /\ ~Posted /\ Posted'
<1>1. /\ active /\ pc[t] = "commit" /\ pc' = [pc EXCEPT ![t] = "run"]
      /\ mailbox'.commit = reply[t].id
      /\ UNCHANGED <<active, owner, requestSequence, stream>>
      /\ Entry([kind |-> "query", id |-> reply[t].id], prefix, TRUE) \in Entries
      /\ queue' = IF t = "replay" THEN queue
                  ELSE Append(queue, Entry([kind |-> "query", id |-> reply[t].id],
                                           prefix, TRUE))
  BY CommitFacts DEF fpga, ownerVars
<1>2. Held(t)
  BY <1>1 DEF Held, Publishing
<1>3. /\ owner = "WAIT_REPLY" /\ ~Posted /\ ~InStream /\ ~InQueue
      /\ reply[t].id = requestSequence /\ \A u \in Threads : Held(u) => u = t
  BY <1>1, <1>2 DEF OneReply, InHand
<1>4. \A u \in Threads : ~Held(u)'
  BY <1>1, <1>3 DEF Held, Publishing, TypeOK
<1>5. \A i \in 1 .. Len(stream) : ~Asked(i)'
  BY <1>1, <1>3 DEF InStream, Asked
<1>6. \A i \in 1 .. Len(queue') : ~Left(i)'
  <2>1. CASE t = "replay"
    BY <1>1, <1>3, <2>1 DEF Left, InQueue
  <2>2. CASE t # "replay"
    <3>1. PICK x \in Entries :
            x = Entry([kind |-> "query", id |-> reply[t].id], prefix, TRUE)
      BY <1>1
    <3>2. queue' = Append(queue, x) /\ x.fast
      BY <1>1, <2>2, <3>1 DEF Entry
    <3>3. /\ Len(queue') = Len(queue) + 1 /\ Len(queue) \in Nat
          /\ \A i \in 1 .. Len(queue) : Left(i)' <=> Left(i)
          /\ queue'[Len(queue) + 1] = x
      BY <3>2, AppendLeft
    <3> SUFFICES ASSUME NEW i \in 1 .. Len(queue') PROVE ~Left(i)'
      OBVIOUS
    <3>4. CASE i = Len(queue) + 1
      BY <3>2, <3>3, <3>4 DEF Left
    <3>5. CASE i \in 1 .. Len(queue)
      BY <1>3, <3>3, <3>5 DEF InQueue
    <3> QED
      BY <3>3, <3>4, <3>5
  <2> QED
    BY <2>1, <2>2
<1>7. ~InStream' /\ ~InQueue' /\ ~InHand'
  BY <1>1, <1>4, <1>5, <1>6 DEF InStream, InQueue, InHand
<1>8. requestSequence > 0 /\ mailbox'.commit <= requestSequence
  BY <1>1, <1>3 DEF OneReply, TypeOK
<1>9. OneReply'
  BY <1>1, <1>3, <1>4, <1>5, <1>6, <1>7, <1>8 DEF OneReply
<1> QED
  BY <1>1, <1>3, <1>9 DEF Posted

\* The worker takes the read in its hands.
LEMMA OneReplyApply ==
  ASSUME TypeOK, TypeOK', OneReply, active, Apply, ~Disagrees(queue[1], engine')
  PROVE  OneReply'
<1>1. /\ pc["replay"] = "run"
      /\ Len(queue) \in Nat /\ Len(queue) > 0 /\ Len(queue') = Len(queue) - 1
      /\ \A i \in 1 .. Len(queue') : queue'[i] = queue[i + 1]
      /\ UNCHANGED <<active, owner, requestSequence, stream, mailbox>>
  BY ApplyFacts DEF fpga, ownerVars
<1>2. \A i \in 1 .. Len(queue') :
        /\ i + 1 \in 1 .. Len(queue) /\ i + 1 # 1
        /\ (Left(i)' <=> Left(i + 1)) /\ queue'[i].id = queue[i + 1].id
  BY <1>1 DEF Left
<1>3. 1 \in 1 .. Len(queue)
  BY <1>1
<1>4. InQueue' => InQueue
  BY <1>2 DEF InQueue
<1>5. ASSUME NEW i \in 1 .. Len(queue'), NEW j \in 1 .. Len(queue'), Left(i)', Left(j)'
      PROVE  i = j /\ queue'[i].id = requestSequence /\ ~Left(1)
  <2>1. /\ i + 1 \in 1 .. Len(queue) /\ j + 1 \in 1 .. Len(queue)
        /\ Left(i + 1) /\ Left(j + 1) /\ queue'[i].id = queue[i + 1].id
    BY <1>2, <1>5
  <2>2. /\ i + 1 = j + 1 /\ queue[i + 1].id = requestSequence
        /\ Left(1) => 1 = i + 1
    BY <1>1, <1>3, <2>1 DEF OneReply
  <2> QED
    BY <1>1, <2>1, <2>2
<1>6. /\ \A i \in 1 .. Len(stream) : Asked(i)' <=> Asked(i)
      /\ Posted' <=> Posted
  BY <1>1 DEF Asked, Posted
<1>7. InStream' <=> InStream
  BY <1>1, <1>6 DEF InStream
<1>8. CASE /\ Left(1) /\ pc' = [pc EXCEPT !["replay"] = "clear"]
           /\ reply'["replay"].id = queue[1].id
  <2>1. /\ InQueue /\ owner = "WAIT_REPLY" /\ ~Posted /\ ~InStream /\ ~InHand
        /\ queue[1].id = requestSequence
    BY <1>3, <1>8 DEF OneReply, InQueue
  <2>2. \A i \in 1 .. Len(queue') : ~Left(i)'
    BY <1>5, <1>8
  <2>3. \A t \in Threads : Held(t)' => t = "replay"
    BY <1>8, <2>1 DEF Held, InHand, TypeOK
  <2>4. ~InStream' /\ ~InQueue' /\ \A i \in 1 .. Len(stream') : ~Asked(i)'
    BY <1>1, <1>6, <1>7, <2>1, <2>2 DEF InQueue, InStream
  <2> QED
    BY <1>1, <1>6, <1>8, <2>1, <2>2, <2>3, <2>4 DEF OneReply
<1>9. CASE /\ pc' = [pc EXCEPT !["replay"] = "run"]
           /\ reply'["intake"] = reply["intake"]
  <2>1. \A t \in Threads : Held(t)' <=> Held(t)
    BY <1>1, <1>9 DEF Held, TypeOK, Publishing
  <2>2. ~Held("replay")
    BY <1>1 DEF Held, Publishing
  <2>3. \A t \in Threads : Held(t)' => Held(t) /\ reply'[t].id = reply[t].id
    BY <1>9, <2>1, <2>2 DEF Threads
  <2>4. InHand' <=> InHand
    BY <2>1 DEF InHand
  <2> QED
    BY <1>1, <1>4, <1>5, <1>6, <1>7, <2>3, <2>4 DEF OneReply
<1>10. \/ Left(1) /\ pc' = [pc EXCEPT !["replay"] = "clear"]
          /\ reply' = [reply EXCEPT !["replay"] =
                    [id |-> queue[1].id, busy |-> Busy(engine') \/ engine'.owed > 0,
                     matrix |-> engine'.matrix]]
       \/ pc' = [pc EXCEPT !["replay"] = "run"]
          /\ reply' = [reply EXCEPT !["replay"] = NoReply]
  BY ApplyFacts
<1>11. \/ Left(1) /\ pc' = [pc EXCEPT !["replay"] = "clear"]
          /\ reply'["replay"].id = queue[1].id
       \/ pc' = [pc EXCEPT !["replay"] = "run"] /\ reply'["intake"] = reply["intake"]
  <2>1. reply \in [Threads -> Replies] /\ "replay" \in Threads /\ "intake" \in Threads
    BY DEF TypeOK, Threads
  <2> QED
    BY <1>10, <2>1
<1> QED
  BY <1>8, <1>9, <1>11

\* A read is in one place through every step.
LEMMA OneReplyStep ==
  ASSUME TypeOK, TypeOK', SessionInv, OneReply, ScanInv, ~faulted, ~faulted', [Next]_vars
  PROVE  OneReply'
<1> USE DEF fpga, service, history, ownerVars, scannerVars
<1>1. ASSUME NEW kind \in Commands, Write(kind) PROVE OneReply'
  <2>1. kind \in Kinds /\ kind # "query" /\ 0 \in Nat
    BY DEF Commands, Kinds
  <2> QED
    BY <1>1, <2>1, OneReplyPost DEF Write
<1>2. CASE VBlank
  <2>1. "vblank" \in Kinds /\ "vblank" # "query" /\ 0 \in Nat
    BY DEF Kinds
  <2> QED
    BY <1>2, <2>1, OneReplyPost DEF VBlank
<1>3. CASE ReadCached \/ ReadRequest \/ ReadExhausted \/ Complete \/ TakeReply
  <2>1. /\ active /\ UNCHANGED <<stream, queue, active, pc, reply, mailbox>>
        /\ \A i \in 1 .. Len(stream) : Asked(i)' <=> Asked(i)
    BY <1>3 DEF ReadCached, ReadRequest, ReadExhausted, Complete, TakeReply, OwnerMoves,
      Asked
  <2>2. owner # "WAIT_REPLY" \/ Posted
    <3>1. CASE TakeReply
      <4>1. response = requestSequence /\ owner = "WAIT_REPLY"
        BY <3>1 DEF TakeReply, OwnerMoves
      <4>2. response # 0
        BY <2>1, <4>1 DEF OneReply, TypeOK
      <4> QED
        BY <4>2 DEF ScanInv
    <3> QED
      BY <1>3, <3>1 DEF ReadCached, ReadRequest, ReadExhausted, Complete, OwnerMoves
  <2>3. ~InStream /\ ~InQueue /\ ~InHand /\ mailbox.commit <= requestSequence
    BY <2>1, <2>2 DEF OneReply
  <2>4. CASE ReadRequest
    <3>1. requestSequence' = requestSequence + 1 /\ owner' = "ISSUE"
      BY <2>4 DEF ReadRequest, OwnerMoves
    <3>2. mailbox'.commit <= requestSequence' /\ mailbox'.commit < requestSequence'
      <4>1. mailbox.commit \in Nat /\ requestSequence \in Nat /\ mailbox' = mailbox
        BY <2>1 DEF TypeOK, Mailboxes
      <4> QED
        BY <2>3, <3>1, <4>1
    <3> QED
      BY <2>1, <2>3, <3>1, <3>2, OneReplyQuiet
  <2>5. CASE ~ReadRequest
    <3>1. /\ requestSequence' = requestSequence
          /\ owner' # "ISSUE" /\ owner' # "WAIT_REPLY"
      BY <1>3, <2>5 DEF ReadCached, ReadExhausted, Complete, TakeReply, OwnerMoves
    <3> QED
      BY <2>1, <2>3, <3>1, OneReplyQuiet
  <2> QED
    BY <2>4, <2>5
<1>4. CASE Issue
  <2>1. /\ active /\ owner = "ISSUE" /\ owner' = "WAIT_REPLY"
        /\ Post("query", requestSequence)
        /\ UNCHANGED <<queue, active, pc, reply, requestSequence, mailbox>>
    BY <1>4 DEF Issue, OwnerMoves
  <2>2. /\ ~InStream /\ ~InQueue /\ ~InHand /\ mailbox.commit < requestSequence
        /\ requestSequence \in Nat /\ mailbox.commit \in Nat
    BY <2>1 DEF OneReply, TypeOK, Mailboxes
  <2>3. mailbox.commit # requestSequence /\ requestSequence > 0
    BY <2>2
  <2>4. "query" \in Kinds
    BY DEF Kinds
  <2> QED
    BY <2>1, <2>2, <2>3, <2>4, OneReplyPost
<1>5. CASE Scanner
  <2>1. /\ UNCHANGED <<stream, queue, active, pc, reply, owner, requestSequence, mailbox>>
        /\ \A i \in 1 .. Len(stream) : Asked(i)' <=> Asked(i)
    BY <1>5, ScannerFacts DEF Asked
  <2> QED
    BY <2>1, OneReplyQuiet DEF OneReply
<1>6. CASE Take
  BY <1>6, OneReplyTake
<1>7. ASSUME NEW t \in Threads, Clear(t) \/ Payload(t) PROVE OneReply'
  <2>1. active' = active
    BY <1>7, WriteFacts
  <2> QED
    BY <1>7, <2>1, OneReplyWrite DEF OneReply
<1>8. ASSUME NEW t \in Threads, Commit(t) PROVE OneReply'
  BY <1>8, OneReplyCommit
<1>9. CASE Apply
  <2>1. ~Disagrees(queue[1], engine') /\ active' = active
    BY <1>9, ApplyFacts
  <2> QED
    BY <1>9, <2>1, OneReplyApply DEF OneReply
<1>10. CASE Stop
  <2>1. active' = active
    BY <1>10 DEF Stop, Gone
  <2>2. ~active
    BY <1>10, NotGone
  <2> QED
    BY <2>1, <2>2 DEF OneReply
<1>11. CASE EndSession
  BY <1>11 DEF EndSession, OneReply
<1>12. CASE NewSession
  <2>1. /\ stream' = <<>> /\ queue' = <<>> /\ owner' = "IDLE"
        /\ mailbox' = [mailbox EXCEPT !.commit = 0]
        /\ pc' = [t \in Threads |-> "run"]
    BY <1>12 DEF NewSession, SessionInv, Invalidated
  <2>2. Len(stream') = 0 /\ Len(queue') = 0 /\ mailbox'.commit = 0
    BY <2>1, EmptySeq DEF TypeOK, Mailboxes
  <2>3. \A t \in Threads : ~Held(t)'
    BY <2>1 DEF Held, Publishing
  <2>4. ~InStream' /\ ~InQueue' /\ ~InHand'
    BY <2>2, <2>3 DEF InStream, InQueue, InHand
  <2>5. mailbox'.commit <= requestSequence'
    BY <2>2 DEF TypeOK
  <2> QED
    BY <2>1, <2>2, <2>3, <2>4, <2>5 DEF OneReply
<1>13. CASE UNCHANGED vars
  <2>1. /\ UNCHANGED <<stream, queue, active, pc, reply, owner, requestSequence, mailbox>>
        /\ \A i \in 1 .. Len(stream) : Asked(i)' <=> Asked(i)
    BY <1>13 DEF vars, Asked
  <2> QED
    BY <2>1, OneReplyQuiet DEF OneReply
<1> QED
  BY <1>1, <1>2, <1>3, <1>4, <1>5, <1>6, <1>7, <1>8, <1>9, <1>10, <1>11, <1>12, <1>13
  DEF Next, Console, Owner, Intake, Replay, Writer, Commands, Threads

-----------------------------------------------------------------------------
(* The scanner and the mailbox                                             *)

\* The scanner is idle.
LEMMA ScanInit == Init => ScanInv
BY DEF Init, ScanInv, Filling

\* The reply is not touched while the scanner has parts of it.
LEMMA ScanStep ==
  ASSUME TypeOK, TypeOK', SessionInv, OneReply, ScanInv, ~faulted, ~faulted', [Next]_vars
  PROVE  ScanInv'
<1> USE DEF fpga, service, history, ownerVars, scannerVars
<1>1. ASSUME UNCHANGED <<owner, requestSequence, mailbox, cachedBusy, scannerVars>>
      PROVE  ScanInv'
  <2>1. Posted' <=> Posted
    BY <1>1 DEF Posted
  <2> QED
    BY <1>1, <2>1 DEF ScanInv
<1>2. ASSUME NEW kind \in Commands, Write(kind) PROVE ScanInv'
  BY <1>1, <1>2 DEF Write
<1>3. CASE VBlank
  BY <1>1, <1>3 DEF VBlank
<1>4. CASE ReadCached \/ ReadRequest \/ ReadExhausted \/ Complete
  <2>1. owner # "WAIT_REPLY" /\ UNCHANGED <<phase, response>>
    BY <1>4 DEF ReadCached, ReadRequest, ReadExhausted, Complete, OwnerMoves
  <2>2. phase' = "IDLE" /\ response' = 0
    BY <2>1 DEF ScanInv, Posted
  <2> QED
    BY <2>2 DEF ScanInv, Filling
<1>5. CASE Issue
  <2>1. /\ phase' = "POLL_HEADER" /\ owner' = "WAIT_REPLY" /\ owner = "ISSUE"
        /\ response' = response
    BY <1>5 DEF Issue, OwnerMoves
  <2>2. response' = 0
    BY <2>1 DEF ScanInv, Posted
  <2> QED
    BY <2>1, <2>2 DEF ScanInv, Filling
<1>6. CASE TakeReply
  <2>1. /\ response' = 0 /\ phase' = phase
        /\ active /\ owner = "WAIT_REPLY" /\ response = requestSequence
    BY <1>6 DEF TakeReply, OwnerMoves
  <2>2. response # 0
    BY <2>1 DEF OneReply, TypeOK
  <2>3. phase' = "IDLE"
    BY <2>1, <2>2 DEF ScanInv
  <2> QED
    BY <2>1, <2>3 DEF ScanInv, Filling
<1>7. CASE Scanner
  <2>1. /\ UNCHANGED <<owner, requestSequence, mailbox>>
        /\ phase # "IDLE"
    BY <1>7, ScannerFacts
  <2>2. owner = "WAIT_REPLY" /\ response = 0 /\ (Posted' <=> Posted)
    BY <2>1 DEF ScanInv, Posted
  <2>3. phase' # "IDLE" => response' = 0
    BY <1>7, <2>2, ScannerFacts
  <2>4. phase' \in Filling => Posted'
    BY <1>7, <2>1, <2>2, ScannerFacts DEF Filling, ScanInv, Posted
  <2>5. phase' \in {"FILL_MATRIX", "FILL_COMMIT", "VERIFY_COMMIT"}
          => cachedBusy' = mailbox'.busy
    BY <1>7, <2>1, ScannerFacts DEF ScanInv
  <2>6. phase' \in {"FILL_COMMIT", "VERIFY_COMMIT"} => cache' = mailbox'.matrix
    BY <1>7, <2>1, ScannerFacts DEF ScanInv
  <2>7. response' # 0 => /\ response' = requestSequence' /\ Posted'
                         /\ cachedBusy' = mailbox'.busy /\ cache' = mailbox'.matrix
    <3> SUFFICES ASSUME response' # 0
                 PROVE  /\ response' = requestSequence' /\ Posted'
                        /\ cachedBusy' = mailbox'.busy /\ cache' = mailbox'.matrix
      OBVIOUS
    <3>1. /\ phase = "VERIFY_COMMIT" /\ response' = requestSequence
          /\ UNCHANGED <<cachedBusy, cache>>
      BY <1>7, <2>2, ScannerFacts
    <3> QED
      BY <2>1, <2>2, <3>1 DEF ScanInv, Filling
  <2> QED
    BY <2>1, <2>2, <2>3, <2>4, <2>5, <2>6, <2>7 DEF ScanInv
<1>8. CASE Take
  BY <1>1, <1>8, TakeFacts
<1>9. ASSUME NEW t \in Threads, Clear(t) \/ Payload(t) PROVE ScanInv'
  <2>1. UNCHANGED <<active, owner, phase, response>>
    BY <1>9, WriteFacts
  <2>2. CASE active
    <3>1. ~Posted
      BY <1>9, <2>2, OneReplyWrite, <2>1 DEF OneReply
    <3>2. phase \notin Filling /\ response = 0
      BY <3>1 DEF ScanInv
    <3> QED
      BY <2>1, <3>2 DEF ScanInv, Filling
  <2>3. CASE ~active
    BY <2>1, <2>3 DEF SessionInv, ScanInv, Filling
  <2> QED
    BY <2>2, <2>3
<1>10. ASSUME NEW t \in Threads, Commit(t) PROVE ScanInv'
  <2>1. UNCHANGED <<owner, phase, response>> /\ ~Posted
    BY <1>10, CommitFacts, OneReplyCommit
  <2>2. phase \notin Filling /\ response = 0
    BY <2>1 DEF ScanInv
  <2> QED
    BY <2>1, <2>2 DEF ScanInv, Filling
<1>11. CASE Apply
  BY <1>1, <1>11, ApplyFacts
<1>12. CASE Stop
  BY <1>1, <1>12 DEF Stop, Gone
<1>13. CASE EndSession
  BY <1>13 DEF EndSession, ScanInv, Filling
<1>14. CASE NewSession
  <2>1. phase' = "IDLE" /\ response' = 0
    BY <1>14 DEF NewSession, SessionInv
  <2> QED
    BY <2>1 DEF ScanInv, Filling
<1>15. CASE UNCHANGED vars
  BY <1>1, <1>15 DEF vars
<1> QED
  BY <1>2, <1>3, <1>4, <1>5, <1>6, <1>7, <1>8, <1>9, <1>10, <1>11, <1>12, <1>13, <1>14,
     <1>15
  DEF Next, Console, Owner, Intake, Replay, Writer, Commands, Threads

-----------------------------------------------------------------------------
(* What may be answered                                                    *)

\* There is nothing to answer.
LEMMA ReadInit == Init => ReadInv
<1> SUFFICES ASSUME Init PROVE ReadInv
  OBVIOUS
<1>1. \A t \in Threads : pc[t] = "run" /\ ~Held(t)
  BY DEF Init, Held, Publishing
<1>2. ~Held("replay") /\ ~Held("intake")
  BY <1>1 DEF Threads
<1> QED
  BY <1>1, <1>2 DEF Init, ReadInv, Posted

\* The words of a reply are as they were.
LEMMA ReadQuiet ==
  ASSUME TypeOK, TypeOK', ReadInv, active, active',
         lastRead' <= sent' /\ wanted' <= sent',
         \/ /\ owner # "WAIT_REPLY" \/ Posted
            /\ ~InHand /\ ~Posted'
         \/ UNCHANGED <<owner, requestSequence, lastRead, wanted>>,
         UNCHANGED <<mailbox, pc, reply, engine>>,
         owner' = "WAIT_REPLY" => /\ lastRead' <= wanted'
                                  /\ requestInvalidated' \/ wanted' = sent',
         owner' \in {"IDLE", "CACHE"} /\ cachedValid' => cachedBusy' \/ cache' = sent',
         owner' = "CACHE" => Right(cachedBusy, cache)'
  PROVE  ReadInv'
<1>1. \A t \in Threads : Held(t)' <=> Held(t)
  BY DEF Held
<1>2. (Held("replay")' <=> Held("replay")) /\ (Held("intake")' <=> Held("intake"))
  BY <1>1 DEF Threads
<1>3. ASSUME ~InHand, ~Posted' PROVE ReadInv'
  <2>1. \A t \in Threads : ~Held(t)' /\ pc'[t] \notin {"matrix", "commit"}
    BY <1>1, <1>3 DEF InHand, Held, Publishing
  <2>2. ~Held("replay")' /\ ~Held("intake")'
    BY <2>1 DEF Threads
  <2> QED
    BY <1>3, <2>1, <2>2 DEF ReadInv
<1>4. ASSUME UNCHANGED <<owner, requestSequence, lastRead, wanted>> PROVE ReadInv'
  <2>1. Posted' <=> Posted
    BY <1>4 DEF Posted
  <2>2. Posted' => Right(mailbox.busy, mailbox.matrix)'
    BY <1>4, <2>1 DEF ReadInv, Right
  <2>3. ASSUME NEW t \in Threads
        PROVE  /\ Held(t)' => Right(reply[t].busy, reply[t].matrix)'
               /\ pc'[t] \in {"matrix", "commit"} => mailbox'.busy = reply'[t].busy
               /\ pc'[t] = "commit" => mailbox'.matrix = reply'[t].matrix
    BY <1>1, <1>4, <2>3 DEF ReadInv, Right
  <2>4. /\ Held("replay")' => reply'["replay"].matrix <= engine'.matrix
        /\ Held("intake")' => reply'["intake"].busy = FALSE
    BY <1>2 DEF ReadInv
  <2> QED
    BY <2>2, <2>3, <2>4 DEF ReadInv
<1> QED
  BY <1>3, <1>4

\* The words in the mailbox are those of the reply in hand.
LEMMA ReadWrite ==
  ASSUME TypeOK, TypeOK', OneReply, ReadInv, active, NEW t \in Threads,
         Clear(t) \/ Payload(t)
  PROVE  ReadInv'
<1>1. /\ UNCHANGED <<fpga, history, reply, engine>>
      /\ Held(t) /\ \A u \in Threads \ {t} : pc'[u] = pc[u]
  BY WriteFacts
<1>2. ~Posted' /\ \A u \in Threads : Held(u) => u = t
  BY <1>1, OneReplyWrite DEF OneReply
<1>3. \/ pc'[t] \in {"header", "status"}
      \/ pc'[t] = "matrix" /\ mailbox'.busy = reply[t].busy
      \/ /\ pc[t] = "matrix" /\ pc'[t] = "commit"
         /\ mailbox'.busy = mailbox.busy /\ mailbox'.matrix = reply[t].matrix
  <2>1. \/ pc' = [pc EXCEPT ![t] = "header"]
        \/ pc' = [pc EXCEPT ![t] = "status"]
        \/ pc' = [pc EXCEPT ![t] = "matrix"] /\ mailbox'.busy = reply[t].busy
        \/ /\ pc[t] = "matrix" /\ pc' = [pc EXCEPT ![t] = "commit"]
           /\ mailbox'.busy = mailbox.busy /\ mailbox'.matrix = reply[t].matrix
    BY WriteFacts
  <2>2. pc \in [Threads -> Publishing \cup {"run", "gone"}]
    BY DEF TypeOK
  <2> QED
    BY <2>1, <2>2
<1>4. ASSUME NEW u \in Threads
      PROVE  /\ Held(u)' => Held(u)
             /\ pc'[u] \in {"matrix", "commit"} => mailbox'.busy = reply'[u].busy
             /\ pc'[u] = "commit" => mailbox'.matrix = reply'[u].matrix
  <2>1. CASE u = t
    BY <1>1, <1>3, <2>1 DEF ReadInv
  <2>2. CASE u # t
    BY <1>1, <1>2, <2>2 DEF Held, Publishing
  <2> QED
    BY <2>1, <2>2
<1>5. \A u \in Threads : Held(u)' => Right(reply[u].busy, reply[u].matrix)'
  BY <1>1, <1>4 DEF ReadInv, Right, history
<1>6. /\ Held("replay")' => reply'["replay"].matrix <= engine'.matrix
      /\ Held("intake")' => reply'["intake"].busy = FALSE
  BY <1>1, <1>4 DEF ReadInv, Threads
<1> QED
  BY <1>1, <1>2, <1>4, <1>5, <1>6
  DEF ReadInv, Right, fpga, history, ownerVars, scannerVars

\* What is posted is what was in hand.
LEMMA ReadCommit ==
  ASSUME TypeOK, TypeOK', OneReply, ReadInv, NEW t \in Threads, Commit(t)
  PROVE  ReadInv'
<1>1. /\ active /\ pc[t] = "commit" /\ pc' = [pc EXCEPT ![t] = "run"]
      /\ mailbox'.busy = mailbox.busy /\ mailbox'.matrix = mailbox.matrix
      /\ UNCHANGED <<fpga, history>>
  BY CommitFacts
<1>2. Held(t)
  BY <1>1 DEF Held, Publishing
<1>3. \A u \in Threads : Held(u) => u = t
  BY <1>1, <1>2 DEF OneReply
<1>4. \A u \in Threads : ~Held(u)' /\ pc'[u] \notin {"matrix", "commit"}
  BY <1>1, <1>3 DEF Held, Publishing, TypeOK
<1>5. ~Held("replay")' /\ ~Held("intake")'
  BY <1>4 DEF Threads
<1>6. Right(mailbox.busy, mailbox.matrix)'
  BY <1>1, <1>2 DEF ReadInv, Right, history
<1> QED
  BY <1>1, <1>4, <1>5, <1>6
  DEF ReadInv, Right, fpga, history, ownerVars, scannerVars

\* The intake answers with a shadow that has taken all that the read is behind.
LEMMA ReadTake ==
  ASSUME TypeOK, TypeOK', OneReply, OneReply', ReadInv, Chained', Take
  PROVE  ReadInv'
<1>1. /\ active /\ pc["intake"] = "run" /\ Len(stream) \in Nat /\ Len(stream) > 0
      /\ prefix' \in Shadows
      /\ UNCHANGED <<session, active, ownerVars, scannerVars, mailbox, engine, faulted,
                     history>>
  BY TakeFacts
<1>2. CASE pc' = pc /\ reply' = reply
  BY <1>1, <1>2, ReadQuiet DEF ReadInv, Right, ownerVars, scannerVars, history
<1>3. CASE /\ stream[1].kind = "query" /\ Settled(prefix')
           /\ pc' = [pc EXCEPT !["intake"] = "clear"]
           /\ reply' = [reply EXCEPT !["intake"] =
                 [id |-> stream[1].id, busy |-> FALSE, matrix |-> prefix'.matrix]]
  <2>1. 1 \in 1 .. Len(stream) /\ Asked(1)
    BY <1>1, <1>3 DEF Asked
  <2>2. owner = "WAIT_REPLY" /\ ~Posted
    BY <1>1, <2>1 DEF OneReply, InStream
  <2>3. pc'["intake"] = "clear" /\ Held("intake")'
    BY <1>3 DEF TypeOK, Threads, Held, Publishing
  <2>4. /\ reply'["intake"].busy = FALSE /\ reply'["intake"].matrix = prefix'.matrix
    BY <1>3 DEF TypeOK, Threads
  <2>5. prefix'.matrix = wanted
    <3>1. PICK T, D, C : Chain(T, D, C)'
      BY DEF Chained
    <3>2. /\ prefix' = ShadowBy(T[Len(queue')], "query") /\ prefix'.valid
          /\ D[Len(queue')] = wanted' /\ T[Len(queue')] \in Shadows
          /\ T[Len(queue')].valid =>
               T[Len(queue')].matrix + Loads(T[Len(queue')].pending) = D[Len(queue')]
      <4>1. Len(queue') \in Nat
        BY LenProperties DEF TypeOK
      <4>2. Len(queue') \in 0 .. Len(queue')
        BY <4>1
      <4> QED
        BY <1>1, <2>3, <3>1, <4>2 DEF Chain
    <3>3. "query" \in Kinds /\ Weight("query") = 0
      BY DEF Kinds, Weight
    <3>4. /\ T[Len(queue')].valid
          /\ prefix'.matrix + Loads(prefix'.pending)
               = T[Len(queue')].matrix + Loads(T[Len(queue')].pending) + 0
      BY <3>2, <3>3, ShadowFacts
    <3>5. prefix'.pending = <<>> /\ prefix'.matrix \in Nat
      BY <1>1, <1>3 DEF Settled, Busy, Shadows
    <3>6. Loads(prefix'.pending) = 0 /\ Loads(T[Len(queue')].pending) \in Nat
          /\ T[Len(queue')].matrix \in Nat
      BY <3>2, <3>5, LoadsEmpty, LoadsNat DEF Shadows
    <3>7. D[Len(queue')] = prefix'.matrix
      BY <3>2, <3>4, <3>5, <3>6
    <3> QED
      BY <1>1, <3>2, <3>7 DEF history
  <2>6. Right(reply["intake"].busy, reply["intake"].matrix)'
    BY <1>1, <2>2, <2>4, <2>5 DEF Right, ReadInv, history, TypeOK
  <2>7. \A t \in Threads : Held(t)' => t = "intake"
    BY <1>1, <2>3 DEF OneReply, Threads
  <2>8. \A t \in Threads : pc'[t] \notin {"matrix", "commit"}
    BY <2>3, <2>7 DEF Held, Publishing
  <2>9. ~Held("replay")' /\ ~Posted'
    BY <1>1, <2>2, <2>7 DEF Threads, Posted, ownerVars
  <2> QED
    BY <1>1, <2>2, <2>4, <2>6, <2>7, <2>8, <2>9
    DEF ReadInv, Right, ownerVars, scannerVars, history
<1> QED
  BY <1>2, <1>3, TakeFacts

\* The worker answers with the loads it has executed of those the read is behind.
LEMMA ReadApply ==
  ASSUME TypeOK, TypeOK', OneReply, OneReply', ReadInv, FloorInv, Chained, active, Apply
  PROVE  ReadInv'
<1>1. /\ Len(queue) \in Nat /\ Len(queue) > 0 /\ pc["replay"] = "run"
      /\ engine' = EngineBy(engine, queue[1].kind) /\ engine' \in Engines
      /\ queue[1] \in Entries
      /\ UNCHANGED <<fpga, history, mailbox>>
  BY ApplyFacts
<1>2. \/ /\ Left(1) /\ pc' = [pc EXCEPT !["replay"] = "clear"]
         /\ reply' = [reply EXCEPT !["replay"] =
                [id |-> queue[1].id, busy |-> Busy(engine') \/ engine'.owed > 0,
                 matrix |-> engine'.matrix]]
      \/ /\ \/ pc' = [pc EXCEPT !["replay"] = "run"]
            \/ pc' = [pc EXCEPT !["replay"] = "gone"]
         /\ reply' = [reply EXCEPT !["replay"] = NoReply]
  BY ApplyFacts
<1>3. active' /\ (Posted' <=> Posted)
  BY <1>1 DEF fpga, ownerVars, Posted
<1>4. CASE /\ Left(1) /\ pc' = [pc EXCEPT !["replay"] = "clear"]
           /\ reply' = [reply EXCEPT !["replay"] =
                [id |-> queue[1].id, busy |-> Busy(engine') \/ engine'.owed > 0,
                 matrix |-> engine'.matrix]]
  <2>1. 1 \in 1 .. Len(queue)
    BY <1>1
  <2>2. owner = "WAIT_REPLY" /\ ~Posted
    BY <1>4, <2>1 DEF OneReply, InQueue
  <2>3. pc'["replay"] = "clear" /\ Held("replay")'
    BY <1>4 DEF TypeOK, Threads, Held, Publishing
  <2>4. /\ reply'["replay"].matrix = engine'.matrix
        /\ reply'["replay"].busy = (Busy(engine') \/ engine'.owed > 0)
    BY <1>4 DEF TypeOK, Threads
  <2>5. engine'.matrix <= wanted /\ (~Busy(engine') => engine'.matrix = wanted)
    <3>1. PICK T, D, C : Chain(T, D, C)
      BY DEF Chained
    <3>2. D[1] = engine'.matrix + Loads(engine'.pending)
      BY <3>1, ApplyAgrees
    <3>3. D[1] = wanted
      BY <1>4, <2>1, <3>1 DEF Chain
    <3>4. engine'.matrix \in Nat /\ Loads(engine'.pending) \in Nat
      BY <1>1, LoadsNat DEF Engines
    <3>5. ~Busy(engine') => Loads(engine'.pending) = 0
      BY LoadsEmpty DEF Busy
    <3> QED
      BY <3>2, <3>3, <3>4, <3>5
  <2>6. lastRead <= engine'.matrix
    <3>1. lastRead <= engine.matrix
      BY <1>4, <2>1 DEF FloorInv, ReachedBefore
    <3>2. engine'.matrix >= engine.matrix
      BY <1>1, EngineFacts DEF TypeOK, Entries
    <3>3. lastRead \in Nat /\ engine.matrix \in Nat /\ engine'.matrix \in Nat
      BY <1>1 DEF TypeOK, Engines
    <3> QED
      BY <3>1, <3>2, <3>3
  <2>7. Right(reply["replay"].busy, reply["replay"].matrix)'
    <3>1. lastRead' = lastRead /\ wanted' = wanted
      BY <1>1 DEF history
    <3> QED
      BY <2>4, <2>5, <2>6, <3>1 DEF Right
  <2>8. \A t \in Threads : Held(t)' => t = "replay"
    BY <1>3, <2>3 DEF OneReply, Threads
  <2>9. \A t \in Threads : pc'[t] \notin {"matrix", "commit"}
    BY <2>3, <2>8 DEF Held, Publishing
  <2>10. ~Held("intake")' /\ ~Posted' /\ reply'["replay"].matrix <= engine'.matrix
    BY <1>1, <1>3, <2>2, <2>4, <2>8 DEF Threads, Engines
  <2> QED
    BY <1>1, <1>3, <2>7, <2>8, <2>9, <2>10
    DEF ReadInv, Right, fpga, ownerVars, scannerVars, history
<1>5. CASE /\ \/ pc' = [pc EXCEPT !["replay"] = "run"]
              \/ pc' = [pc EXCEPT !["replay"] = "gone"]
           /\ reply' = [reply EXCEPT !["replay"] = NoReply]
  <2>1. /\ pc'["replay"] \in {"run", "gone"}
        /\ pc'["intake"] = pc["intake"] /\ reply'["intake"] = reply["intake"]
    BY <1>5 DEF TypeOK, Threads
  <2>2. ~Held("replay")' /\ (Held("intake")' <=> Held("intake"))
    BY <2>1 DEF Held, Publishing
  <2>3. ASSUME NEW t \in Threads
        PROVE  /\ Held(t)' => Right(reply[t].busy, reply[t].matrix)'
               /\ pc'[t] \in {"matrix", "commit"} => mailbox'.busy = reply'[t].busy
               /\ pc'[t] = "commit" => mailbox'.matrix = reply'[t].matrix
    <3>1. CASE t = "replay"
      BY <2>1, <2>2, <3>1
    <3>2. CASE t = "intake"
      BY <1>1, <2>1, <2>2, <3>2 DEF ReadInv, Right, history, Threads
    <3> QED
      BY <3>1, <3>2 DEF Threads
  <2>4. Posted' => Right(mailbox.busy, mailbox.matrix)'
    BY <1>1, <1>3 DEF ReadInv, Right, history
  <2> QED
    BY <1>1, <1>3, <2>1, <2>2, <2>3, <2>4
    DEF ReadInv, Right, fpga, ownerVars, scannerVars, history
<1> QED
  BY <1>2, <1>4, <1>5

\* Every answer stays right until the CPU has it.
LEMMA ReadStep ==
  ASSUME TypeOK, TypeOK', SessionInv, OneReply, OneReply', ScanInv, ReadInv, FloorInv,
         Chained, Chained', ~faulted, [Next]_vars
  PROVE  ReadInv'
<1> USE DEF fpga, service, history, ownerVars, scannerVars
<1>1. ASSUME NEW kind \in Commands, Write(kind) PROVE ReadInv'
  <2>1. /\ active /\ active' /\ cachedValid' = FALSE /\ requestInvalidated' = TRUE
        /\ sent' >= sent
        /\ UNCHANGED <<owner, requestSequence, lastRead, wanted, mailbox, pc, reply,
                       engine, cachedBusy, cache>>
    BY <1>1 DEF Write, Invalidate, TypeOK
  <2>2. lastRead' <= sent' /\ wanted' <= sent'
    BY <2>1 DEF ReadInv, TypeOK
  <2> QED
    BY <2>1, <2>2, ReadQuiet DEF ReadInv, Right
<1>2. CASE VBlank
  BY <1>2, ReadQuiet DEF VBlank, ReadInv, Right
<1>3. CASE ReadCached
  <2>1. /\ active /\ active' /\ owner = "IDLE" /\ owner' = "CACHE" /\ Kept
        /\ wanted' = sent
        /\ UNCHANGED <<lastRead, sent, mailbox, pc, reply, engine, cachedBusy, cache,
                       cachedValid>>
    BY <1>3 DEF ReadCached, OwnerMoves
  <2>2. cache = sent /\ lastRead <= sent
    BY <2>1 DEF ReadInv, Kept
  <2>3. ~InHand /\ ~Posted'
    BY <2>1 DEF OneReply, Posted
  <2> QED
    BY <2>1, <2>2, <2>3, ReadQuiet DEF Right, TypeOK
<1>4. CASE ReadRequest
  <2>1. /\ active /\ active' /\ owner = "IDLE" /\ owner' = "ISSUE"
        /\ UNCHANGED <<wanted, lastRead, sent, mailbox, pc, reply, engine>>
    BY <1>4 DEF ReadRequest, OwnerMoves
  <2>2. ~InHand /\ ~Posted'
    BY <2>1 DEF OneReply, Posted
  <2> QED
    BY <2>1, <2>2, ReadQuiet DEF ReadInv
<1>5. CASE ReadExhausted
  <2>1. /\ active /\ active' /\ owner = "IDLE" /\ owner' = "EXHAUSTED"
        /\ UNCHANGED <<wanted, lastRead, sent, mailbox, pc, reply, engine>>
    BY <1>5 DEF ReadExhausted, OwnerMoves
  <2>2. ~InHand /\ ~Posted'
    BY <2>1 DEF OneReply, Posted
  <2> QED
    BY <2>1, <2>2, ReadQuiet DEF ReadInv
<1>6. CASE Issue
  <2>1. /\ active /\ active' /\ owner = "ISSUE" /\ owner' = "WAIT_REPLY"
        /\ wanted' = sent
        /\ UNCHANGED <<requestSequence, lastRead, sent, mailbox, pc, reply, engine>>
    BY <1>6 DEF Issue, OwnerMoves
  <2>2. ~InHand /\ mailbox.commit < requestSequence
    BY <2>1 DEF OneReply
  <2>3. ~Posted'
    BY <2>1, <2>2 DEF Posted, TypeOK, Mailboxes
  <2>4. lastRead' <= sent' /\ wanted' <= sent' /\ lastRead' <= wanted'
    BY <2>1 DEF ReadInv, TypeOK
  <2> QED
    BY <2>1, <2>2, <2>3, <2>4, ReadQuiet
<1>7. CASE TakeReply
  <2>1. /\ active /\ active' /\ owner = "WAIT_REPLY" /\ owner' = "CACHE"
        /\ response = requestSequence /\ cachedValid' = ~requestInvalidated
        /\ UNCHANGED <<wanted, lastRead, sent, mailbox, pc, reply, engine, cachedBusy,
                       cache>>
    BY <1>7 DEF TakeReply, OwnerMoves
  <2>2. response # 0
    BY <2>1 DEF OneReply, TypeOK
  <2>3. Posted /\ cachedBusy = mailbox.busy /\ cache = mailbox.matrix
    BY <2>2 DEF ScanInv
  <2>4. ~InHand /\ ~Posted'
    BY <2>1, <2>3 DEF OneReply, Posted
  <2>5. Right(cachedBusy, cache) /\ (cachedValid' => wanted = sent)
    BY <2>1, <2>3 DEF ReadInv
  <2>6. Right(cachedBusy, cache)' /\ (cachedValid' => cachedBusy' \/ cache' = sent')
    BY <2>1, <2>5 DEF Right
  <2> QED
    BY <2>1, <2>3, <2>4, <2>6, ReadQuiet DEF ReadInv
<1>8. CASE Complete
  <2>1. /\ active /\ active' /\ owner = "CACHE" /\ owner' = "IDLE"
        /\ lastRead' = cache /\ wanted' = 0
        /\ UNCHANGED <<sent, mailbox, pc, reply, engine, cachedBusy, cache, cachedValid>>
    BY <1>8 DEF Complete, OwnerMoves
  <2>2. ~InHand /\ ~Posted'
    BY <2>1 DEF OneReply, Posted
  <2>3. cache <= sent /\ (cachedValid => cachedBusy \/ cache = sent)
    BY <2>1 DEF ReadInv, Right, TypeOK
  <2>4. lastRead' <= sent' /\ wanted' <= sent'
    BY <2>1, <2>3 DEF TypeOK
  <2> QED
    BY <2>1, <2>2, <2>3, <2>4, ReadQuiet
<1>9. CASE Scanner
  <2>1. /\ phase # "IDLE"
        /\ UNCHANGED <<active, owner, requestSequence, requestInvalidated, lastRead,
                       wanted, sent, mailbox, pc, reply, engine>>
    BY <1>9, ScannerFacts
  <2>2. owner = "WAIT_REPLY"
    BY <2>1 DEF ScanInv
  <2>3. active
    BY <2>2 DEF SessionInv
  <2> QED
    BY <2>1, <2>2, <2>3, ReadQuiet DEF ReadInv
<1>10. CASE Take
  BY <1>10, ReadTake
<1>11. ASSUME NEW t \in Threads, Clear(t) \/ Payload(t) PROVE ReadInv'
  <2>1. active' = active
    BY <1>11, WriteFacts
  <2> QED
    BY <1>11, <2>1, ReadWrite DEF ReadInv
<1>12. ASSUME NEW t \in Threads, Commit(t) PROVE ReadInv'
  BY <1>12, ReadCommit
<1>13. CASE Apply
  <2>1. active' = active
    BY <1>13, ApplyFacts
  <2> QED
    BY <1>13, <2>1, ReadApply DEF ReadInv
<1>14. CASE Stop
  <2>1. active' = active
    BY <1>14 DEF Stop, Gone
  <2>2. ~active
    BY <1>14, NotGone
  <2> QED
    BY <2>1, <2>2 DEF ReadInv
<1>15. CASE EndSession
  BY <1>15 DEF EndSession, ReadInv
<1>16. CASE NewSession
  <2>1. /\ owner' = "IDLE" /\ ~cachedValid' /\ lastRead' = sent' /\ wanted' = 0
        /\ pc' = [t \in Threads |-> "run"]
    BY <1>16 DEF NewSession, SessionInv
  <2>2. \A t \in Threads : ~Held(t)' /\ pc'[t] = "run"
    BY <2>1 DEF Held, Publishing
  <2>3. ~Held("replay")' /\ ~Held("intake")' /\ ~Posted'
    BY <2>1, <2>2 DEF Threads, Posted
  <2>4. lastRead' <= sent' /\ wanted' <= sent'
    BY <2>1 DEF TypeOK
  <2> QED
    BY <2>1, <2>2, <2>3, <2>4 DEF ReadInv
<1>17. CASE UNCHANGED vars
  <2>1. UNCHANGED <<active, owner, requestSequence, cachedValid, requestInvalidated,
                    cachedBusy, cache, lastRead, wanted, sent, mailbox, pc, reply,
                    engine>>
    BY <1>17 DEF vars
  <2>2. CASE active
    BY <2>1, <2>2, ReadQuiet DEF ReadInv, Right
  <2>3. CASE ~active
    BY <2>1, <2>3 DEF ReadInv
  <2> QED
    BY <2>2, <2>3
<1> QED
  BY <1>1, <1>2, <1>3, <1>4, <1>5, <1>6, <1>7, <1>8, <1>9, <1>10, <1>11, <1>12, <1>13,
     <1>14, <1>15, <1>16, <1>17
  DEF Next, Console, Owner, Intake, Replay, Writer, Commands, Threads

-----------------------------------------------------------------------------
(* What the worker reaches                                                 *)

\* Nothing has been read.
LEMMA FloorInit == Init => FloorInv
<1> SUFFICES ASSUME Init PROVE FloorInv
  OBVIOUS
<1>1. engine.matrix = 0 /\ Len(queue) = 0 /\ lastRead = 0 /\ cache = 0 /\ ~Posted
  BY EmptySeq DEF Init, NewEngine, Posted
<1> QED
  BY <1>1 DEF FloorInv, Reached, ReachedBefore

\* Nothing is applied or queued.
LEMMA ReachedQuiet ==
  ASSUME NEW v, UNCHANGED <<queue, engine>>
  PROVE  /\ \A i \in Nat : ReachedBefore(v, i) => ReachedBefore(v, i)'
         /\ Reached(v) => Reached(v)'
BY DEF Reached, ReachedBefore

\* An entry at the end of the queue.
LEMMA ReachedAppend ==
  ASSUME TypeOK, NEW v \in Nat, NEW x \in Entries, queue' = Append(queue, x),
         engine' = engine
  PROVE  /\ \A i \in 1 .. Len(queue) + 1 : ReachedBefore(v, i) => ReachedBefore(v, i)'
         /\ Reached(v) => Reached(v)'
         /\ x.sure /\ v <= x.matrix => Reached(v)'
<1>1. /\ Len(queue') = Len(queue) + 1 /\ Len(queue) \in Nat
      /\ \A i \in 1 .. Len(queue) : queue'[i] = queue[i]
      /\ queue'[Len(queue) + 1] = x
  BY QueueAppend
<1>2. ASSUME NEW i \in 1 .. Len(queue) + 1, ReachedBefore(v, i)
      PROVE  ReachedBefore(v, i)' /\ Reached(v)'
  <2>1. CASE v <= engine.matrix
    BY <2>1 DEF Reached, ReachedBefore
  <2>2. ASSUME NEW j \in 1 .. i - 1, queue[j].sure, v <= queue[j].matrix
        PROVE  ReachedBefore(v, i)' /\ Reached(v)'
    <3>1. j \in 1 .. Len(queue) /\ j \in 1 .. Len(queue') + 1 - 1
      BY <1>1
    <3>2. queue'[j].sure /\ v <= queue'[j].matrix
      BY <1>1, <2>2, <3>1
    <3> QED
      BY <3>1, <3>2 DEF Reached, ReachedBefore
  <2> QED
    BY <1>2, <2>1, <2>2 DEF ReachedBefore
<1>3. Reached(v) => Reached(v)'
  <2>1. Len(queue) + 1 \in 1 .. Len(queue) + 1
    BY <1>1
  <2> QED
    BY <1>2, <2>1 DEF Reached
<1>4. ASSUME x.sure, v <= x.matrix PROVE Reached(v)'
  <2>1. Len(queue) + 1 \in 1 .. Len(queue') + 1 - 1
    BY <1>1
  <2> QED
    BY <1>1, <1>4, <2>1 DEF Reached, ReachedBefore
<1> QED
  BY <1>2, <1>3, <1>4

\* The worker takes the head of the queue.
LEMMA ReachedApply ==
  ASSUME TypeOK, TypeOK', NEW v \in Nat, Apply,
         queue[1].sure => engine'.matrix = queue[1].matrix
  PROVE  /\ \A i \in 1 .. Len(queue) : ReachedBefore(v, i + 1) => ReachedBefore(v, i)'
         /\ Reached(v) => Reached(v)'
<1>1. /\ Len(queue) \in Nat /\ Len(queue) > 0 /\ Len(queue') = Len(queue) - 1
      /\ \A i \in 1 .. Len(queue') : queue'[i] = queue[i + 1]
      /\ engine' = EngineBy(engine, queue[1].kind) /\ queue[1] \in Entries
  BY ApplyFacts
<1>2. engine'.matrix >= engine.matrix
  BY <1>1, EngineFacts DEF TypeOK, Entries
<1>3. engine'.matrix \in Nat /\ engine.matrix \in Nat
  BY DEF TypeOK, Engines
<1>4. ASSUME NEW i \in 1 .. Len(queue), ReachedBefore(v, i + 1) PROVE ReachedBefore(v, i)'
  <2>1. CASE v <= engine.matrix
    <3>1. v <= engine'.matrix
      BY <1>2, <1>3, <2>1
    <3> QED
      BY <3>1 DEF ReachedBefore
  <2>2. ASSUME NEW j \in 1 .. i + 1 - 1, queue[j].sure, v <= queue[j].matrix
        PROVE  ReachedBefore(v, i)'
    <3>1. CASE j = 1
      BY <2>2, <3>1 DEF ReachedBefore
    <3>2. CASE j # 1
      <4>1. j - 1 \in 1 .. i - 1 /\ j - 1 \in 1 .. Len(queue') /\ j - 1 + 1 = j
        BY <1>1, <3>2
      <4>2. queue'[j - 1] = queue[j]
        BY <1>1, <4>1
      <4> QED
        BY <2>2, <4>1, <4>2 DEF ReachedBefore
    <3> QED
      BY <3>1, <3>2
  <2> QED
    BY <1>4, <2>1, <2>2 DEF ReachedBefore
<1>5. Reached(v) => Reached(v)'
  <2>1. Len(queue) \in 1 .. Len(queue) /\ Len(queue') + 1 = Len(queue)
    BY <1>1
  <2>2. ReachedBefore(v, Len(queue) + 1) => v <= engine'.matrix
          \/ \E j \in 1 .. Len(queue) - 1 : queue'[j].sure /\ v <= queue'[j].matrix
    BY <1>4, <2>1 DEF ReachedBefore
  <2> QED
    BY <2>1, <2>2 DEF Reached, ReachedBefore
<1> QED
  BY <1>4, <1>5

\* The reads and the answer are as they were, and so is the worker.
LEMMA FloorQuiet ==
  ASSUME TypeOK, TypeOK', FloorInv, active, UNCHANGED <<queue, engine>>,
         Reached(cache)', lastRead' = lastRead \/ (Reached(lastRead)' /\ ~InQueue),
         Posted' => Posted /\ mailbox'.matrix = mailbox.matrix
  PROVE  FloorInv'
<1>1. \A i \in 1 .. Len(queue) : Left(i)' <=> Left(i)
  BY DEF Left
<1>2. Posted' => Reached(mailbox.matrix)'
  BY DEF FloorInv, Reached, ReachedBefore
<1>3. \A i \in 1 .. Len(queue) : Left(i) => ReachedBefore(lastRead, i)'
  BY DEF FloorInv, ReachedBefore, InQueue
<1>4. Reached(lastRead)'
  BY DEF FloorInv, Reached, ReachedBefore
<1> QED
  BY <1>1, <1>2, <1>3, <1>4 DEF FloorInv

\* A fence is queued behind all that was read before.
LEMMA FloorTake ==
  ASSUME TypeOK, TypeOK', FloorInv, Take
  PROVE  FloorInv'
<1>1. /\ active /\ stream[1] = [kind |-> stream[1].kind, id |-> stream[1].id]
      /\ stream[1].kind \in Kinds /\ stream[1].id \in Nat /\ prefix' \in Shadows
      /\ UNCHANGED <<owner, requestSequence, cache, lastRead, mailbox, engine>>
      /\ queue' = queue \/ queue' = Append(queue, Entry(stream[1], prefix', FALSE))
  BY TakeFacts DEF Items, ownerVars, scannerVars, history
<1>2. Posted' <=> Posted
  BY <1>1 DEF Posted
<1>3. CASE queue' = queue
  BY <1>1, <1>2, <1>3, FloorQuiet DEF FloorInv, Reached, ReachedBefore
<1>4. CASE queue' = Append(queue, Entry(stream[1], prefix', FALSE))
  <2>1. PICK x \in Entries : x = Entry(stream[1], prefix', FALSE)
    BY <1>1, EntryType
  <2>2. queue' = Append(queue, x)
    BY <1>4, <2>1
  <2>3. /\ Len(queue') = Len(queue) + 1 /\ Len(queue) \in Nat
        /\ \A i \in 1 .. Len(queue) : (Left(i)' <=> Left(i))
                                      /\ queue'[i].id = queue[i].id
    BY <2>2, AppendLeft
  <2>4. PICK v, w, m \in Nat : v = lastRead /\ w = cache /\ m = mailbox.matrix
    BY DEF TypeOK, Mailboxes
  <2>5. v = lastRead' /\ w = cache' /\ m = mailbox'.matrix
    BY <1>1, <2>4
  <2>6. /\ Reached(v)' /\ Reached(w)' /\ (Posted => Reached(m)')
    BY <1>1, <2>2, <2>4, ReachedAppend DEF FloorInv
  <2>7. ASSUME NEW i \in 1 .. Len(queue'), Left(i)' PROVE ReachedBefore(v, i)'
    <3>1. i \in 1 .. Len(queue) + 1
      BY <2>3
    <3>2. CASE i \in 1 .. Len(queue)
      <4>1. ReachedBefore(v, i)
        BY <1>1, <2>3, <2>4, <2>7, <3>2 DEF FloorInv
      <4> QED
        BY <1>1, <2>2, <3>1, <4>1, ReachedAppend
    <3>3. CASE i = Len(queue) + 1
      <4>1. ReachedBefore(v, i)
        BY <1>1, <2>4, <3>3 DEF FloorInv, Reached
      <4> QED
        BY <1>1, <2>2, <3>1, <4>1, ReachedAppend
    <3> QED
      BY <2>3, <3>2, <3>3
  <2> QED
    BY <1>1, <1>2, <2>5, <2>6, <2>7 DEF FloorInv, Reached
<1> QED
  BY <1>1, <1>3, <1>4

\* What is posted is what the worker has, or a fence in the queue.
LEMMA FloorCommit ==
  ASSUME TypeOK, TypeOK', OneReply', ReadInv, FloorInv, Chained, NEW t \in Threads,
         Commit(t), Posted'
  PROVE  FloorInv'
<1>1. /\ active /\ pc[t] = "commit"
      /\ mailbox'.matrix = mailbox.matrix
      /\ UNCHANGED <<active, cache, lastRead, engine>>
      /\ Entry([kind |-> "query", id |-> reply[t].id], prefix, TRUE) \in Entries
      /\ queue' = IF t = "replay" THEN queue
                  ELSE Append(queue, Entry([kind |-> "query", id |-> reply[t].id],
                                           prefix, TRUE))
  BY CommitFacts DEF fpga, scannerVars, history
<1>2. Held(t) /\ mailbox.matrix = reply[t].matrix
  BY <1>1 DEF ReadInv, Held, Publishing
<1>3. ~InQueue'
  BY <1>1 DEF OneReply
<1>4. \A i \in 1 .. Len(queue') : ~Left(i)'
  BY <1>3 DEF InQueue
<1>5. PICK v, w, m \in Nat : v = lastRead /\ w = cache /\ m = mailbox.matrix
  BY DEF TypeOK, Mailboxes
<1>6. v = lastRead' /\ w = cache' /\ m = mailbox'.matrix
  BY <1>1, <1>5
<1>7. CASE t = "replay"
  <2>1. queue' = queue /\ m <= engine'.matrix
    BY <1>1, <1>2, <1>5, <1>7 DEF ReadInv
  <2>2. Reached(v)' /\ Reached(w)' /\ Reached(m)'
    BY <1>1, <1>5, <2>1 DEF FloorInv, Reached, ReachedBefore
  <2> QED
    BY <1>4, <1>6, <2>2 DEF FloorInv, Reached
<1>8. CASE t = "intake"
  <2>1. PICK x \in Entries :
          x = Entry([kind |-> "query", id |-> reply[t].id], prefix, TRUE)
    BY <1>1
  <2>2. queue' = Append(queue, x)
    BY <1>1, <1>8, <2>1
  <2>3. prefix.valid /\ m = prefix.matrix
    BY <1>1, <1>2, <1>5, <1>8 DEF Chained, Chain
  <2>4. x.sure /\ x.matrix = prefix.matrix
    BY <2>1, <2>3 DEF Entry
  <2>5. m <= x.matrix
    BY <2>3, <2>4
  <2>6. Reached(m)'
    BY <1>1, <2>2, <2>4, <2>5, ReachedAppend
  <2>7. Reached(v)' /\ Reached(w)'
    BY <1>1, <1>5, <2>2, ReachedAppend DEF FloorInv
  <2> QED
    BY <1>4, <1>6, <2>6, <2>7 DEF FloorInv, Reached
<1> QED
  BY <1>7, <1>8 DEF Threads

\* The worker gets to what it was said to reach.
LEMMA FloorApply ==
  ASSUME TypeOK, TypeOK', FloorInv, Chained, active, Apply
  PROVE  FloorInv'
<1>1. /\ Len(queue) \in Nat /\ Len(queue) > 0 /\ Len(queue') = Len(queue) - 1
      /\ \A i \in 1 .. Len(queue') : queue'[i] = queue[i + 1]
      /\ UNCHANGED <<owner, requestSequence, cache, lastRead, mailbox>>
  BY ApplyFacts DEF fpga, ownerVars, scannerVars, history
<1>2. queue[1].sure => engine'.matrix = queue[1].matrix
  BY ApplyAgrees DEF Chained
<1>3. PICK v, w, m \in Nat : v = lastRead /\ w = cache /\ m = mailbox.matrix
  BY DEF TypeOK, Mailboxes
<1>4. v = lastRead' /\ w = cache' /\ m = mailbox'.matrix /\ (Posted' <=> Posted)
  BY <1>1, <1>3 DEF Posted
<1>5. Reached(v)' /\ Reached(w)' /\ (Posted => Reached(m)')
  BY <1>2, <1>3, ReachedApply DEF FloorInv
<1>6. ASSUME NEW i \in 1 .. Len(queue'), Left(i)' PROVE ReachedBefore(v, i)'
  <2>1. i \in 1 .. Len(queue) /\ i + 1 \in 1 .. Len(queue)
    BY <1>1
  <2>2. Left(i + 1)
    BY <1>1, <1>6 DEF Left
  <2>3. ReachedBefore(v, i + 1)
    BY <1>3, <2>1, <2>2 DEF FloorInv
  <2> QED
    BY <1>2, <2>1, <2>3, ReachedApply
<1> QED
  BY <1>4, <1>5, <1>6 DEF FloorInv, Reached

\* Every step keeps what has been read within the worker's reach.
LEMMA FloorStep ==
  ASSUME TypeOK, TypeOK', SessionInv, OneReply, OneReply', ScanInv, ReadInv, FloorInv,
         Chained, ~faulted, [Next]_vars
  PROVE  FloorInv'
<1> USE DEF fpga, service, history, ownerVars, scannerVars
<1>1. ASSUME active, UNCHANGED <<queue, engine, cache, lastRead, mailbox>>,
             Posted' => Posted
      PROVE  FloorInv'
  BY <1>1, FloorQuiet DEF FloorInv, Reached, ReachedBefore
<1>2. ASSUME NEW kind \in Commands, Write(kind) PROVE FloorInv'
  BY <1>1, <1>2 DEF Write, Posted
<1>3. CASE VBlank
  BY <1>1, <1>3 DEF VBlank, Posted
<1>4. CASE ReadCached \/ ReadRequest \/ ReadExhausted \/ TakeReply
  <2>1. /\ active /\ owner' # "WAIT_REPLY"
        /\ UNCHANGED <<queue, engine, cache, lastRead, mailbox>>
    BY <1>4 DEF ReadCached, ReadRequest, ReadExhausted, TakeReply, OwnerMoves
  <2> QED
    BY <1>1, <2>1 DEF Posted
<1>5. CASE Issue
  <2>1. /\ active /\ owner = "ISSUE"
        /\ UNCHANGED <<queue, engine, cache, lastRead, mailbox, requestSequence>>
    BY <1>5 DEF Issue, OwnerMoves
  <2>2. mailbox.commit < requestSequence
    BY <2>1 DEF OneReply
  <2>3. ~Posted'
    BY <2>1, <2>2 DEF Posted, TypeOK, Mailboxes
  <2> QED
    BY <1>1, <2>1, <2>3
<1>6. CASE Complete
  <2>1. /\ active /\ owner = "CACHE" /\ owner' = "IDLE" /\ lastRead' = cache
        /\ UNCHANGED <<queue, engine, cache>>
    BY <1>6 DEF Complete, OwnerMoves
  <2>2. ~InQueue /\ ~Posted'
    BY <2>1 DEF OneReply, Posted
  <2>3. Reached(cache)' /\ Reached(lastRead)'
    BY <2>1 DEF FloorInv, Reached, ReachedBefore
  <2> QED
    BY <2>1, <2>2, <2>3, FloorQuiet
<1>7. CASE Scanner
  <2>1. /\ phase # "IDLE"
        /\ UNCHANGED <<active, owner, requestSequence, queue, engine, lastRead, mailbox>>
    BY <1>7, ScannerFacts
  <2>2. owner = "WAIT_REPLY" /\ (Posted' <=> Posted)
    BY <2>1 DEF ScanInv, Posted
  <2>3. active
    BY <2>2 DEF SessionInv
  <2>4. CASE cache' = cache
    BY <1>1, <2>1, <2>2, <2>3, <2>4
  <2>5. CASE phase = "FILL_MATRIX" /\ cache' = mailbox.matrix
    <3>1. Reached(mailbox.matrix)
      BY <2>3, <2>5 DEF ScanInv, Filling, FloorInv
    <3>2. Reached(cache)'
      BY <2>1, <2>5, <3>1 DEF Reached, ReachedBefore
    <3> QED
      BY <2>1, <2>2, <2>3, <3>2, FloorQuiet
  <2> QED
    BY <1>7, <2>4, <2>5, ScannerFacts
<1>8. CASE Take
  BY <1>8, FloorTake
<1>9. ASSUME NEW t \in Threads, Clear(t) \/ Payload(t) PROVE FloorInv'
  <2>1. UNCHANGED <<active, queue, engine, cache, lastRead>>
    BY <1>9, WriteFacts
  <2>2. CASE active
    <3>1. ~Posted'
      BY <1>9, <2>2, OneReplyWrite
    <3> QED
      BY <2>1, <2>2, <3>1, FloorQuiet DEF FloorInv, Reached, ReachedBefore
  <2> QED
    BY <2>1, <2>2 DEF FloorInv
<1>10. ASSUME NEW t \in Threads, Commit(t) PROVE FloorInv'
  <2>1. Posted'
    BY <1>10, OneReplyCommit
  <2> QED
    BY <1>10, <2>1, FloorCommit
<1>11. CASE Apply
  <2>1. active' = active
    BY <1>11, ApplyFacts
  <2> QED
    BY <1>11, <2>1, FloorApply DEF FloorInv
<1>12. CASE Stop
  <2>1. active' = active
    BY <1>12 DEF Stop, Gone
  <2>2. ~active
    BY <1>12, NotGone
  <2> QED
    BY <2>1, <2>2 DEF FloorInv
<1>13. CASE EndSession
  BY <1>13 DEF EndSession, FloorInv
<1>14. CASE NewSession
  <2>1. /\ owner' = "IDLE" /\ lastRead' = sent /\ cache' = 0 /\ queue' = <<>>
        /\ engine' = NewEngine(sent)
    BY <1>14 DEF NewSession, SessionInv
  <2>2. engine'.matrix = sent /\ Len(queue') = 0 /\ ~Posted'
    BY <2>1, EmptySeq DEF NewEngine, Posted
  <2>3. lastRead' <= engine'.matrix /\ cache' <= engine'.matrix
    BY <2>1, <2>2 DEF TypeOK
  <2> QED
    BY <2>2, <2>3 DEF FloorInv, Reached, ReachedBefore
<1>15. CASE UNCHANGED vars
  <2>1. UNCHANGED <<active, owner, requestSequence, queue, engine, cache, lastRead,
                    mailbox>>
    BY <1>15 DEF vars
  <2>2. CASE active
    BY <1>1, <2>1, <2>2 DEF Posted
  <2> QED
    BY <2>1, <2>2 DEF FloorInv
<1> QED
  BY <1>2, <1>3, <1>4, <1>5, <1>6, <1>7, <1>8, <1>9, <1>10, <1>11, <1>12, <1>13, <1>14,
     <1>15
  DEF Next, Console, Owner, Intake, Replay, Writer, Commands, Threads

-----------------------------------------------------------------------------
(* The theorems                                                            *)

\* ReadInv needs Chained (the worker's answer is what the queue has led to), which
\* needs OneReply (wanted is that of the one read on its way), which needs ScanInv
\* (nothing is posted twice); none of them is kept by itself.
QueryInv ==
  /\ TypeOK /\ SessionInv /\ OneReply /\ ScanInv
  /\ ReadInv /\ FloorInv
  /\ ~faulted /\ Chained

\* The inductive invariant: one read at most is on its way, from the FPGA's stream over
\* the queue and the two threads to the reply in DDR, with an answer that is right for
\* it; nobody touches the reply while the scanner reads it; and the worker's engine is
\* where the shadow was that many records ago.  It holds through the end of a session, a
\* killed service and identifiers that start again.
THEOREM QueryInvariant == Spec => []QueryInv
<1>1. Init => QueryInv
  BY TypeInit, SessionInit, OneReplyInit, ScanInit, ReadInit, FloorInit, ChainInit
  DEF QueryInv, Init
<1>2. QueryInv /\ [Next]_vars => QueryInv'
  <2> SUFFICES ASSUME QueryInv, [Next]_vars PROVE QueryInv'
    OBVIOUS
  <2>1. /\ TypeOK /\ SessionInv /\ OneReply /\ ScanInv
        /\ ReadInv /\ FloorInv /\ ~faulted /\ Chained
    BY DEF QueryInv
  <2>2. TypeOK'
    BY <2>1, TypeStep
  <2>3. ~faulted' /\ Chained'
    BY <2>1, <2>2, AgreeStep
  <2>4. SessionInv'
    BY <2>1, <2>2, <2>3, SessionStep
  <2>5. OneReply'
    BY <2>1, <2>2, <2>3, OneReplyStep
  <2>6. ScanInv'
    BY <2>1, <2>2, <2>3, ScanStep
  <2>7. ReadInv'
    BY <2>1, <2>2, <2>3, <2>5, ReadStep
  <2>8. FloorInv'
    BY <2>1, <2>2, <2>5, FloorStep
  <2> QED
    BY <2>2, <2>3, <2>4, <2>5, <2>6, <2>7, <2>8 DEF QueryInv
<1> QED
  BY <1>1, <1>2, PTL DEF Spec

\* Every variable keeps its type: the queues hold records, the reply is whole words,
\* and threads and scanner are in one of their states.
THEOREM QueryTypeOK == Spec => []TypeOK
<1>1. QueryInv => TypeOK
  BY DEF QueryInv
<1> QED
  BY <1>1, QueryInvariant, PTL

\* publish_gx_readback never raises "matrix prefix disagreed": what the intake has
\* answered from its shadow is what the worker's engine comes to, since a step of the
\* worker is longer than all that the shadow may defer and what a swap leaves to pay.
THEOREM ShadowAgrees == Spec => []PrefixAgrees
<1>1. QueryInv => PrefixAgrees
  BY DEF QueryInv, PrefixAgrees
<1> QED
  BY <1>1, QueryInvariant, PTL

\* What the CPU reads, be it answered by the intake, the worker or the FPGA's cache, is
\* never older than what it read before, never newer than its own commands, and shows
\* all of them unless the status says that the engine is busy.
THEOREM ReadsAreInOrder == Spec => []ReadsInOrder
<1>1. QueryInv => ReadsInOrder
  <2> SUFFICES ASSUME QueryInv, owner = "CACHE" PROVE Right(cachedBusy, cache)
    BY DEF ReadsInOrder, Right
  <2>1. active
    BY DEF QueryInv, SessionInv
  <2> QED
    BY <2>1 DEF QueryInv, ReadInv
<1> QED
  BY <1>1, QueryInvariant, PTL
=============================================================================
