-------------------------- MODULE MtPrimes2Proofs --------------------------
(***************************************************************************)
(* Theorems about MtPrimes2, for all prime ranges.                         *)
(***************************************************************************)
EXTENDS MtPrimes2, TLAPS

---------------------------------------------------------------------------
(* The trial division. *)

\* A number that simple_primegen prints has no divisor: trial division up to
\* half the limit is enough for every number up to the limit, when the limit
\* is 6 or more.
LEMMA FlaggedIsPrime ==
  ASSUME NEW limit \in Nat, limit >= 6, NEW x \in 2..limit, Flagged(x, limit)
  PROVE  IsPrime(x)
<1> DEFINE top == (limit \div 2) - 1
<1>1. top \in Int /\ 2 * top + 2 <= limit /\ limit <= 2 * top + 3 /\ top >= 2
  OBVIOUS
<1>2. \A j \in 2..top : ~ (x # j /\ x % j = 0)
  BY DEF Flagged, Divides
<1> SUFFICES ASSUME NEW d \in 2..(x - 1) PROVE x % d # 0
  <2>1. x >= 2
    OBVIOUS
  <2> QED
    BY <2>1, Zenon DEF IsPrime
<1> SUFFICES ASSUME x % d = 0 PROVE FALSE
  OBVIOUS
<1>3. d > top
  BY <1>1, <1>2
<1>4. PICK q \in Int : x = d * q
  <2>1. x = d * (x \div d) + (x % d) /\ (x \div d) \in Int
    OBVIOUS
  <2> QED
    BY <2>1
<1> HIDE DEF top
<1>5. q = 2
  <2>1. q >= 2
    BY <1>4, SMT
  <2>2. CASE q >= 3
    <3>1. d * q >= 3 * d
      BY <2>2, SMT
    <3> QED
      BY <3>1, <1>1, <1>3, <1>4, SMT
  <2> QED
    BY <2>1, <2>2
<1>6. x = 2 * d /\ x # 2
  BY <1>4, <1>5
<1>7. x % 2 = 0
  BY <1>6
<1> QED
  BY <1>1, <1>2, <1>6, <1>7

\* simple_primegen prints every prime of its range: no smaller number but 1
\* divides it, and it is its own remainder modulo a larger one.
LEMMA PrimeIsFlagged ==
  ASSUME NEW limit \in Nat, NEW x \in Nat, IsPrime(x)
  PROVE  Flagged(x, limit)
<1> SUFFICES ASSUME NEW j \in 2..((limit \div 2) - 1), x # j, x % j = 0
             PROVE FALSE
  BY DEF Flagged, Divides
<1>1. x >= 2 /\ \A d \in 2..(x - 1) : x % d # 0
  BY DEF IsPrime
<1>2. (limit \div 2) \in Int /\ j \in Int /\ j >= 2
  OBVIOUS
<1>3. CASE j < x
  BY <1>1, <1>2, <1>3
<1>4. CASE j > x
  <2>1. x % j = x
    BY <1>1, <1>2, <1>4
  <2> QED
    BY <2>1, <1>1
<1> QED
  BY <1>2, <1>3, <1>4

\* What simple_primegen leaves in the buffer of a worker whose range ends at 6
\* or beyond: the primes of the range, and 1 if the range holds it.
THEOREM PrimegenExact ==
  ASSUME NEW start \in Nat, NEW limit \in Nat, limit >= 6
  PROVE  Primegen(start, limit)
           = {x \in start..limit : x = 1 \/ IsPrime(x)}
<1> SUFFICES ASSUME NEW x \in start..limit
             PROVE Flagged(x, limit) <=> x = 1 \/ IsPrime(x)
  BY DEF Primegen
<1>1. (limit \div 2) \in Int /\ (limit \div 2) >= 3
  OBVIOUS
<1>2. CASE x = 0
  <2>1. 0 % 2 = 0 /\ 2 \in 2..((limit \div 2) - 1)
    BY <1>1
  <2>2. ~ Flagged(x, limit)
    BY <1>2, <2>1 DEF Flagged, Divides
  <2>3. ~ IsPrime(x)
    BY <1>2 DEF IsPrime
  <2> QED
    BY <1>2, <2>2, <2>3
<1>3. CASE x = 1
  <2>1. \A j \in 2..((limit \div 2) - 1) : 1 % j # 0
    <3> SUFFICES ASSUME NEW j \in 2..((limit \div 2) - 1) PROVE 1 % j # 0
      OBVIOUS
    <3>1. j \in Int /\ j >= 2
      BY <1>1
    <3> QED
      BY <3>1
  <2> QED
    BY <1>3, <2>1 DEF Flagged, Divides
<1>4. CASE x >= 2
  <2>1. x \in 2..limit /\ x \in Nat
    BY <1>4
  <2> QED
    BY <2>1, <1>4, FlaggedIsPrime, PrimeIsFlagged
<1> QED
  BY <1>2, <1>3, <1>4

---------------------------------------------------------------------------
(* The invariant. *)

\* The three workers, for the provers.
LEMMA Workers ==
  PrWorker = {0, 1, 2} /\ PrNTHREADS = 3 /\ Victim = 2 /\ Victim \in PrWorker /\ PrNobody = -1
BY DEF PrWorker, PrNTHREADS, Victim, PrNobody

\* The invariant holds before main creates the first worker.
LEMMA InitIInv == PrInit => PrInv
<1> SUFFICES ASSUME PrInit PROVE PrInv
  OBVIOUS
<1>1. PrTypeOK
  <2>1. prCancel \in Cancel /\ prPending \in BOOLEAN
    BY Zenon DEF PrInit
  <2>2. written \in Seq(PrWorker) /\ lost \subseteq PrWorker
    BY DEF PrInit
  <2>3. prN \in PrWorker /\ gCanceledThread \in PrWorker
    BY Workers DEF PrInit
  <2> QED
    BY <2>1, <2>2, <2>3 DEF PrInit, PrTypeOK, HeapState
<1>2. PrProgress /\ Told
  BY Workers DEF PrInit, PrProgress, Told
<1>3. PrHeap /\ Computed
  BY Workers DEF PrInit, PrHeap, Computed
<1> QED
  BY <1>1, <1>2, <1>3 DEF PrInv

\* A worker that wakes from r_sleep keeps the invariant.
LEMMA SleepKeeps ==
  ASSUME PrInv, NEW t \in PrWorker, Sleep(t)
  PROVE  PrInv'
<1> USE Workers DEF PrInv, PrTypeOK, Sleep, heapVars, prFile
<1>1. PrTypeOK'
  OBVIOUS
<1>2. PrProgress'
  BY DEF PrProgress, Told
<1>3. Told'
  BY DEF PrProgress, Told
<1>4. PrHeap'
  BY DEF PrHeap, Released, WasCancelled, Told, PrProgress
<1>5. Computed'
  BY DEF Computed, WasCancelled, Told, PrProgress
<1> QED
  BY <1>1, <1>2, <1>3, <1>4, <1>5

\* simple_primegen fills the buffer of its caller alone.
LEMMA GenerateKeeps ==
  ASSUME PrInv, NEW t \in PrWorker, Generate(t)
  PROVE  PrInv'
<1> USE Workers DEF PrInv, PrTypeOK, Generate, heapVars, prFile
<1>1. PrTypeOK'
  <2>1. PrimeRange[t][1] \in Nat /\ PrimeRange[t][2] \in Nat
    BY MtPrimes2Assumption
  <2>2. Primegen(PrimeRange[t][1], PrimeRange[t][2]) \in SUBSET Nat
    BY <2>1 DEF Primegen
  <2>3. out' \in [PrWorker -> SUBSET Nat]
    BY <2>2
  <2> QED
    BY <2>3
<1>2. PrProgress'
  BY DEF PrProgress, Told
<1>3. Told'
  BY DEF PrProgress, Told
<1>4. PrHeap'
  BY DEF PrHeap, Released, WasCancelled, Told, PrProgress
<1>5. Computed'
  BY DEF Computed, WasCancelled, Told, PrProgress
<1> QED
  BY <1>1, <1>2, <1>3, <1>4, <1>5

\* A worker ends, its buffer filled, without running the handler.
LEMMA ReportKeeps ==
  ASSUME PrInv, NEW t \in PrWorker, Report(t)
  PROVE  PrInv'
<1> USE Workers DEF PrInv, PrTypeOK, Report, heapVars, prFile
<1>1. PrTypeOK'
  OBVIOUS
<1>2. PrProgress'
  BY DEF PrProgress, Told
<1>3. Told'
  BY DEF PrProgress, Told
<1>4. PrHeap'
  BY DEF PrHeap, Released, WasCancelled, Told, PrProgress
<1>5. Computed'
  BY DEF Computed, WasCancelled, Told, PrProgress
<1> QED
  BY <1>1, <1>2, <1>3, <1>4, <1>5

\* Only the victim is cancelled, while its memory is allocated.
LEMMA CancelledKeeps ==
  ASSUME PrInv, NEW t \in PrWorker, PrCancelled(t)
  PROVE  PrInv'
<1> USE Workers DEF PrInv, PrTypeOK, PrCancelled, heapVars, prFile
<1>1. PrTypeOK'
  OBVIOUS
<1>2. PrProgress'
  BY DEF PrProgress, Told
<1>3. Told'
  BY DEF PrProgress, Told
<1>4. PrHeap'
  BY DEF PrHeap, Released, WasCancelled, Told, PrProgress
<1>5. Computed'
  BY DEF Computed, WasCancelled, Told, PrProgress
<1> QED
  BY <1>1, <1>2, <1>3, <1>4, <1>5

\* Taking mylock in the handler keeps the invariant.
LEMMA HandlerLockKeeps ==
  ASSUME PrInv, NEW t \in PrWorker, HandlerLock(t)
  PROVE  PrInv'
<1> USE Workers DEF PrInv, PrTypeOK, HandlerLock, heapVars, prFile
<1>1. PrTypeOK'
  OBVIOUS
<1>2. PrProgress'
  BY DEF PrProgress, Told
<1>3. Told'
  BY DEF PrProgress, Told
<1>4. PrHeap'
  BY DEF PrHeap, Released, WasCancelled, Told, PrProgress
<1>5. Computed'
  BY DEF Computed, WasCancelled, Told, PrProgress
<1> QED
  BY <1>1, <1>2, <1>3, <1>4, <1>5

\* The handler names the victim before it frees anything.
LEMMA HandlerRecordKeeps ==
  ASSUME PrInv, NEW t \in PrWorker, HandlerRecord(t)
  PROVE  PrInv'
<1> USE Workers DEF PrInv, PrTypeOK, HandlerRecord, heapVars, prFile
<1>1. PrTypeOK'
  OBVIOUS
<1>2. PrProgress'
  BY DEF PrProgress, Told
<1>3. Told'
  BY DEF PrProgress, Told
<1>4. PrHeap'
  BY DEF PrHeap, Released, WasCancelled, Told, PrProgress
<1>5. Computed'
  BY DEF Computed, WasCancelled, Told, PrProgress
<1> QED
  BY <1>1, <1>2, <1>3, <1>4, <1>5

\* The handler frees memory that main will not free.
LEMMA HandlerFreeKeeps ==
  ASSUME PrInv, NEW t \in PrWorker, HandlerFree(t)
  PROVE  PrInv'
<1> USE Workers DEF PrInv, PrTypeOK, HandlerFree, heapVars, prFile, Free, HeapState
<1>1. PrTypeOK'
  OBVIOUS
<1>2. PrProgress'
  BY DEF PrProgress, Told
<1>3. Told'
  BY DEF PrProgress, Told
<1>4. PrHeap'
  BY DEF PrHeap, Released, WasCancelled, Told, PrProgress
<1>5. Computed'
  BY DEF Computed, WasCancelled, Told, PrProgress
<1> QED
  BY <1>1, <1>2, <1>3, <1>4, <1>5

\* Main creates the worker its index says, and no other.
LEMMA CreateKeeps ==
  ASSUME PrInv, PrCreate
  PROVE  PrInv'
<1> USE Workers DEF PrInv, PrTypeOK, PrCreate, heapVars, prFile, Loop, HeapState
<1>1. PrTypeOK'
  OBVIOUS
<1>2. PrProgress'
  BY DEF PrProgress, Told
<1>3. Told'
  BY DEF PrProgress, Told
<1>4. PrHeap'
  BY DEF PrHeap, Released, WasCancelled, Told, PrProgress
<1>5. Computed'
  BY DEF Computed, WasCancelled, Told, PrProgress
<1> QED
  BY <1>1, <1>2, <1>3, <1>4, <1>5

\* A FATAL of main leaves the workers as they are.
LEMMA MainDiesKeeps ==
  ASSUME PrInv, PrMainDies
  PROVE  PrInv'
<1> USE Workers DEF PrInv, PrTypeOK, PrMainDies, heapVars, prFile
<1>1. PrTypeOK'
  OBVIOUS
<1>2. PrProgress'
  BY DEF PrProgress, Told
<1>3. Told'
  BY DEF PrProgress, Told
<1>4. PrHeap'
  BY DEF PrHeap, Released, WasCancelled, Told, PrProgress
<1>5. Computed'
  BY DEF Computed, WasCancelled, Told, PrProgress
<1> QED
  BY <1>1, <1>2, <1>3, <1>4, <1>5

\* A cancellation request changes nothing yet.
LEMMA SendCancelKeeps ==
  ASSUME PrInv, PrSendCancel
  PROVE  PrInv'
<1> USE Workers DEF PrInv, PrTypeOK, PrSendCancel, heapVars, prFile
<1>1. PrTypeOK'
  OBVIOUS
<1>2. PrProgress'
  BY DEF PrProgress, Told
<1>3. Told'
  BY DEF PrProgress, Told
<1>4. PrHeap'
  BY DEF PrHeap, Released, WasCancelled, Told, PrProgress
<1>5. Computed'
  BY DEF Computed, WasCancelled, Told, PrProgress
<1> QED
  BY <1>1, <1>2, <1>3, <1>4, <1>5

\* Main is past its join loop when all workers have ended.
LEMMA JoinKeeps ==
  ASSUME PrInv, PrJoin
  PROVE  PrInv'
<1> USE Workers DEF PrInv, PrTypeOK, PrJoin, heapVars, prFile, Loop
<1>1. PrTypeOK'
  OBVIOUS
<1>2. PrProgress'
  BY DEF PrProgress, Told
<1>3. Told'
  BY DEF PrProgress, Told
<1>4. PrHeap'
  BY DEF PrHeap, Released, WasCancelled, Told, PrProgress
<1>5. Computed'
  BY DEF Computed, WasCancelled, Told, PrProgress
<1> QED
  BY <1>1, <1>2, <1>3, <1>4, <1>5

\* Writing the buffers keeps the invariant, whether write(2) fails or not.
LEMMA WritePrimesKeeps ==
  ASSUME PrInv, WritePrimes
  PROVE  PrInv'
<1> USE Workers DEF PrInv, PrTypeOK, WritePrimes, heapVars, prFile, Loop
<1>1. PrTypeOK'
  <2>1. Append(written, prN) \in Seq(PrWorker)
    OBVIOUS
  <2>2. written' \in Seq(PrWorker) /\ lost' \subseteq PrWorker
    BY <2>1
  <2>3. prN' \in PrWorker /\ prMain' \in {"write", "cleanup"}
    OBVIOUS
  <2> QED
    BY <2>2, <2>3
<1>2. PrProgress'
  BY DEF PrProgress, Told
<1>3. Told'
  BY DEF PrProgress, Told
<1>4. PrHeap'
  BY DEF PrHeap, Released, WasCancelled, Told, PrProgress
<1>5. Computed'
  BY DEF Computed, WasCancelled, Told, PrProgress
<1> QED
  BY <1>1, <1>2, <1>3, <1>4, <1>5

\* Main frees, once each, what the handler has not freed.
LEMMA CleanupKeeps ==
  ASSUME PrInv, Cleanup
  PROVE  PrInv'
<1> USE Workers DEF PrInv, PrTypeOK, Cleanup, heapVars, prFile, Loop, Free, HeapState
<1>1. PrTypeOK'
  OBVIOUS
<1>2. PrProgress'
  BY DEF PrProgress, Told
<1>3. Told'
  BY DEF PrProgress, Told
<1>4. PrHeap'
  BY DEF PrHeap, Released, WasCancelled, Told, PrProgress
<1>5. Computed'
  BY DEF Computed, WasCancelled, Told, PrProgress
<1> QED
  BY <1>1, <1>2, <1>3, <1>4, <1>5

\* A step that changes nothing keeps the invariant.
LEMMA StutterKeeps ==
  ASSUME PrInv, UNCHANGED prVars
  PROVE  PrInv'
<1> USE Workers DEF PrInv, PrTypeOK, prVars, heapVars, prFile
<1>1. PrTypeOK' /\ PrProgress' /\ Told'
  BY DEF PrProgress, Told
<1>2. PrHeap' /\ Computed'
  BY DEF PrHeap, Released, WasCancelled, Computed
<1> QED
  BY <1>1, <1>2

\* The invariant of MtPrimes2 is inductive: how far main is tells which workers
\* exist and have ended, gCanceledThread names the victim once its handler has
\* said so, and each worker's memory is freed by exactly one of handler and main.
THEOREM Inductive == PrSpec => []PrInv
<1>1. PrInv /\ [PrNext]_prVars => PrInv'
  <2> SUFFICES ASSUME PrInv, [PrNext]_prVars PROVE PrInv'
    OBVIOUS
  <2>1. CASE PrMainStep
    BY <2>1, CreateKeeps, SendCancelKeeps, JoinKeeps, WritePrimesKeeps, CleanupKeeps
    DEF PrMainStep
  <2>2. CASE PrMainDies
    BY <2>2, MainDiesKeeps
  <2>3. ASSUME NEW t \in PrWorker, PrWorkerStep(t) PROVE PrInv'
    BY <2>3, SleepKeeps, GenerateKeeps, ReportKeeps, HandlerLockKeeps,
       HandlerRecordKeeps, HandlerFreeKeeps DEF PrWorkerStep
  <2>4. ASSUME NEW t \in PrWorker, PrCancelled(t) PROVE PrInv'
    BY <2>4, CancelledKeeps
  <2>5. CASE UNCHANGED prVars
    BY <2>5, StutterKeeps
  <2> QED
    BY <2>1, <2>2, <2>3, <2>4, <2>5 DEF PrNext
<1> QED
  BY InitIInv, <1>1, PTL DEF PrSpec

---------------------------------------------------------------------------
(* The safety properties. *)

\* Type correctness of mt_primes2.c's model.
THEOREM TypeCorrect == PrSpec => []PrTypeOK
<1>1. PrInv => PrTypeOK
  BY DEF PrInv
<1> QED
  BY Inductive, <1>1, PTL

\* No worker, handler or main uses or frees memory that is not allocated.
THEOREM MemorySafeHolds == PrSpec => []PrMemorySafe
<1>1. PrInv => PrMemorySafe
  <2> SUFFICES ASSUME PrInv PROVE PrMemorySafe
    OBVIOUS
  <2> USE Workers DEF PrInv, PrTypeOK, PrHeap, Released, WasCancelled, PrProgress, Told
  <2>1. \A t \in PrWorker : par[t] # "corrupt" /\ buf[t] # "corrupt"
    OBVIOUS
  <2>2. ASSUME NEW t \in PrWorker, prPc[t] \notin {"none", "done"}
        PROVE  par[t] = "live" /\ buf[t] = "live"
    BY <2>2
  <2>3. ASSUME prMain = "write", prN # gCanceledThread
        PROVE  par[prN] = "live" /\ buf[prN] = "live"
    BY <2>3
  <2> QED
    BY <2>1, <2>2, <2>3 DEF PrMemorySafe
<1> QED
  BY Inductive, <1>1, PTL

\* What main skips in its cleanup loop the handler has freed.
THEOREM NoLeakHolds == PrSpec => []NoLeakAfterCancel
<1>1. PrInv => NoLeakAfterCancel
  BY Workers
  DEF PrInv, PrTypeOK, PrHeap, Released, WasCancelled, PrProgress, Told, NoLeakAfterCancel
<1> QED
  BY Inductive, <1>1, PTL

\* Main needs no mutex when it writes and cleans up: every worker has ended, so
\* gCanceledThread cannot change under it.
THEOREM AloneAtCleanupHolds == PrSpec => AloneAtCleanup
<1>1. PrInv /\ [PrNext]_prVars =>
        [(prMain \in {"write", "cleanup"}) => UNCHANGED <<gCanceledThread, prPc>>]_prVars
  <2> SUFFICES ASSUME PrInv, PrNext, prMain \in {"write", "cleanup"}
               PROVE  UNCHANGED <<gCanceledThread, prPc>>
    OBVIOUS
  <2>1. \A t \in PrWorker : prPc[t] = "done"
    BY DEF PrInv, PrProgress
  <2>2. ~ \E t \in PrWorker : PrWorkerStep(t) \/ PrCancelled(t)
    BY <2>1 DEF PrWorkerStep, Sleep, Generate, Report, PrCancelled, HandlerLock,
                HandlerRecord, HandlerFree
  <2> QED
    BY <2>2 DEF PrNext, PrMainStep, PrMainDies, PrCreate, PrSendCancel, PrJoin, WritePrimes, Cleanup
<1> QED
  BY Inductive, <1>1, PTL DEF PrSpec, AloneAtCleanup

\* When main writes a worker's buffer to the file, it holds every prime of the
\* worker's range and no composite number, whatever the ranges.
THEOREM PrimesNoCompositesHolds == PrSpec => []PrimesNoComposites
<1>1. ASSUME NEW t \in PrWorker
      PROVE  Primegen(PrimeRange[t][1], PrimeRange[t][2])
               = {x \in PrimeRange[t][1]..PrimeRange[t][2] : x = 1 \/ IsPrime(x)}
  <2>1. PrimeRange[t][1] \in Nat /\ PrimeRange[t][2] \in Nat /\ PrimeRange[t][2] >= 6
    BY MtPrimes2Assumption
  <2> QED
    BY <2>1, PrimegenExact
<1>2. PrInv => PrimesNoComposites
  <2> SUFFICES ASSUME PrInv, prMain = "write", prN # gCanceledThread,
                      NEW x \in PrimeRange[prN][1]..PrimeRange[prN][2]
               PROVE  (IsPrime(x) => x \in out[prN]) /\ (IsComposite(x) => x \notin out[prN])
    BY DEF PrimesNoComposites
  <2>1. prN \in PrWorker
    BY DEF PrInv, PrTypeOK
  <2>2. out[prN] = Primegen(PrimeRange[prN][1], PrimeRange[prN][2])
    BY DEF PrInv, PrTypeOK, PrProgress, Computed, WasCancelled
  <2>3. x \in out[prN] <=> x = 1 \/ IsPrime(x)
    BY <2>1, <2>2, <1>1
  <2>4. IsComposite(x) => x # 1 /\ ~ IsPrime(x)
    BY DEF IsComposite
  <2> QED
    BY <2>3, <2>4
<1> QED
  BY Inductive, <1>2, PTL

============================================================================
