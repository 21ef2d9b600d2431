----------------------------- MODULE MtPrimes2 -----------------------------
(***************************************************************************)
(* solutions_to_assgn/ch16/mt_primes2.c: three workers each generate the   *)
(* primes of a range into a buffer of their own; main joins them, writes   *)
(* the buffers to one file and frees them.  On request, main cancels       *)
(* worker 2, whose cleanup handler tells main, through gCanceledThread,    *)
(* that it has freed its buffer and its parameters itself.                 *)
(***************************************************************************)
EXTENDS Integers, Sequences

CONSTANTS
  PrimeRange,   \* prime_range: the {start, limit} pair of each worker
  Cancel        \* {FALSE}, {TRUE} or both: is worker 2 to be cancelled?

PrNTHREADS == 3
PrWorker == 0..(PrNTHREADS - 1)
Victim == 2
PrNobody == -1

\* simple_primegen asserts start <= limit; no limit in main's table is below 6.
ASSUME MtPrimes2Assumption ==
  /\ PrimeRange \in [PrWorker -> Nat \X Nat]
  /\ \A t \in PrWorker : PrimeRange[t][1] <= PrimeRange[t][2] /\ 6 <= PrimeRange[t][2]
  /\ Cancel \subseteq BOOLEAN

VARIABLES
  prCancel,        \* argv[1] is 1
  prMain, prN,     \* main's control point, its loop index
  prPc,            \* control point of a worker
  prOwner,         \* holder of mylock
  gCanceledThread,
  par, buf,        \* ToThread[t], its iobuf: "none", "live", "freed", "corrupt"
  out,             \* the numbers in each iobuf
  written, lost,   \* workers whose iobuf is in the file / failed to get there
  prPending        \* a cancellation was requested

heapVars == <<par, buf>>
prFile == <<written, lost>>
prVars == <<prCancel, prMain, prN, prPc, prOwner, gCanceledThread, heapVars, out, prFile, prPending>>

PrInit ==
  /\ prCancel \in Cancel
  /\ prMain = "create" /\ prN = 0
  /\ prPc = [t \in PrWorker |-> "none"]
  /\ prOwner = PrNobody
  /\ gCanceledThread = 0
  /\ par = [t \in PrWorker |-> "none"] /\ buf = [t \in PrWorker |-> "none"]
  /\ out = [t \in PrWorker |-> {}]
  /\ written = <<>> /\ lost = {}
  /\ prPending = FALSE

PrAlive == prMain # "fatal"

\* free(3)
Free(h, t) == [h EXCEPT ![t] = IF @ = "live" THEN "freed" ELSE "corrupt"]

---------------------------------------------------------------------------
(* simple_primegen: a number is printed unless some j below limit/2, other *)
(* than the number itself, divides it.                                     *)

\* Mutant of Divides: the number itself is not excepted.
DividesItself(j, x) == x % j = 0

Divides(j, x) == x # j /\ x % j = 0

Flagged(x, limit) == ~ \E j \in 2..((limit \div 2) - 1) : Divides(j, x)

Primegen(start, limit) == {x \in start..limit : Flagged(x, limit)}

---------------------------------------------------------------------------
(* The workers. *)

\* r_sleep of worker 2 ends.
Sleep(t) ==
  /\ PrAlive /\ prPc[t] = "sleep"
  /\ prPc' = [prPc EXCEPT ![t] = "generate"]
  /\ UNCHANGED <<prCancel, prMain, prN, prOwner, gCanceledThread, heapVars, out, prFile, prPending>>

Generate(t) ==
  /\ PrAlive /\ prPc[t] = "generate"
  /\ out' = [out EXCEPT ![t] = Primegen(PrimeRange[t][1], PrimeRange[t][2])]
  /\ prPc' = [prPc EXCEPT ![t] = "report"]
  /\ UNCHANGED <<prCancel, prMain, prN, prOwner, gCanceledThread, heapVars, prFile, prPending>>

\* The two printf calls, pop without running the handler, pthread_exit.
Report(t) ==
  /\ PrAlive /\ prPc[t] = "report"
  /\ prPc' = [prPc EXCEPT ![t] = "done"]
  /\ UNCHANGED <<prCancel, prMain, prN, prOwner, gCanceledThread, heapVars, out, prFile, prPending>>

\* nanosleep and printf are cancellation points, the computation is not.
PrCancelled(t) ==
  /\ PrAlive /\ t = Victim /\ prPending /\ prPc[t] \in {"sleep", "report"}
  /\ prPc' = [prPc EXCEPT ![t] = "lock"]
  /\ UNCHANGED <<prCancel, prMain, prN, prOwner, gCanceledThread, heapVars, out, prFile, prPending>>

\* cleanup_handler: LOCK_MTX ...
HandlerLock(t) ==
  /\ PrAlive /\ prPc[t] = "lock" /\ prOwner = PrNobody
  /\ prOwner' = t
  /\ prPc' = [prPc EXCEPT ![t] = "record"]
  /\ UNCHANGED <<prCancel, prMain, prN, gCanceledThread, heapVars, out, prFile, prPending>>

\* Mutant of HandlerRecord: main is not told.
HandlerSilent(t) ==
  /\ PrAlive /\ prPc[t] = "record"
  /\ prOwner' = PrNobody
  /\ prPc' = [prPc EXCEPT ![t] = "free"]
  /\ UNCHANGED <<prCancel, prMain, prN, gCanceledThread, heapVars, out, prFile, prPending>>

\* Mutant of HandlerRecord: LOCK_MTX again in place of UNLOCK_MTX.
HandlerRelock(t) ==
  /\ PrAlive /\ prPc[t] = "record"
  /\ gCanceledThread' = t
  /\ prPc' = [prPc EXCEPT ![t] = "lock"]
  /\ UNCHANGED <<prCancel, prMain, prN, prOwner, heapVars, out, prFile, prPending>>

\* ... gCanceledThread = thrdnum, UNLOCK_MTX ...
HandlerRecord(t) ==
  /\ PrAlive /\ prPc[t] = "record"
  /\ gCanceledThread' = t
  /\ prOwner' = PrNobody
  /\ prPc' = [prPc EXCEPT ![t] = "free"]
  /\ UNCHANGED <<prCancel, prMain, prN, heapVars, out, prFile, prPending>>

\* Mutant of HandlerFree: the handler leaves the parameters to main.
HandlerFreeBuf(t) ==
  /\ PrAlive /\ prPc[t] = "free"
  /\ buf' = Free(buf, t)
  /\ prPc' = [prPc EXCEPT ![t] = "done"]
  /\ UNCHANGED <<prCancel, prMain, prN, prOwner, gCanceledThread, par, out, prFile, prPending>>

\* ... free the buffer and the parameters.
HandlerFree(t) ==
  /\ PrAlive /\ prPc[t] = "free"
  /\ buf' = Free(buf, t) /\ par' = Free(par, t)
  /\ prPc' = [prPc EXCEPT ![t] = "done"]
  /\ UNCHANGED <<prCancel, prMain, prN, prOwner, gCanceledThread, out, prFile, prPending>>

PrWorkerStep(t) ==
  \/ Sleep(t) \/ Generate(t) \/ Report(t)
  \/ HandlerLock(t) \/ HandlerRecord(t) \/ HandlerFree(t)

---------------------------------------------------------------------------
(* The main thread. *)

\* Mutant of Loop: the next loop goes on with the index of this one.
LoopNoReset(here, next) ==
  /\ prMain' = IF prN + 1 = PrNTHREADS THEN next ELSE here
  /\ prN' = prN + 1

\* The end of a loop over the workers.
Loop(here, next) ==
  /\ prMain' = IF prN + 1 = PrNTHREADS THEN next ELSE here
  /\ prN' = IF prN + 1 = PrNTHREADS THEN 0 ELSE prN + 1

PrCreate ==
  /\ prMain = "create"
  /\ par' = [par EXCEPT ![prN] = "live"] /\ buf' = [buf EXCEPT ![prN] = "live"]
  /\ prPc' = [prPc EXCEPT ![prN] = IF prN = Victim THEN "sleep" ELSE "generate"]
  /\ Loop("create", IF prCancel THEN "cancel" ELSE "join")
  /\ UNCHANGED <<prCancel, prOwner, gCanceledThread, out, prFile, prPending>>

\* calloc or pthread_create failed, or pthread_cancel found that the thread
\* has already terminated: FATAL.
PrMainDies ==
  /\ prMain = "create" \/ (prMain = "cancel" /\ prPc[Victim] = "done")
  /\ prMain' = "fatal"
  /\ UNCHANGED <<prCancel, prN, prPc, prOwner, gCanceledThread, heapVars, out, prFile, prPending>>

PrSendCancel ==
  /\ prMain = "cancel" /\ prMain' = "join"
  /\ prPending' = TRUE
  /\ UNCHANGED <<prCancel, prN, prPc, prOwner, gCanceledThread, heapVars, out, prFile>>

\* Mutant of PrJoin: main does not wait for a worker it has cancelled.
PrJoinNoWait ==
  /\ prMain = "join" /\ (prPc[prN] = "done" \/ (prPending /\ prN = Victim))
  /\ Loop("join", "write")
  /\ UNCHANGED <<prCancel, prPc, prOwner, gCanceledThread, heapVars, out, prFile, prPending>>

PrJoin ==
  /\ prMain = "join" /\ prPc[prN] = "done"
  /\ Loop("join", "write")
  /\ UNCHANGED <<prCancel, prPc, prOwner, gCanceledThread, heapVars, out, prFile, prPending>>

\* One turn of write_the_primes; a write(2) that fails is only warned about, one
\* that is short passes unseen: in both cases the file lacks (part of) the buffer.
WritePrimes ==
  /\ prMain = "write"
  /\ \/ prN = gCanceledThread /\ UNCHANGED prFile
     \/ prN # gCanceledThread /\ written' = Append(written, prN) /\ UNCHANGED lost
     \/ prN # gCanceledThread /\ lost' = lost \cup {prN} /\ UNCHANGED written
  /\ Loop("write", "cleanup")
  /\ UNCHANGED <<prCancel, prPc, prOwner, gCanceledThread, heapVars, out, prPending>>

\* One turn of the cleanup loop; then close the file, end.
Cleanup ==
  /\ prMain = "cleanup"
  /\ IF prN = gCanceledThread THEN UNCHANGED heapVars
     ELSE buf' = Free(buf, prN) /\ par' = Free(par, prN)
  /\ Loop("cleanup", "done")
  /\ UNCHANGED <<prCancel, prPc, prOwner, gCanceledThread, out, prFile, prPending>>

PrMainStep == PrCreate \/ PrSendCancel \/ PrJoin \/ WritePrimes \/ Cleanup

PrNext == PrMainStep \/ PrMainDies \/ \E t \in PrWorker : PrWorkerStep(t) \/ PrCancelled(t)

PrSpec == PrInit /\ [][PrNext]_prVars

\* Every thread that can run is scheduled; a cancellation need not find its
\* target at a cancellation point.
PrFairness == WF_prVars(PrMainStep) /\ \A t \in PrWorker : WF_prVars(PrWorkerStep(t))

PrFairSpec == PrSpec /\ PrFairness

---------------------------------------------------------------------------
(* Properties. *)

HeapState == {"none", "live", "freed", "corrupt"}

PrTypeOK ==
  /\ prCancel \in Cancel /\ prPending \in BOOLEAN
  /\ prMain \in {"create", "cancel", "join", "write", "cleanup", "done", "fatal"}
  /\ prN \in PrWorker
  /\ prPc \in [PrWorker -> {"none", "sleep", "generate", "report",
                        "lock", "record", "free", "done"}]
  /\ prOwner \in PrWorker \cup {PrNobody}
  /\ gCanceledThread \in PrWorker
  /\ par \in [PrWorker -> HeapState] /\ buf \in [PrWorker -> HeapState]
  /\ out \in [PrWorker -> SUBSET Nat]
  /\ written \in Seq(PrWorker) /\ lost \subseteq PrWorker

\* Whoever uses a worker's buffer and parameters finds them allocated: the
\* worker, main when it writes, main and the handler when they free them.
PrMemorySafe ==
  /\ \A t \in PrWorker : par[t] # "corrupt" /\ buf[t] # "corrupt"
  /\ \A t \in PrWorker :
       prPc[t] \notin {"none", "done"} => par[t] = "live" /\ buf[t] = "live"
  /\ (prMain = "write" /\ prN # gCanceledThread) => par[prN] = "live" /\ buf[prN] = "live"

\* The comment in the cleanup loop: main runs alone now, no need for the mutex.
\* Whether a worker was cancelled is settled before main looks.
AloneAtCleanup ==
  [][(prMain \in {"write", "cleanup"}) => UNCHANGED <<gCanceledThread, prPc>>]_prVars

\* A worker was cancelled in this run (its handler freed its buffer).
WasCancelled == prPc[Victim] = "done" /\ gCanceledThread = Victim

\* After a cancellation nothing leaks: what main skips the handler has freed.
NoLeakAfterCancel ==
  (prMain = "done" /\ WasCancelled) =>
    \A t \in PrWorker : par[t] = "freed" /\ buf[t] = "freed"

\* What a worker's buffer holds when main writes it to the file: every prime of
\* the worker's range, though it is only tried against the divisors below half
\* of the range's limit, and no composite number.  (Of 1 OnlyPrimes speaks.)
IsPrime(x) == x >= 2 /\ \A d \in 2..(x - 1) : x % d # 0
IsComposite(x) == x >= 2 /\ ~ IsPrime(x)
PrimesNoComposites ==
  prMain = "write" /\ prN # gCanceledThread =>
    \A x \in PrimeRange[prN][1]..PrimeRange[prN][2] :
      (IsPrime(x) => x \in out[prN]) /\ (IsComposite(x) => x \notin out[prN])

\* The comment where a number is printed: "loop index 'i' is a prime!"
\* (Not true of the code: no j divides 1, which is printed as well.)
OnlyPrimes ==
  prMain = "write" /\ prN # gCanceledThread => \A x \in out[prN] : IsPrime(x)

\* The process ends, whenever the cancellation arrives.
PrTerminates == <>(prMain \in {"done", "fatal"})

\* What the header asks for: the workers' output is merged into the file, all
\* of it when no worker was cancelled and no write failed.
\* (Not true of the code: gCanceledThread is 0 when no worker was cancelled.)
AllMerged ==
  (prMain = "done" /\ ~ WasCancelled /\ lost = {}) =>
    \A t \in PrWorker : \E j \in 1..Len(written) : written[j] = t

---------------------------------------------------------------------------
(* The inductive invariant behind the safety properties. *)

\* How far main is tells which workers exist and which have ended.
PrProgress ==
  /\ prMain = "create" => \A t \in PrWorker : prPc[t] = "none" <=> t >= prN
  /\ prMain \notin {"create", "fatal"} => \A t \in PrWorker : prPc[t] # "none"
  /\ prMain = "cancel" => prN = 0
  /\ prMain = "join" => \A t \in PrWorker : t < prN => prPc[t] = "done"
  /\ prMain \in {"write", "cleanup", "done"} => \A t \in PrWorker : prPc[t] = "done"

\* gCanceledThread names the victim from the moment its handler says so.
Told ==
  /\ \A t \in PrWorker : prPc[t] \in {"sleep", "lock", "record", "free"} => t = Victim
  /\ gCanceledThread \in {0, Victim}
  /\ gCanceledThread = Victim => prPc[Victim] \in {"free", "done"}
  /\ prPc[Victim] = "free" => gCanceledThread = Victim

\* The worker's handler or main's cleanup loop has freed what worker t had.
Released(t) ==
  \/ t = Victim /\ WasCancelled
  \/ t # gCanceledThread /\ (prMain = "done" \/ (prMain = "cleanup" /\ t < prN))

PrHeap ==
  \A t \in PrWorker :
    LET state == IF prPc[t] = "none" THEN "none"
                 ELSE IF Released(t) THEN "freed" ELSE "live"
    IN  par[t] = state /\ buf[t] = state

\* A worker that has computed holds what simple_primegen prints.
Computed ==
  \A t \in PrWorker :
    prPc[t] = "report" \/ (prPc[t] = "done" /\ ~ (t = Victim /\ WasCancelled)) =>
      out[t] = Primegen(PrimeRange[t][1], PrimeRange[t][2])

PrInv == PrTypeOK /\ PrProgress /\ Told /\ PrHeap /\ Computed

============================================================================
