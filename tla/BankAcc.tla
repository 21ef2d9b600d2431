------------------------------ MODULE BankAcc ------------------------------
(***************************************************************************)
(* solutions_to_assgn/ch15/bankacc.c: NTHREADS worker threads each perform *)
(* two operations on the shared gBalance, inside one critical section when *)
(* the program was started with argument 1 (Locking), and in a data race   *)
(* when it was started with 0.  The main thread creates the workers, joins *)
(* them, destroys the mutex and prints the closing balance.                *)
(*                                                                         *)
(* An access of gBalance is a step of its own: the guard of withdraw()     *)
(* reads it, and `gBalance += amt' is a load followed by a store.          *)
(***************************************************************************)
EXTENDS BankOps, Sequences

CONSTANT Locking   \* gLocking, set from the command line

ASSUME LockingAssumption == Locking \in BOOLEAN

NoThread == 0

VARIABLES
  gBalance,   \* the account
  mutex,      \* mylock: "raw" (never initialised), "live", "destroyed"
  owner,      \* the thread that holds mylock, or NoThread
  pc,         \* control point of each worker
  k,          \* which of its two operations a worker is at
  reg,        \* the value a worker loaded from gBalance
  main,       \* control point of the main thread
  n,          \* main's loop index: workers created, then workers joined
  closing     \* the closing balance main printed: <<>> before

vars == <<gBalance, mutex, owner, pc, k, reg, main, n, closing>>
workerVars == <<pc, k, reg>>
mainVars == <<mutex, main, n, closing>>

Init ==
  /\ gBalance = Opening
  /\ mutex = "raw"
  /\ owner = NoThread
  /\ pc = [t \in Thread |-> "none"]
  /\ k = [t \in Thread |-> 1]
  /\ reg = [t \in Thread |-> 0]
  /\ main = "init"
  /\ n = 0
  /\ closing = <<>>

\* FATAL() in any thread ends the whole process.
Alive == main # "fatal"

CurOp(t) == Script[t][k[t]]

---------------------------------------------------------------------------
(* The worker threads. *)

\* Mutant of Lock: a LOCK that does not wait for the present owner.
LockNoWait(t) ==
  /\ Alive /\ pc[t] = "lock"
  /\ owner' = IF Locking THEN t ELSE owner
  /\ pc' = [pc EXCEPT ![t] = "op"]
  /\ UNCHANGED <<gBalance, k, reg, mainVars>>

\* The LOCK macro: pthread_mutex_lock blocks while another thread owns mylock.
Lock(t) ==
  /\ Alive /\ pc[t] = "lock"
  /\ Locking => owner = NoThread
  /\ owner' = IF Locking THEN t ELSE owner
  /\ pc' = [pc EXCEPT ![t] = "op"]
  /\ UNCHANGED <<gBalance, k, reg, mainVars>>

\* Return from deposit() or withdraw(): on to the second call, or to UNLOCK.
Return(t) ==
  /\ k' = [k EXCEPT ![t] = 2]
  /\ pc' = [pc EXCEPT ![t] = IF k[t] = 1 THEN "op" ELSE "unlock"]

Refuse(t) ==
  /\ Alive /\ pc[t] = "op"
  /\ Refused(CurOp(t), gBalance)
  /\ Return(t)
  /\ UNCHANGED <<gBalance, owner, reg, mainVars>>

Accept(t) ==
  /\ Alive /\ pc[t] = "op"
  /\ ~ Refused(CurOp(t), gBalance)
  /\ pc' = [pc EXCEPT ![t] = "load"]
  /\ UNCHANGED <<gBalance, owner, k, reg, mainVars>>

\* gBalance += amt, gBalance -= amt: the load ...
Load(t) ==
  /\ Alive /\ pc[t] = "load"
  /\ reg' = [reg EXCEPT ![t] = gBalance]
  /\ pc' = [pc EXCEPT ![t] = "store"]
  /\ UNCHANGED <<gBalance, owner, k, mainVars>>

\* ... and the store.
Store(t) ==
  /\ Alive /\ pc[t] = "store"
  /\ gBalance' = Effect(CurOp(t), reg[t])
  /\ Return(t)
  /\ UNCHANGED <<owner, reg, mainVars>>

\* Mutant of Unlock: mylock is not released.
UnlockForgotten(t) ==
  /\ Alive /\ pc[t] = "unlock"
  /\ pc' = [pc EXCEPT ![t] = "done"]
  /\ UNCHANGED <<gBalance, owner, k, reg, mainVars>>

\* The UNLOCK macro, then pthread_exit.
Unlock(t) ==
  /\ Alive /\ pc[t] = "unlock"
  /\ owner' = IF Locking THEN NoThread ELSE owner
  /\ pc' = [pc EXCEPT ![t] = "done"]
  /\ UNCHANGED <<gBalance, k, reg, mainVars>>

Worker(t) ==
  Lock(t) \/ Refuse(t) \/ Accept(t) \/ Load(t) \/ Store(t) \/ Unlock(t)

---------------------------------------------------------------------------
(* The main thread. *)

InitMutex ==
  /\ main = "init"
  /\ mutex' = IF Locking THEN "live" ELSE "raw"
  /\ main' = "create"
  /\ UNCHANGED <<gBalance, owner, workerVars, n, closing>>

\* Mutant of Create: the loop index restarts below zero.
CreateWrongReset ==
  /\ main = "create"
  /\ pc' = [pc EXCEPT ![n + 1] = "lock"]
  /\ main' = IF n + 1 = NTHREADS THEN "join" ELSE main
  /\ n' = IF n + 1 = NTHREADS THEN -1 ELSE n + 1
  /\ UNCHANGED <<gBalance, mutex, owner, k, reg, closing>>

Create ==
  /\ main = "create"
  /\ pc' = [pc EXCEPT ![n + 1] = "lock"]
  /\ main' = IF n + 1 = NTHREADS THEN "join" ELSE main
  /\ n' = IF n + 1 = NTHREADS THEN 0 ELSE n + 1
  /\ UNCHANGED <<gBalance, mutex, owner, k, reg, closing>>

\* pthread_create failed or, with locking on, a call on mylock, of main or of a
\* worker: FATAL, exit of the process.
Fail ==
  /\ \/ main = "create"
     \/ Locking /\ main \in {"init", "destroy"}
     \/ Locking /\ Alive /\ \E t \in Thread : pc[t] \in {"lock", "unlock"}
  /\ main' = "fatal"
  /\ UNCHANGED <<gBalance, mutex, owner, workerVars, n, closing>>

\* Mutant of Join: the join loop leaves the last worker out.
JoinTooFew ==
  /\ main = "join"
  /\ pc[n + 1] = "done"
  /\ main' = IF n + 2 >= NTHREADS THEN "destroy" ELSE main
  /\ n' = n + 1
  /\ UNCHANGED <<gBalance, mutex, owner, workerVars, closing>>

\* pthread_join blocks until the worker has terminated.
Join ==
  /\ main = "join"
  /\ pc[n + 1] = "done"
  /\ main' = IF n + 1 = NTHREADS THEN "destroy" ELSE main
  /\ n' = n + 1
  /\ UNCHANGED <<gBalance, mutex, owner, workerVars, closing>>

Destroy ==
  /\ main = "destroy"
  /\ mutex' = IF Locking THEN "destroyed" ELSE mutex
  /\ main' = "close"
  /\ UNCHANGED <<gBalance, owner, workerVars, n, closing>>

\* "Closing Balance", then pthread_exit: the process ends with its last thread.
Close ==
  /\ main = "close"
  /\ closing' = <<gBalance>>
  /\ main' = "done"
  /\ UNCHANGED <<gBalance, mutex, owner, workerVars, n>>

Main == InitMutex \/ Create \/ Fail \/ Join \/ Destroy \/ Close

Next == Main \/ \E t \in Thread : Worker(t)

Spec == Init /\ [][Next]_vars

\* The kernel schedules every runnable thread, and each worker takes the lock
\* once, so weak fairness is enough; a failing pthread_create is not forced.
Fairness ==
  /\ WF_vars(InitMutex \/ Create \/ Join \/ Destroy \/ Close)
  /\ \A t \in Thread : WF_vars(Worker(t))

FairSpec == Spec /\ Fairness

---------------------------------------------------------------------------
(* Properties. *)

WorkerPC == {"none", "lock", "op", "load", "store", "unlock", "done"}

TypeOK ==
  /\ gBalance \in Int
  /\ mutex \in {"raw", "live", "destroyed"}
  /\ owner \in Thread \cup {NoThread}
  /\ pc \in [Thread -> WorkerPC]
  /\ k \in [Thread -> 1..2]
  /\ reg \in [Thread -> Int]
  /\ main \in {"init", "create", "join", "destroy", "close", "done", "fatal"}
  /\ n \in Nat
  /\ closing \in Seq(Int)

Inside(t) == pc[t] \in {"op", "load", "store", "unlock"}

\* The circuit breaker of withdraw() works: with locking on, an account that
\* opens with the minimum credit never holds less, whatever the threads'
\* operations and however they interleave.
CreditFloor == (Locking /\ Opening >= MinCredit) => gBalance >= MinCredit

\* main destroys mylock and takes the closing balance only when no worker can
\* still use either, and no worker runs before mylock is initialised.
MutexLifetime ==
  Locking =>
    \A t \in Thread : pc[t] = "lock" \/ Inside(t) => mutex = "live"

\* With locking on, the program is the serial one: a thread's transaction
\* counts as done from the moment the thread takes mylock, so the balance an
\* outsider sees is the one the owner will leave behind.
AfterCurrent(t) ==
  CASE pc[t] = "op"    -> Apply(CurOp(t), gBalance)
    [] pc[t] = "load"  -> Effect(CurOp(t), gBalance)
    [] pc[t] = "store" -> Effect(CurOp(t), reg[t])
    [] OTHER           -> gBalance

Settled ==
  IF owner = NoThread THEN gBalance
  ELSE IF k[owner] = 1 THEN Apply(Script[owner][2], AfterCurrent(owner))
                       ELSE AfterCurrent(owner)

NotStarted == {t \in Thread : pc[t] \in {"none", "lock"}}

Bank == INSTANCE AtomicBank WITH balance <- Settled, todo <- NotStarted

\* Every run with locking on is a run of AtomicBank: no update is lost, no
\* withdrawal is decided on a balance that is not there any more, and the
\* closing balance is the outcome of some serial order of the transactions.
Serializable == Bank!Spec

\* The closing balance is printed unless creating the mutex or a thread failed.
Closes == <>(main \in {"done", "fatal"})

---------------------------------------------------------------------------
(* The inductive invariant behind MutexLifetime, CreditFloor, Serializable. *)

\* Who is inside owns mylock, and the owner is inside.
Exclusive ==
  IF Locking
    THEN /\ \A t \in Thread : Inside(t) => owner = t
         /\ owner # NoThread => Inside(owner)
    ELSE owner = NoThread

\* What a worker has decided and loaded still holds when it stores.
Fresh ==
  Locking =>
    \A t \in Thread :
      /\ pc[t] \in {"load", "store"} => ~ Refused(CurOp(t), gBalance)
      /\ pc[t] = "store" => reg[t] = gBalance

\* Where main is says which workers exist and which have ended.
Progress ==
  /\ \A t \in Thread :
       (pc[t] \in {"none", "lock"} => k[t] = 1) /\ (pc[t] = "unlock" => k[t] = 2)
  /\ main = "init" => n = 0 /\ \A t \in Thread : pc[t] = "none"
  /\ main = "create" =>
       n < NTHREADS /\ \A t \in Thread : pc[t] = "none" <=> t > n
  /\ main = "join" =>
       n < NTHREADS /\ \A t \in Thread : pc[t] # "none" /\ (t <= n => pc[t] = "done")
  /\ main \in {"destroy", "close", "done"} => \A t \in Thread : pc[t] = "done"
  /\ main # "done" => closing = <<>>
  /\ (Locking /\ main \in {"create", "join", "destroy"}) => mutex = "live"

IInv ==
  TypeOK /\ Exclusive /\ Fresh /\ Progress /\ MutexLifetime /\ CreditFloor

===========================================================================
