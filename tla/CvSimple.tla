------------------------------ MODULE CvSimple ------------------------------
(***************************************************************************)
(* ch15/cv_simple.c: thread B does some work, sets gWorkDone under         *)
(* mycv_mutex and signals mycv; thread A takes the mutex, waits on the     *)
(* condition variable and only then looks at gWorkDone.                    *)
(*                                                                         *)
(* pthread_cond_wait is three steps: it releases the mutex and blocks (one *)
(* atomic step), it is woken, by the signal or spuriously, and it takes    *)
(* the mutex again.  A signal that finds nobody blocked has no effect.     *)
(***************************************************************************)
EXTENDS Naturals

CONSTANT MaxSpurious   \* bound: spurious wakeups of thread A in a run

ASSUME CvAssumption == MaxSpurious \in Nat

VARIABLES
  gWorkDone,   \* the predicate the two threads share
  cvOwner,     \* holder of mycv_mutex: "A", "B" or "nobody"
  pcA, pcB,    \* control points of the workers
  cvMain,      \* control point of the main thread
  spurious     \* spurious wakeups so far

cvVars == <<gWorkDone, cvOwner, pcA, pcB, cvMain, spurious>>

CvInit ==
  /\ gWorkDone = FALSE
  /\ cvOwner = "nobody"
  /\ pcA = "none" /\ pcB = "none"
  /\ cvMain = "initcv"
  /\ spurious = 0

CvAlive == cvMain \notin {"fatal", "exit"}

---------------------------------------------------------------------------
(* workerA *)

\* LOCK_MTX before the loop.
LockA ==
  /\ CvAlive /\ pcA = "lock" /\ cvOwner = "nobody"
  /\ cvOwner' = "A" /\ pcA' = "wait"
  /\ UNCHANGED <<gWorkDone, pcB, cvMain, spurious>>

\* pthread_cond_wait: release the mutex and block.
Wait ==
  /\ CvAlive /\ pcA = "wait"
  /\ cvOwner' = "nobody" /\ pcA' = "blocked"
  /\ UNCHANGED <<gWorkDone, pcB, cvMain, spurious>>

SpuriousWakeup ==
  /\ CvAlive /\ pcA = "blocked" /\ spurious < MaxSpurious
  /\ spurious' = spurious + 1
  /\ pcA' = "woken"
  /\ UNCHANGED <<gWorkDone, cvOwner, pcB, cvMain>>

\* pthread_cond_wait returns with the mutex held.
Reacquire ==
  /\ CvAlive /\ pcA = "woken" /\ cvOwner = "nobody"
  /\ cvOwner' = "A" /\ pcA' = "recheck"
  /\ UNCHANGED <<gWorkDone, pcB, cvMain, spurious>>

\* Mutant of Recheck: any wakeup is taken for the signal.
RecheckNothing ==
  /\ CvAlive /\ pcA = "recheck"
  /\ pcA' = "unlock"
  /\ UNCHANGED <<gWorkDone, cvOwner, pcB, cvMain, spurious>>

\* if (gWorkDone) break; else back to waiting.
Recheck ==
  /\ CvAlive /\ pcA = "recheck"
  /\ pcA' = IF gWorkDone THEN "unlock" ELSE "wait"
  /\ UNCHANGED <<gWorkDone, cvOwner, pcB, cvMain, spurious>>

UnlockA ==
  /\ CvAlive /\ pcA = "unlock"
  /\ cvOwner' = "nobody" /\ pcA' = "done"
  /\ UNCHANGED <<gWorkDone, pcB, cvMain, spurious>>

WorkerA == LockA \/ Wait \/ Reacquire \/ Recheck \/ UnlockA

---------------------------------------------------------------------------
(* workerB *)

\* sleep(1) and the delay loop: nothing that A could observe.
Work ==
  /\ CvAlive /\ pcB = "work"
  /\ pcB' = "lock"
  /\ UNCHANGED <<gWorkDone, cvOwner, pcA, cvMain, spurious>>

LockB ==
  /\ CvAlive /\ pcB = "lock" /\ cvOwner = "nobody"
  /\ cvOwner' = "B" /\ pcB' = "set"
  /\ UNCHANGED <<gWorkDone, pcA, cvMain, spurious>>

SetDone ==
  /\ CvAlive /\ pcB = "set"
  /\ gWorkDone' = TRUE /\ pcB' = "signal"
  /\ UNCHANGED <<cvOwner, pcA, cvMain, spurious>>

\* Mutant of Signal: mycv is not signalled.
SignalForgotten ==
  /\ CvAlive /\ pcB = "signal"
  /\ pcB' = "unlock"
  /\ UNCHANGED <<gWorkDone, cvOwner, pcA, cvMain, spurious>>

Signal ==
  /\ CvAlive /\ pcB = "signal"
  /\ pcA' = IF pcA = "blocked" THEN "woken" ELSE pcA
  /\ pcB' = "unlock"
  /\ UNCHANGED <<gWorkDone, cvOwner, cvMain, spurious>>

\* Mutant of UnlockB: the mutex stays locked.
CvUnlockForgotten ==
  /\ CvAlive /\ pcB = "unlock"
  /\ pcB' = "done"
  /\ UNCHANGED <<gWorkDone, cvOwner, pcA, cvMain, spurious>>

UnlockB ==
  /\ CvAlive /\ pcB = "unlock"
  /\ cvOwner' = "nobody" /\ pcB' = "done"
  /\ UNCHANGED <<gWorkDone, pcA, cvMain, spurious>>

WorkerB == Work \/ LockB \/ SetDone \/ Signal \/ UnlockB

---------------------------------------------------------------------------
(* main *)

InitCv ==
  /\ cvMain = "initcv" /\ cvMain' = "createA"
  /\ UNCHANGED <<gWorkDone, cvOwner, pcA, pcB, spurious>>

\* Mutant of CreateA: thread A is started on the routine of thread B.
CreateAWrongRoutine ==
  /\ cvMain = "createA" /\ cvMain' = "createB"
  /\ pcA' = "work"
  /\ UNCHANGED <<gWorkDone, cvOwner, pcB, spurious>>

CreateA ==
  /\ cvMain = "createA" /\ cvMain' = "createB"
  /\ pcA' = "lock"
  /\ UNCHANGED <<gWorkDone, cvOwner, pcB, spurious>>

CreateB ==
  /\ cvMain = "createB" /\ cvMain' = "joinA"
  /\ pcB' = "work"
  /\ UNCHANGED <<gWorkDone, cvOwner, pcA, spurious>>

\* An init or create call failed, or a lock, unlock, wait or signal of a worker:
\* FATAL, the process exits.
CvFail ==
  /\ \/ cvMain \in {"initcv", "createA", "createB"}
     \/ CvAlive /\ (pcA \in {"lock", "wait", "unlock"} \/ pcB \in {"lock", "signal", "unlock"})
  /\ cvMain' = "fatal"
  /\ UNCHANGED <<gWorkDone, cvOwner, pcA, pcB, spurious>>

\* Mutant of JoinA: the join loop starts at thread B.
JoinASkipped ==
  /\ cvMain = "joinA" /\ cvMain' = "joinB"
  /\ UNCHANGED <<gWorkDone, cvOwner, pcA, pcB, spurious>>

JoinA ==
  /\ cvMain = "joinA" /\ pcA = "done" /\ cvMain' = "joinB"
  /\ UNCHANGED <<gWorkDone, cvOwner, pcA, pcB, spurious>>

JoinB ==
  /\ cvMain = "joinB" /\ pcB = "done" /\ cvMain' = "destroy"
  /\ UNCHANGED <<gWorkDone, cvOwner, pcA, pcB, spurious>>

\* Destroy the mutex and the condition variable, exit.
CvDestroy ==
  /\ cvMain = "destroy" /\ cvMain' = "exit"
  /\ UNCHANGED <<gWorkDone, cvOwner, pcA, pcB, spurious>>

CvMainStep == InitCv \/ CreateA \/ CreateB \/ JoinA \/ JoinB \/ CvDestroy

CvNext == CvMainStep \/ CvFail \/ WorkerA \/ SpuriousWakeup \/ WorkerB

CvSpec == CvInit /\ [][CvNext]_cvVars

\* Every thread that can run is scheduled; failures and spurious wakeups are
\* not promised.  Each thread asks for the mutex finitely often, so weak
\* fairness serves it.
CvFairness == WF_cvVars(CvMainStep) /\ WF_cvVars(WorkerA) /\ WF_cvVars(WorkerB)

CvFairSpec == CvSpec /\ CvFairness

---------------------------------------------------------------------------
(* Properties. *)

CvTypeOK ==
  /\ gWorkDone \in BOOLEAN
  /\ cvOwner \in {"nobody", "A", "B"}
  /\ pcA \in {"none", "lock", "wait", "blocked", "woken", "recheck", "unlock", "done"}
  /\ pcB \in {"none", "work", "lock", "set", "signal", "unlock", "done"}
  /\ cvMain \in {"initcv", "createA", "createB", "joinA", "joinB", "destroy",
               "exit", "fatal"}
  /\ spurious \in 0..MaxSpurious

HoldsA == pcA \in {"wait", "recheck", "unlock"}
HoldsB == pcB \in {"set", "signal", "unlock"}

\* Thread A goes on only after B's work, however often it is woken without
\* a signal, and it finds the work complete: B has left its critical section.
ContinueAfterWork ==
  pcA \in {"unlock", "done"} => gWorkDone /\ ~ HoldsB /\ pcB \notin {"work", "lock"}

\* main destroys the mutex and the condition variable, and leaves the process,
\* only when both threads have ended and nobody holds the mutex.
NoUseAfterDestroy ==
  cvMain \in {"destroy", "exit"} =>
    pcA = "done" /\ pcB = "done" /\ cvOwner = "nobody"

\* A thread A that is on the condition variable before the work is reported
\* is always served: it continues, and the process comes to its end.
WaiterServed ==
  (pcA = "blocked" /\ ~ gWorkDone) ~> cvMain \in {"exit", "fatal"}

\* What the comment over workerA says: A waits until B completes the work.
\* (Not true of the code: A does not look at gWorkDone before it waits.)
AContinues == (pcA = "lock") ~> (pcA = "done" \/ cvMain = "fatal")

\* The state the code can be stuck in, and the only one: A was late for the
\* signal and sleeps on a condition variable nobody will signal again.
LateWaiter == pcA = "blocked" /\ gWorkDone /\ pcB \in {"unlock", "done"}

\* A run that does not end is stuck there, and nowhere else.
EndsOrLate == <>[](cvMain \in {"exit", "fatal"} \/ LateWaiter)

---------------------------------------------------------------------------
(* The inductive invariant behind ContinueAfterWork and NoUseAfterDestroy. *)

CvExclusive == (cvOwner = "A" <=> HoldsA) /\ (cvOwner = "B" <=> HoldsB)

CvInv ==
  /\ CvTypeOK
  /\ CvExclusive
  /\ gWorkDone <=> pcB \in {"signal", "unlock", "done"}
  /\ pcA \in {"unlock", "done"} => pcB \in {"unlock", "done"}
  /\ ContinueAfterWork
  /\ cvMain \in {"initcv", "createA"} => pcA = "none"
  /\ cvMain \in {"initcv", "createA", "createB"} => pcB = "none"
  /\ cvMain \in {"joinB", "destroy", "exit"} => pcA = "done"
  /\ cvMain \in {"destroy", "exit"} => pcB = "done"

============================================================================
