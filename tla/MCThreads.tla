----------------------------- MODULE MCThreads -----------------------------
(***************************************************************************)
(* The multithreaded programs, checked in one run.  They share nothing:    *)
(* the initial state chooses one of them, and the others stay where they   *)
(* are, each in one of its initial states.                                 *)
(***************************************************************************)
EXTENDS MCBankAcc, CvSimple, MtCopy, MtIobuf, MCMtPrimes2

VARIABLE threads   \* the program that runs

thVars == <<threads, vars, cvVars, mtVars, ioVars, prVars>>

ThInit ==
  /\ threads \in {"bankacc", "cv_simple", "mt_copy", "iobuf", "mt_primes2"}
  /\ Init
  /\ CvInit
  /\ MtInit /\ (threads # "mt_copy" => numthrds = 2 /\ fsize = 0 /\ ~ short)
  /\ IoInit /\ (threads # "iobuf" => variant = "mtx" /\ ~ faulty)
  /\ PrInit /\ (threads # "mt_primes2" => ~ prCancel)

\* Program p takes a step, and no other.
Only(p) ==
  /\ threads = p /\ UNCHANGED threads
  /\ p # "bankacc" => UNCHANGED vars
  /\ p # "cv_simple" => UNCHANGED cvVars
  /\ p # "mt_copy" => UNCHANGED mtVars
  /\ p # "iobuf" => UNCHANGED ioVars
  /\ p # "mt_primes2" => UNCHANGED prVars

ThNext ==
  \/ Only("bankacc") /\ Next
  \/ Only("cv_simple") /\ CvNext
  \/ Only("mt_copy") /\ MtNext
  \/ Only("iobuf") /\ IoNext
  \/ Only("mt_primes2") /\ PrNext

MainSteps ==
  \/ Only("bankacc") /\ (InitMutex \/ Create \/ Join \/ Destroy \/ Close)
  \/ Only("cv_simple") /\ CvMainStep
  \/ Only("mt_copy") /\ (MtCreate \/ MtJoin)
  \/ Only("iobuf") /\ IoMainStep
  \/ Only("mt_primes2") /\ PrMainStep

ThWorker == Thread \cup MtWorker \cup IoWorker \cup PrWorker

WorkerSteps(t) ==
  \/ Only("bankacc") /\ t \in Thread /\ Worker(t)
  \/ Only("cv_simple") /\ t = 1 /\ WorkerA
  \/ Only("cv_simple") /\ t = 2 /\ WorkerB
  \/ Only("mt_copy") /\ t \in MtWorker /\ MtWorkerStep(t)
  \/ Only("iobuf") /\ t \in IoWorker /\ IoWorkerStep(t)
  \/ Only("mt_primes2") /\ t \in PrWorker /\ PrWorkerStep(t)

\* The fairness of the program that was chosen, as its module states it: each of
\* its threads runs.
ThFairness == WF_thVars(MainSteps) /\ \A t \in ThWorker : WF_thVars(WorkerSteps(t))

ThSpec == ThInit /\ [][ThNext]_thVars /\ ThFairness

---------------------------------------------------------------------------
(* Properties. *)

ThreadsTypeOK == TypeOK /\ CvTypeOK /\ MtTypeOK /\ IoTypeOK /\ PrTypeOK

\* The bank closes: whatever the other customers do, each worker comes out of its
\* lock and main out of its joins, unless a call fails.
BankCloses == (threads = "bankacc") => Closes

\* cv_simple ends, unless thread A begins to wait when B has signalled already.
CvEnds == (threads = "cv_simple") => EndsOrLate

\* The copy loops end, short and failing transfers included, and main joins them.
CopyEnds == (threads = "mt_copy") => MtTerminates

\* The IO loops end with a cancellation at any point, and nobody keeps mylock.
IobufEnds == (threads = "iobuf") => IoTerminates

\* mt_primes2 ends whenever worker 2 is cancelled, its handler's lock included.
PrimesEnd == (threads = "mt_primes2") => PrTerminates

===========================================================================
