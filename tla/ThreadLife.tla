----------------------------- MODULE ThreadLife -----------------------------
(***************************************************************************)
(* Creating threads, handing each its parameter, joining or cancelling     *)
(* them: the programs of ch14, ch16/cancelit.c and three assignments.      *)
(* They differ in how the parameter is passed, in how main waits, when it  *)
(* frees the parameters, and in how main ends.                             *)
(***************************************************************************)
EXTENDS Naturals

CONSTANT TlThreads   \* NTHREADS

ASSUME TlAssumption == TlThreads \in Nat \ {0}

Worker == 0..(TlThreads - 1)

\* param: the value itself, a block "own" to the thread, one "shared" block,
\*        or the address of main's loop variable ("index")
\* join:  "none", "wait" for each thread in turn, or wait with a timeout
\* frees: a worker's block after its join ("joined" if that succeeded), or the
\*        shared one at the "end"
\* exits: main ends with exit, which ends the process, or with pthread_exit
Pthreads1 == [param |-> "value", join |-> "none", frees |-> "none", exits |-> TRUE]
Pthreads2 == [param |-> "value", join |-> "none", frees |-> "none", exits |-> FALSE]
Pthreads3 == Pthreads2
Pthreads1Wrong == [param |-> "index", join |-> "none", frees |-> "none", exits |-> TRUE]
Joiner1 == [param |-> "value", join |-> "wait", frees |-> "none", exits |-> FALSE]
Joiner2 == Joiner1
StructAsParam == [param |-> "own", join |-> "wait", frees |-> "joined", exits |-> FALSE]
Joiner3 == StructAsParam
MtPrimes1 == StructAsParam
JoinerBuggy3 == [param |-> "shared", join |-> "wait", frees |-> "end", exits |-> FALSE]
Joiner4 == [param |-> "own", join |-> "timed", frees |-> "joined", exits |-> FALSE]

TlPrograms ==
  {Pthreads1, Pthreads2, Pthreads3, Pthreads1Wrong, Joiner1, Joiner2,
   StructAsParam, Joiner3, MtPrimes1, JoinerBuggy3, Joiner4}

VARIABLES
  tlProg,     \* the program
  cancels,    \* it is cancelit: worker 0 starts with cancellation disabled
  tlMain,     \* control point of main
  tl_i,       \* main's loop variable
  thread,     \* control point of each worker
  block,      \* each worker's parameter block; the shared one is block[0]
  passthis,   \* what the shared block says
  got,        \* the thread number each worker has read
  requested,  \* pthread_cancel has been called
  status      \* how each worker ended: "alive", "success", "canceled", "canceled early"

tlWorker == <<thread, got, status>>
tlVars == <<tlProg, cancels, tlMain, tl_i, block, passthis, requested, tlWorker>>

Unread == TlThreads + 1

TlInit ==
  /\ \/ tlProg \in TlPrograms /\ cancels = FALSE
     \/ tlProg = Joiner1 /\ cancels = TRUE
  /\ tlMain = "create" /\ tl_i = 0
  /\ thread = [w \in Worker |-> "none"]
  /\ block = [w \in Worker |-> "none"] /\ passthis = Unread
  /\ got = [w \in Worker |-> Unread]
  /\ requested = FALSE
  /\ status = [w \in Worker |-> "alive"]

Running0 == tlMain # "exit"

\* The block a worker's parameter is in.
Param(w) == IF tlProg.param = "shared" THEN block[0] ELSE block[w]

---------------------------------------------------------------------------
(* main *)

CreateThread ==
  /\ tlMain = "create" /\ tl_i < TlThreads
  /\ block' = IF tlProg.param = "own" THEN [block EXCEPT ![tl_i] = "live"]
              ELSE IF tlProg.param = "shared" THEN [block EXCEPT ![0] = "live"] ELSE block
  /\ passthis' = IF tlProg.param = "shared" THEN tl_i ELSE passthis
  /\ thread' = [thread EXCEPT ![tl_i] = "created"]
  /\ tlMain' = "next"
  /\ UNCHANGED <<tlProg, cancels, tl_i, requested, got, status>>

NextIndex ==
  /\ tlMain = "next"
  /\ tl_i' = tl_i + 1 /\ tlMain' = "create"
  /\ UNCHANGED <<tlProg, cancels, block, passthis, requested, tlWorker>>

\* calloc or pthread_create failed: FATAL, whatever has been started.
CreateThreadFails ==
  /\ tlMain = "create" /\ tl_i < TlThreads
  /\ tlMain' = "exit"
  /\ UNCHANGED <<tlProg, cancels, tl_i, block, passthis, requested, tlWorker>>

AllThreadsCreated ==
  /\ tlMain = "create" /\ tl_i = TlThreads
  /\ IF tlProg.join = "none" THEN tlMain' = "end" /\ UNCHANGED tl_i ELSE tlMain' = "join" /\ tl_i' = 0
  /\ requested' = cancels
  /\ UNCHANGED <<tlProg, cancels, block, passthis, tlWorker>>

Freed(w) == IF tlProg.frees = "joined" THEN [block EXCEPT ![w] = "freed"] ELSE block

\* Mutant of Join: the join does not wait.
JoinNoWait ==
  /\ tlMain = "join" /\ tl_i < TlThreads
  /\ block' = Freed(tl_i) /\ tl_i' = tl_i + 1
  /\ UNCHANGED <<tlProg, cancels, tlMain, passthis, requested, tlWorker>>

Join ==
  /\ tlMain = "join" /\ tl_i < TlThreads
  /\ thread[tl_i] = "ended"
  /\ block' = Freed(tl_i) /\ tl_i' = tl_i + 1
  /\ UNCHANGED <<tlProg, cancels, tlMain, passthis, requested, tlWorker>>

\* pthread_timedjoin_np: the block is not freed.
JoinTimesOut ==
  /\ tlMain = "join" /\ tl_i < TlThreads /\ tlProg.join = "timed"
  /\ tl_i' = tl_i + 1
  /\ UNCHANGED <<tlProg, cancels, tlMain, block, passthis, requested, tlWorker>>

AllJoined ==
  /\ tlMain = "join" /\ tl_i = TlThreads
  /\ block' = IF tlProg.frees = "end" THEN [block EXCEPT ![0] = "freed"] ELSE block
  /\ tlMain' = "end"
  /\ UNCHANGED <<tlProg, cancels, tl_i, passthis, requested, tlWorker>>

\* exit ends the process; after pthread_exit it lasts as long as a thread does.
MainEnds ==
  /\ tlMain = "end"
  /\ tlProg.exits \/ \A w \in Worker : thread[w] = "ended"
  /\ tlMain' = "exit"
  /\ UNCHANGED <<tlProg, cancels, tl_i, block, passthis, requested, tlWorker>>

---------------------------------------------------------------------------
(* The workers. *)

Reads(w) ==
  CASE tlProg.param = "shared" -> passthis
    [] tlProg.param = "index" -> tl_i
    [] OTHER -> w

\* The worker reads its parameter; in cancelit worker 0 disables cancellation.
ReadParam(w) ==
  /\ Running0 /\ thread[w] = "created"
  /\ got' = [got EXCEPT ![w] = Reads(w)]
  /\ thread' = [thread EXCEPT ![w] = IF cancels /\ w = 0 THEN "critical" ELSE "work"]
  /\ UNCHANGED <<tlProg, cancels, tlMain, tl_i, block, passthis, requested, status>>

EnableCancel(w) ==
  /\ Running0 /\ thread[w] = "critical"
  /\ thread' = [thread EXCEPT ![w] = "work"]
  /\ UNCHANGED <<tlProg, cancels, tlMain, tl_i, block, passthis, requested, got, status>>

\* sleep, the last look at the parameter, pthread_exit.
ThreadEnds(w) ==
  /\ Running0 /\ thread[w] = "work"
  /\ thread' = [thread EXCEPT ![w] = "ended"]
  /\ status' = [status EXCEPT ![w] = "success"]
  /\ UNCHANGED <<tlProg, cancels, tlMain, tl_i, block, passthis, requested, got>>

\* The request is acted upon at sleep, or at the printf before the critical part.
Canceled(w) ==
  /\ Running0 /\ requested /\ w = 0 /\ thread[w] \in {"created", "work"}
  /\ thread' = [thread EXCEPT ![w] = "ended"]
  /\ status' = [status EXCEPT ![w] = IF thread[w] = "created" THEN "canceled early" ELSE "canceled"]
  /\ UNCHANGED <<tlProg, cancels, tlMain, tl_i, block, passthis, requested, got>>

TlNext ==
  \/ CreateThread \/ NextIndex \/ CreateThreadFails \/ AllThreadsCreated
  \/ Join \/ JoinTimesOut \/ AllJoined \/ MainEnds
  \/ \E w \in Worker : ReadParam(w) \/ EnableCancel(w) \/ ThreadEnds(w) \/ Canceled(w)

TlSpec == TlInit /\ [][TlNext]_tlVars

---------------------------------------------------------------------------
(* Properties. *)

TlTypeOK ==
  /\ tlProg \in TlPrograms /\ cancels \in BOOLEAN /\ requested \in BOOLEAN
  /\ tlMain \in {"create", "next", "join", "end", "exit"} /\ tl_i \in 0..TlThreads
  /\ thread \in [Worker -> {"none", "created", "critical", "work", "ended"}]
  /\ block \in [Worker -> {"none", "live", "freed"}]
  /\ passthis \in Worker \cup {Unread} /\ got \in [Worker -> 0..Unread]
  /\ status \in [Worker -> {"alive", "success", "canceled", "canceled early"}]

\* A thread reads its own number where the parameter is a value or a block of
\* its own; where all share one it may read a later thread's, never an earlier
\* one's.  No block is freed while its thread may still read it, not even when
\* a join has timed out.  A cancelled thread did its critical work or none.
ParamsOutlive ==
  /\ \A w \in Worker : got[w] # Unread =>
       /\ (tlProg.param \in {"value", "own"}) => (got[w] = w)
       /\ got[w] \in w..TlThreads
       /\ (tlProg.param = "shared") => (got[w] # TlThreads)
  /\ \A w \in Worker : thread[w] \in {"created", "critical", "work"} => Param(w) # "freed"
  /\ (tlMain = "exit" /\ tlProg.join = "wait" /\ tl_i = TlThreads) =>
       \A w \in Worker : block[w] # "live" /\ (status[w] = "canceled" => requested)

\* main starts the threads in order; a thread that has not started has read
\* nothing, and what it will read names itself or a later thread.
TlStarted ==
  /\ tlMain = "create" => \A w \in Worker : thread[w] # "none" => w < tl_i
  /\ tlMain = "next" => tl_i \in Worker /\ \A w \in Worker : thread[w] # "none" => w <= tl_i
  /\ \A w \in Worker :
       /\ thread[w] \in {"none", "created"} => got[w] = Unread
       /\ thread[w] # "none" =>
            /\ tlProg.param = "index" => w <= tl_i
            /\ tlProg.param = "shared" => passthis \in Worker /\ w <= passthis

\* No thread is cancelled unasked, nor before main has started them all.
TlCancels ==
  /\ \A w \in Worker : status[w] = "canceled" => requested
  /\ tlMain \in {"create", "next"} => ~ requested

\* A block belongs to the threads that read it, and is freed after they have ended.
TlBlocks ==
  /\ \A w \in Worker :
       /\ block[w] # "none" => tlProg.param = "own" \/ (tlProg.param = "shared" /\ w = 0)
       /\ block[w] = "freed" =>
            /\ tlMain \notin {"create", "next"}
            /\ tlProg.param = "own" => thread[w] = "ended"
            /\ tlProg.param = "shared" => \A v \in Worker : thread[v] = "ended"
  /\ (tlProg.join = "wait" /\ tlMain = "join") =>
       \A w \in Worker : w < tl_i =>
         thread[w] = "ended" /\ (tlProg.param = "own" => block[w] # "live")
  /\ (tlProg.join = "wait" /\ tlMain = "end") => \A w \in Worker : block[w] # "live"

TlInv == TlTypeOK /\ TlStarted /\ TlCancels /\ TlBlocks /\ ParamsOutlive

=============================================================================
