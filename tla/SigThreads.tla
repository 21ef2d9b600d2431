----------------------------- MODULE SigThreads -----------------------------
(***************************************************************************)
(* A thread that handles the signals of the others: ch16/tsig.c and        *)
(* ch16/pthreads_app_template.c.  main blocks the signals, and the threads *)
(* it then creates inherit its mask; the first of them takes the signals   *)
(* with sigwait, the others work.  In the template the threads are joined. *)
(***************************************************************************)
EXTENDS Naturals, FiniteSets

CONSTANTS
  StSignal,   \* the asynchronous signals that are sent, SIGKILL and SIGSTOP apart
  StSends     \* bound: signals sent

ASSUME StAssumption == IsFiniteSet(StSignal) /\ StSends \in Nat

VARIABLES
  stProg,          \* "tsig" or "template"
  stMain,          \* control point of main
  created,         \* threads created; 0 is the signal handler, 1 and 2 workers
  unblocked,       \* threads that do not block StSignal; 3 is main
  ended,           \* workers that have ended
  pstToThread,     \* each worker's parameter: "none", "live", "freed"
  stPending,       \* signals pending for the process
  sends,           \* signals sent so far
  taking,          \* the signal the handler thread has taken, or "none"
  signal_handled,  \* the template's global
  killed           \* a signal's default action ended the process

stThreads == <<created, unblocked, ended, pstToThread>>
stSig == <<stPending, sends, taking, signal_handled, killed>>
stVars == <<stProg, stMain, stThreads, stSig>>

Workers == {1, 2}       \* NTHREADS is 2 in tsig; 3 with the handler in the template
Main == 3

StInit ==
  /\ stProg \in {"tsig", "template"}
  /\ stMain = "mask"
  /\ created = {} /\ unblocked = {Main} /\ ended = {}
  /\ pstToThread = [w \in Workers |-> "none"]
  /\ stPending = {} /\ sends = 0
  /\ taking = "none" /\ signal_handled = "none"
  /\ killed = FALSE

Alive == ~ killed /\ stMain # "exit"

---------------------------------------------------------------------------
(* main *)

\* Mutant of MaskSignals: main blocks nothing.
MaskNothing ==
  /\ Alive /\ stMain = "mask"
  /\ stMain' \in {"create", "exit"}
  /\ UNCHANGED <<stProg, stThreads, stSig>>

\* sigfillset, in the template without the synchronous signals, and
\* pthread_sigmask; then the template sets up its other handlers.
MaskSignals ==
  /\ Alive /\ stMain = "mask"
  /\ \/ stMain' = "create" /\ unblocked' = {}
     \/ stMain' = "exit" /\ UNCHANGED unblocked
  /\ UNCHANGED <<stProg, created, ended, pstToThread, stSig>>

\* The next thread; a worker of the template gets a parameter of its own.
Create ==
  /\ Alive /\ stMain = "create" /\ created # 0..2
  /\ LET n == Cardinality(created) IN
       /\ created' = created \cup {n}
       /\ unblocked' = IF Main \in unblocked THEN unblocked \cup {n} ELSE unblocked
       /\ pstToThread' = IF stProg = "template" /\ n \in Workers
                         THEN [pstToThread EXCEPT ![n] = "live"] ELSE pstToThread
  /\ UNCHANGED <<stProg, stMain, ended, stSig>>

\* FATAL: calloc or pthread_create failed.
CreateFails ==
  /\ Alive /\ stMain = "create" /\ created # 0..2
  /\ stMain' = "exit"
  /\ UNCHANGED <<stProg, stThreads, stSig>>

AllCreated ==
  /\ Alive /\ stMain = "create" /\ created = 0..2
  /\ stMain' = IF stProg = "tsig" THEN "pause" ELSE "join1"
  /\ UNCHANGED <<stProg, stThreads, stSig>>

\* Joined in the order of creation, and the parameter freed.
JoinWorker(w) ==
  /\ Alive /\ stMain = <<"join1", "join2">>[w] /\ w \in ended
  /\ pstToThread' = [pstToThread EXCEPT ![w] = "freed"]
  /\ stMain' = IF w = 1 THEN "join2" ELSE "joinHandler"
  /\ UNCHANGED <<stProg, created, unblocked, ended, stSig>>

---------------------------------------------------------------------------
(* The workers and the signal handling thread. *)

WorkerEnds(w) ==
  /\ Alive /\ w \in created \ ended
  /\ ended' = ended \cup {w}
  /\ UNCHANGED <<stProg, stMain, created, unblocked, pstToThread, stSig>>

SendSignal(n) ==
  /\ Alive /\ sends < StSends
  /\ sends' = sends + 1 /\ stPending' = stPending \cup {n}
  /\ UNCHANGED <<stProg, stMain, stThreads, taking, signal_handled, killed>>

\* A thread does not block the signal: the default action ends the process.
KilledBySignal ==
  /\ Alive /\ stPending # {} /\ unblocked # {}
  /\ killed' = TRUE
  /\ UNCHANGED <<stProg, stMain, stThreads, stPending, sends, taking, signal_handled>>

Sigwait ==
  /\ Alive /\ 0 \in created /\ taking = "none"
  /\ taking' \in stPending
  /\ stPending' = stPending \ {taking'}
  /\ UNCHANGED <<stProg, stMain, stThreads, sends, signal_handled, killed>>

\* The switch: tsig prints, the template stores it under sig_mutex, which no
\* other thread takes.
SignalHandler ==
  /\ Alive /\ taking # "none"
  /\ signal_handled' = IF stProg = "template" THEN taking ELSE signal_handled
  /\ taking' = "none"
  /\ UNCHANGED <<stProg, stMain, stThreads, stPending, sends, killed>>

StNext ==
  \/ MaskSignals \/ Create \/ CreateFails \/ AllCreated
  \/ \E w \in Workers : JoinWorker(w) \/ WorkerEnds(w)
  \/ \E n \in StSignal : SendSignal(n)
  \/ KilledBySignal \/ Sigwait \/ SignalHandler

StSpec == StInit /\ [][StNext]_stVars

\* The threads are scheduled, and each worker's work ends.  "create" is left
\* by AllCreated, and a blocked main stays where it is.
StFairness ==
  /\ WF_stVars(Create) /\ WF_stVars(AllCreated)
  /\ \A w \in Workers : WF_stVars(JoinWorker(w)) /\ WF_stVars(WorkerEnds(w))
  /\ WF_stVars(Sigwait) /\ WF_stVars(SignalHandler)

---------------------------------------------------------------------------
(* Properties. *)

StTypeOK ==
  /\ stProg \in {"tsig", "template"}
  /\ stMain \in {"mask", "create", "pause", "join1", "join2", "joinHandler", "exit"}
  /\ created \in {{}, {0}, 0..1, 0..2} /\ unblocked \subseteq {Main}
  /\ ended \subseteq created \cap Workers
  /\ pstToThread \in [Workers -> {"none", "live", "freed"}]
  /\ stPending \subseteq StSignal /\ sends \in 0..StSends
  /\ {taking, signal_handled} \subseteq StSignal \cup {"none"} /\ killed \in BOOLEAN

\* Once main has blocked them no signal ends the process, though the threads do
\* nothing about it themselves; and each signal is taken by the dedicated thread
\* once there is one, unless main gave up.  The template's main never gets
\* past the join of that thread: it joins the workers, and stays.
SignalsTaken ==
  /\ [](killed => stMain = "mask")
  /\ [](\A w \in Workers : pstToThread[w] = "freed" => w \in ended)
  /\ \A n \in StSignal :
       (n \in stPending /\ stMain # "mask") ~> (n \notin stPending \/ ~ Alive)
  /\ (stMain = "create") ~> (stMain \in {"pause", "joinHandler"} \/ ~ Alive)

\* The safety part of SignalsTaken: which signals end the process, and when a
\* parameter is freed.
SignalsSafe ==
  /\ killed => stMain = "mask"
  /\ \A w \in Workers : pstToThread[w] = "freed" => w \in ended

\* Nobody is created before main has blocked the signals, and nobody unblocks them.
StMasked ==
  /\ stMain = "mask" => created = {}
  /\ stMain \notin {"mask", "exit"} => unblocked = {}

StInv == StTypeOK /\ StMasked /\ SignalsSafe

=============================================================================
