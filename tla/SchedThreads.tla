---------------------------- MODULE SchedThreads ----------------------------
(***************************************************************************)
(* Threads and the scheduler: solutions_to_assgn/ch17/assgn2.c, where main *)
(* changes the policy of a worker by the id the worker stores, and         *)
(* ch17/sched_rt_eg.c, where each worker makes itself a realtime thread.   *)
(* Both ask the kernel for a policy it may refuse.                         *)
(***************************************************************************)
EXTENDS Naturals

CONSTANTS
  SdThreads,  \* NTHREADS (3 in assgn2, 2 in sched_rt_eg)
  SdMaxPrio,  \* sched_get_priority_max(SCHED_FIFO) (99 on Linux)
  SdBoost     \* what worker2 of sched_rt_eg adds (10)

ASSUME SdAssumption ==
  /\ SdThreads \in Nat \ {0}
  /\ SdMaxPrio \in Nat \ {0} /\ SdBoost \in 0..(SdMaxPrio - 1)

SdWorker == 1..SdThreads
Policies == {"OTHER", "FIFO", "RR"}
SdPrograms == {"assgn2", "sched_rt_eg"}

VARIABLES
  sdProg,    \* which program
  asked,     \* the arguments: thread, policy, priority
  sdMain,    \* control point of main
  at,        \* the worker main's loop is at
  life,      \* control point of each worker
  tpid,      \* the kernel id each worker has stored; 0 before
  attrs,     \* policy and priority of each task, 0 being main
  sdShown      \* the policy main printed for the asked thread after its change

sdVars == <<sdProg, asked, sdMain, at, life, tpid, attrs, sdShown>>

Normal == <<"OTHER", 0>>

SdInit ==
  /\ sdProg \in SdPrograms
  /\ asked \in [thread : SdWorker, policy : Policies, prio : 0..(SdMaxPrio + 1)]
  /\ sdProg = "sched_rt_eg" => asked.thread = 1 /\ asked.policy = "RR"
  /\ sdMain = "args" /\ at = 1
  /\ life = [w \in SdWorker |-> "none"]
  /\ tpid = [w \in SdWorker |-> 0]
  /\ attrs = [task \in 0..SdThreads |-> Normal]
  /\ sdShown = "nothing"

SdAlive == sdMain # "exit"

\* sched_setattr and sched_setscheduler: a priority goes with a realtime policy
\* and with no other, and an unprivileged caller is refused.
Granted(task, policy, prio, allowed) ==
  IF allowed /\ (policy = "OTHER" <=> prio = 0)
  THEN attrs' = [attrs EXCEPT ![task] = <<policy, prio>>]
  ELSE UNCHANGED attrs

\* Both programs refuse a priority that is out of range; assgn2 asks for a
\* realtime priority with every policy.
CheckArgs ==
  /\ sdMain = "args"
  /\ LET top == IF sdProg = "assgn2" THEN SdMaxPrio ELSE SdMaxPrio - SdBoost
     IN  sdMain' = IF asked.prio \in 1..top THEN "create" ELSE "exit"
  /\ UNCHANGED <<sdProg, asked, at, life, tpid, attrs, sdShown>>

\* One thread after the other, or FATAL.
SdCreate ==
  /\ sdMain = "create"
  /\ \/ /\ life' = [life EXCEPT ![at] = "new"]
        /\ at' = IF at = SdThreads THEN 1 ELSE at + 1
        /\ sdMain' = IF at < SdThreads THEN "create"
                     ELSE IF sdProg = "assgn2" THEN "look" ELSE "work"
     \/ sdMain' = "exit" /\ UNCHANGED <<life, at>>
  /\ UNCHANGED <<sdProg, asked, tpid, attrs, sdShown>>

---------------------------------------------------------------------------
(* assgn2.  sleep(1) orders nothing: a worker may store its id at any time. *)

StoreTid(w) ==
  /\ SdAlive /\ sdProg = "assgn2" /\ life[w] = "new"
  /\ life' = [life EXCEPT ![w] = "work"]
  /\ tpid' = [tpid EXCEPT ![w] = w]
  /\ UNCHANGED <<sdProg, asked, sdMain, at, attrs, sdShown>>

SdWorkerEnds(w) ==
  /\ SdAlive /\ life[w] = "work"
  /\ life' = [life EXCEPT ![w] = "done"]
  /\ UNCHANGED <<sdProg, asked, sdMain, at, tpid, attrs, sdShown>>

\* change_sched_policy_prio for worker `at`; get_show_sched of the others only prints.
ChangeOrPass ==
  /\ sdMain = "look"
  /\ sdMain' = IF at = asked.thread THEN "set" ELSE IF at = SdThreads THEN "join" ELSE "look"
  /\ at' = IF at = asked.thread THEN at ELSE IF at = SdThreads THEN 1 ELSE at + 1
  /\ UNCHANGED <<sdProg, asked, life, tpid, attrs, sdShown>>

\* Mutant of SetSched: the test of tpid[] is missing, and 0 is the caller.
SetSchedOfZero ==
  /\ sdMain = "set" /\ sdMain' = "show"
  /\ \E allowed \in BOOLEAN : Granted(tpid[at], asked.policy, asked.prio, allowed)
  /\ UNCHANGED <<sdProg, asked, at, life, tpid, sdShown>>

\* The unset members of schdattr are indeterminate: the kernel may refuse them,
\* as it refuses a thread that has ended.
SetSched ==
  /\ sdMain = "set" /\ sdMain' = "show"
  /\ IF tpid[at] = 0 THEN UNCHANGED attrs
     ELSE \E allowed \in BOOLEAN :
            /\ allowed => life[tpid[at]] # "done"
            /\ Granted(tpid[at], asked.policy, asked.prio, allowed)
  /\ UNCHANGED <<sdProg, asked, at, life, tpid, sdShown>>

\* The id is read again: 0 shows main itself, and where sched_getattr fails the
\* structure printed was never filled.
ShowSched ==
  /\ sdMain = "show"
  /\ IF tpid[at] # 0 /\ life[at] = "done" THEN sdShown' \in Policies \cup {"unknown"}
     ELSE sdShown' = attrs[tpid[at]][1]
  /\ sdMain' = IF at = SdThreads THEN "join" ELSE "look"
  /\ at' = IF at = SdThreads THEN 1 ELSE at + 1
  /\ UNCHANGED <<sdProg, asked, life, tpid, attrs>>

SdJoin ==
  /\ sdMain = "join" /\ life[at] = "done"
  /\ sdMain' = IF at = SdThreads THEN "ended" ELSE "join"
  /\ at' = IF at = SdThreads THEN 1 ELSE at + 1
  /\ UNCHANGED <<sdProg, asked, life, tpid, attrs, sdShown>>

---------------------------------------------------------------------------
(* sched_rt_eg: SCHED_RR for the first thread, SCHED_FIFO and a higher     *)
(* priority for the second; a refusal is a warning.                        *)

RealTime(w) ==
  /\ SdAlive /\ sdProg = "sched_rt_eg" /\ life[w] = "new"
  /\ life' = [life EXCEPT ![w] = "work"]
  /\ \E allowed \in BOOLEAN :
       IF w = 1 THEN Granted(w, "RR", asked.prio, allowed)
       ELSE Granted(w, "FIFO", asked.prio + SdBoost, allowed)
  /\ UNCHANGED <<sdProg, asked, sdMain, at, tpid, sdShown>>

\* main leaves by pthread_exit: the detached threads go on.
MainLeaves ==
  /\ sdMain = "work" /\ sdMain' = "ended"
  /\ UNCHANGED <<sdProg, asked, at, life, tpid, attrs, sdShown>>

SdNext ==
  \/ CheckArgs \/ SdCreate \/ ChangeOrPass \/ SetSched \/ ShowSched \/ SdJoin
  \/ MainLeaves
  \/ \E w \in SdWorker : StoreTid(w) \/ SdWorkerEnds(w) \/ RealTime(w)

SdSpec == SdInit /\ [][SdNext]_sdVars

---------------------------------------------------------------------------
(* Properties. *)

SdTypeOK ==
  /\ sdProg \in SdPrograms
  /\ sdMain \in {"args", "create", "look", "set", "show", "join", "work", "ended", "exit"}
  /\ at \in SdWorker
  /\ life \in [SdWorker -> {"none", "new", "work", "done"}]
  /\ tpid \in [SdWorker -> 0..SdThreads]
  /\ attrs \in [0..SdThreads -> Policies \X Nat]
  /\ sdShown \in Policies \cup {"nothing", "unknown"}

\* assgn2 changes at most the thread it was asked to change, and to what was
\* asked: never main, whatever moment the worker stores its id at.  A thread it
\* shows in a new policy while that thread runs has that policy.  Asking for
\* SCHED_OTHER changes nothing, for the priority must be realtime.  In
\* sched_rt_eg no thread gets a priority beyond the maximum.
ChangesTheAskedThread ==
  /\ \A task \in 0..SdThreads : attrs[task][2] <= SdMaxPrio
  /\ attrs[0] = Normal
  /\ sdProg = "assgn2" =>
       /\ \A task \in SdWorker :
            attrs[task] # Normal =>
              /\ task = asked.thread /\ attrs[task] = <<asked.policy, asked.prio>>
              /\ asked.policy # "OTHER"
       /\ (sdShown \in {"FIFO", "RR"} /\ life[asked.thread] # "done") =>
            attrs[asked.thread][1] = sdShown

\* The largest priority that CheckArgs lets pass.
SdTop == IF sdProg = "assgn2" THEN SdMaxPrio ELSE SdMaxPrio - SdBoost

\* No thread exists before the arguments are checked, a thread stores its own
\* id, and main changes and shows the asked thread once, on its way past it.
SdStages ==
  /\ sdMain \notin {"args", "exit"} => asked.prio \in 1..SdTop
  /\ sdMain = "args" => \A w \in SdWorker : life[w] = "none"
  /\ \A w \in SdWorker : /\ life[w] # "none" => asked.prio \in 1..SdTop
                         /\ tpid[w] \in {0, w}
  /\ sdMain \in {"look", "set", "show", "join"} => sdProg = "assgn2"
  /\ sdMain \in {"args", "create"} => sdShown = "nothing"
  /\ sdMain = "look" => sdShown = "nothing" \/ asked.thread < at
  /\ sdMain \in {"set", "show"} => sdShown = "nothing" /\ at = asked.thread

SdInv ==
  /\ asked \in [thread : SdWorker, policy : Policies, prio : 0..(SdMaxPrio + 1)]
  /\ SdTypeOK /\ SdStages /\ ChangesTheAskedThread

==============================================================================
