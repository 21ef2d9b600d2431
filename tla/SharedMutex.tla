---------------------------- MODULE SharedMutex ----------------------------
(***************************************************************************)
(* ch15/pshared_mutex_demo.c: a worker thread and a child process take one *)
(* mutex in shared memory and write into a second shared segment: the      *)
(* child from byte 0 up to byte 19 + the digits of its pid, the thread     *)
(* from byte 25 on.  With a pid of six digits or more the two overlap: the *)
(* end of the child's message lies on the thread's signature.              *)
(***************************************************************************)
EXTENDS Naturals

VARIABLES
  psMain,      \* control point of main
  segments,    \* the SysV segments that exist: 1 mutex, 2 buffer
  initialized, \* times init_mutex has run
  psThread,    \* control point of the worker thread
  psChild,     \* control point of the child process
  owner,       \* who has locked shmtx
  longPid,     \* the child's pid has six digits or more
  buf,         \* what each has written: "empty", "torn", "whole", or "cut":
               \*   whole but for what the other has written over
  displayed    \* the buffer as main displayed it

psVars == <<psMain, segments, initialized, psThread, psChild, owner, longPid, buf, displayed>>

Party == {"thread", "child"}

PsInit ==
  /\ psMain = "shmem" /\ segments = {}
  /\ initialized = 0
  /\ psThread = "none" /\ psChild = "none"
  /\ owner = "nobody" /\ longPid = FALSE
  /\ buf = [p \in Party |-> "empty"] /\ displayed = <<>>

PsAlive == psMain \notin {"fatal", "end"}

---------------------------------------------------------------------------
(* main *)

\* shmem_setup twice: shmget, then shmat, and FATAL if either fails; a segment
\* that exists stays after the process.
ShmemSetup ==
  /\ psMain = "shmem"
  /\ \/ segments' = {1, 2} /\ psMain' = "once"
     \/ segments' \in {{}, {1}, {1, 2}} /\ psMain' = "fatal"
  /\ UNCHANGED <<initialized, psThread, psChild, owner, longPid, buf, displayed>>

\* pthread_once in main, before there is anyone else.
InitOnce ==
  /\ psMain = "once"
  /\ \/ initialized' = initialized + 1 /\ psMain' = "thread"
     \/ psMain' = "fatal" /\ UNCHANGED initialized
  /\ UNCHANGED <<segments, psThread, psChild, owner, longPid, buf, displayed>>

CreateWorker ==
  /\ psMain = "thread"
  /\ \/ psThread' = "lock" /\ psMain' = "fork"
     \/ psMain' = "fatal" /\ UNCHANGED psThread
  /\ UNCHANGED <<segments, initialized, psChild, owner, longPid, buf, displayed>>

\* The child is a copy of main alone; the worker thread runs on in the parent.
ForkChild ==
  /\ psMain = "fork"
  /\ \/ psChild' = "once" /\ psMain' = "wait" /\ longPid' \in BOOLEAN
     \/ psMain' = "fatal" /\ UNCHANGED <<psChild, longPid>>
  /\ UNCHANGED <<segments, initialized, psThread, owner, buf, displayed>>

WaitForChild ==
  /\ psMain = "wait" /\ psChild \in {"exited", "killed"}
  /\ psMain' = "join"
  /\ UNCHANGED <<segments, initialized, psThread, psChild, owner, longPid, buf, displayed>>

JoinThread ==
  /\ psMain = "join" /\ psThread = "ended"
  /\ psMain' = "show"
  /\ UNCHANGED <<segments, initialized, psThread, psChild, owner, longPid, buf, displayed>>

Showbuf ==
  /\ psMain = "show"
  /\ displayed' = buf /\ psMain' = "remove1"
  /\ UNCHANGED <<segments, initialized, psThread, psChild, owner, longPid, buf>>

\* shmdt and shmctl; FATAL leaves the other segment behind.
RemoveSegment ==
  /\ \/ psMain = "remove1" /\ segments' = segments \ {1} /\ psMain' = "remove2"
     \/ psMain = "remove2" /\ segments' = segments \ {2} /\ psMain' = "end"
     \/ psMain \in {"remove1", "remove2"} /\ psMain' = "fatal" /\ UNCHANGED segments
  /\ UNCHANGED <<initialized, psThread, psChild, owner, longPid, buf, displayed>>

---------------------------------------------------------------------------
(* The worker thread *)

\* What is whole of party p when the other one writes next to it.
WrittenOver(p) == IF longPid /\ buf[p] = "whole" THEN "cut" ELSE buf[p]

WorkerLocks ==
  /\ PsAlive /\ psThread = "lock" /\ owner = "nobody"
  /\ owner' = "thread" /\ psThread' = "memset"
  /\ UNCHANGED <<psMain, segments, initialized, psChild, longPid, buf, displayed>>

\* memset of the signature, then snprintf of the message.
WorkerWrites ==
  /\ PsAlive
  /\ \/ /\ psThread = "memset" /\ psThread' = "message"
        /\ buf' = [thread |-> "torn", child |-> WrittenOver("child")]
     \/ /\ psThread = "message" /\ psThread' = "unlock"
        /\ buf' = [buf EXCEPT !["thread"] = "whole"]
  /\ UNCHANGED <<psMain, segments, initialized, psChild, owner, longPid, displayed>>

WorkerUnlocks ==
  /\ PsAlive /\ psThread = "unlock"
  /\ owner' = "nobody" /\ psThread' = "ended"
  /\ UNCHANGED <<psMain, segments, initialized, psChild, longPid, buf, displayed>>

\* A LOCK_MTX or UNLOCK_MTX that fails is FATAL.
WorkerFails ==
  /\ PsAlive /\ psThread \in {"lock", "unlock"}
  /\ psMain' = "fatal"
  /\ UNCHANGED <<segments, initialized, psThread, psChild, owner, longPid, buf, displayed>>

---------------------------------------------------------------------------
(* The child process *)

\* Mutant of ChildOnce: the child does not see that the mutex is initialized.
ChildInitAgain ==
  /\ psChild = "once" /\ psChild' = "lock"
  /\ initialized' = initialized + 1
  /\ UNCHANGED <<psMain, segments, psThread, owner, longPid, buf, displayed>>

\* The once_control lies in shared memory: init_mutex is not called again.
ChildOnce ==
  /\ psChild = "once" /\ psChild' = "lock"
  /\ initialized' = IF initialized = 0 THEN 1 ELSE initialized
  /\ UNCHANGED <<psMain, segments, psThread, owner, longPid, buf, displayed>>

ChildLocks ==
  /\ psChild = "lock" /\ owner = "nobody"
  /\ owner' = "child" /\ psChild' = "memset"
  /\ UNCHANGED <<psMain, segments, initialized, psThread, longPid, buf, displayed>>

\* memset of the signature, then snprintf of the message, which a long pid takes
\* into the thread's part.
ChildWrites ==
  /\ \/ /\ psChild = "memset" /\ psChild' = "message"
        /\ buf' = [buf EXCEPT !["child"] = "torn"]
     \/ /\ psChild = "message" /\ psChild' = "unlock"
        /\ buf' = [child |-> "whole", thread |-> WrittenOver("thread")]
  /\ UNCHANGED <<psMain, segments, initialized, psThread, owner, longPid, displayed>>

\* Mutant of ChildUnlocks: the child exits with the mutex locked.
ChildKeepsLock ==
  /\ psChild = "unlock" /\ psChild' = "exited"
  /\ UNCHANGED <<psMain, segments, initialized, psThread, owner, longPid, buf, displayed>>

ChildUnlocks ==
  /\ psChild = "unlock"
  /\ owner' = "nobody" /\ psChild' = "exited"
  /\ UNCHANGED <<psMain, segments, initialized, psThread, longPid, buf, displayed>>

\* A crash, or a signal from outside, or the FATAL of a failing call; the mutex is
\* not robust.
ChildKilled ==
  /\ psChild \in {"once", "lock", "memset", "message", "unlock"}
  /\ psChild' = "killed"
  /\ UNCHANGED <<psMain, segments, initialized, psThread, owner, longPid, buf, displayed>>

PsMain == ShmemSetup \/ InitOnce \/ CreateWorker \/ ForkChild \/ WaitForChild
            \/ JoinThread \/ Showbuf \/ RemoveSegment
PsWorker == WorkerLocks \/ WorkerWrites \/ WorkerUnlocks
PsChild == ChildOnce \/ ChildLocks \/ ChildWrites \/ ChildUnlocks

PsNext == PsMain \/ PsWorker \/ WorkerFails \/ PsChild \/ ChildKilled

PsSpec == PsInit /\ [][PsNext]_psVars

\* The threads are scheduled; each locks the mutex once, so that weak fairness
\* is enough for it.  Nothing obliges main to start, or a lock to fail.
PsFairness ==
  /\ WF_psVars(WaitForChild \/ JoinThread \/ Showbuf \/ RemoveSegment)
  /\ WF_psVars(PsWorker) /\ WF_psVars(PsChild)

---------------------------------------------------------------------------
(* Properties. *)

PsTypeOK ==
  /\ psMain \in {"shmem", "once", "thread", "fork", "wait", "join", "show",
                 "remove1", "remove2", "end", "fatal"}
  /\ segments \subseteq {1, 2} /\ initialized \in 0..1
  /\ psThread \in {"none", "lock", "memset", "message", "unlock", "ended"}
  /\ psChild \in {"none", "once", "lock", "memset", "message", "unlock", "exited", "killed"}
  /\ owner \in Party \cup {"nobody"}
  /\ longPid \in BOOLEAN /\ buf \in [Party -> {"empty", "torn", "whole", "cut"}]

\* The child died with the mutex locked: nobody will ever unlock it.
Abandoned == psChild = "killed" /\ owner = "child"

\* main comes to its end, and has removed both segments, unless a call fails or
\* the child dies with the mutex locked.  What it displays is there to the end, but
\* for what a killed child has left; of two parts that overlap, one is whole (the
\* comments in both critical sections promise both: a signature, and a message after
\* it); and there never is a torn part of both.
SharedMutexEnds ==
  /\ (psMain = "wait") ~> (psMain \in {"end", "fatal"} \/ Abandoned)
  /\ [](psMain = "end" => segments = {})
  /\ [](displayed # <<>> =>
          /\ displayed["thread"] \in {"whole", "cut"}
          /\ psChild = "exited" => displayed["child"] \in {"whole", "cut"}
          /\ (\E p \in Party : displayed[p] = "cut") =>
               longPid /\ \E p \in Party : displayed[p] = "whole")
  /\ [](\E p \in Party : buf[p] # "torn")

\* The safety part of SharedMutexEnds: what is left, displayed and torn.
SharedMutexSafe ==
  /\ psMain = "end" => segments = {}
  /\ displayed # <<>> =>
       /\ displayed["thread"] \in {"whole", "cut"}
       /\ psChild = "exited" => displayed["child"] \in {"whole", "cut"}
       /\ (\E p \in Party : displayed[p] = "cut") =>
            longPid /\ \E p \in Party : displayed[p] = "whole"
  /\ \E p \in Party : buf[p] # "torn"

\* main sets the mutex up before there is anyone else, and shows the buffer after
\* both are gone.
PsStages ==
  /\ psMain \in {"shmem", "once", "thread"} => psThread = "none"
  /\ psMain \in {"shmem", "once", "thread", "fork"} => psChild = "none"
  /\ psMain \in {"shmem", "once"} => initialized = 0
  /\ psMain \notin {"shmem", "once", "fatal"} \/ psChild # "none" => initialized = 1
  /\ psMain \in {"join", "show", "remove1", "remove2", "end"} => psChild \in {"exited", "killed"}
  /\ psMain \in {"show", "remove1", "remove2", "end"} => psThread = "ended"
  /\ psMain = "remove2" => segments \subseteq {2}

\* Whoever is between its lock and its unlock is the owner, and the only one whose
\* part of the buffer is torn.
PsOwned ==
  /\ owner = "thread" <=> psThread \in {"memset", "message", "unlock"}
  /\ psChild \in {"memset", "message", "unlock"} => owner = "child"
  /\ owner = "child" => psChild \in {"memset", "message", "unlock", "killed"}
  /\ psThread \in {"none", "lock", "memset"} => buf["thread"] = "empty"
  /\ psThread \in {"unlock", "ended"} => buf["thread"] \in {"whole", "cut"}
  /\ psChild \in {"none", "once", "lock", "memset"} => buf["child"] = "empty"
  /\ psChild = "message" => buf["child"] = "torn"
  /\ psChild \in {"unlock", "exited"} => buf["child"] \in {"whole", "cut"}
  /\ (psChild = "killed" /\ buf["child"] = "torn") => owner = "child"

\* Of the two parts at most one is written over, and then the other is not.
PsCut ==
  /\ buf["child"] = "cut" => longPid /\ buf["thread"] \in {"torn", "whole"}
  /\ buf["thread"] = "cut" => longPid /\ buf["child"] = "whole"
  /\ displayed # <<>> => psChild \in {"exited", "killed"}

PsInv ==
  /\ displayed \in {<<>>} \cup [Party -> {"empty", "torn", "whole", "cut"}]
  /\ PsTypeOK /\ PsStages /\ PsOwned /\ PsCut /\ SharedMutexSafe

=============================================================================
