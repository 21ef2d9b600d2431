------------------------------- MODULE Timers -------------------------------
(***************************************************************************)
(* Five programs driven by a timer and its signal: ch13/alarm1.c,          *)
(* alarm2_rep.c, intv_clksimple.c, runwalk_timer.c and the assignment's    *)
(* 3intv.c.                                                                *)
(*                                                                         *)
(* A timer that expires makes its signal pending, once however often it    *)
(* expires; a handler runs between any two steps of main, and ends pause   *)
(* (and sleep) if main is in it.  The handlers mask the program's other    *)
(* timer signals, so only one runs at a time.                              *)
(***************************************************************************)

VARIABLES
  tmProg,      \* which of the programs
  tmMain,      \* control point of main
  timer,       \* each timer: "off", "oneshot", "interval"
  tmPending,   \* the timers whose signal is pending
  handling,    \* the timer whose handler runs, or "none"
  type,        \* runwalk: the period that is on, "run" or "walk"
  itmrspec     \* runwalk: the period the timer was last set to

tmVars == <<tmProg, tmMain, timer, tmPending, handling, type, itmrspec>>

Timer == {"real", "virtual", "prof", "posix"}

\* timers: those it uses;  kind: what it sets them to
\* works:  main computes before it pauses
\* then:   after pause, main ends, calls alarm again, or just loops
Alarm1 == [timers |-> {"real"}, kind |-> "oneshot", works |-> FALSE, then |-> "end"]
Alarm2Rep == [timers |-> {"real"}, kind |-> "oneshot", works |-> FALSE, then |-> "alarm"]
IntvClksimple == [timers |-> {"real"}, kind |-> "interval", works |-> FALSE, then |-> "loop"]
ThreeIntv == [timers |-> {"real", "virtual", "prof"}, kind |-> "interval", works |-> TRUE, then |-> "loop"]
RunwalkTimer == [timers |-> {"posix"}, kind |-> "oneshot", works |-> FALSE, then |-> "loop"]

Alarms == {Alarm1, Alarm2Rep}
TmPrograms == Alarms \cup {IntvClksimple, ThreeIntv, RunwalkTimer}

TmInit ==
  /\ tmProg \in TmPrograms
  /\ tmMain = "setup"
  /\ timer = [t \in Timer |-> "off"]
  /\ tmPending = {} /\ handling = "none"
  /\ type = "run" /\ itmrspec = "none"

LoopStart == IF tmProg.works THEN "work" ELSE "toPause"
Other(period) == IF period = "run" THEN "walk" ELSE "run"

---------------------------------------------------------------------------
(* The kernel's timers. *)

\* ITIMER_VIRTUAL and ITIMER_PROF advance while the process is on a cpu.
Expire(t) ==
  /\ timer[t] # "off"
  /\ tmMain # "exit"
  /\ (t \in {"virtual", "prof"}) => (tmMain = "work")
  /\ tmPending' = tmPending \cup {t}
  /\ timer' = IF timer[t] = "oneshot" THEN [timer EXCEPT ![t] = "off"] ELSE timer
  /\ UNCHANGED <<tmProg, tmMain, handling, type, itmrspec>>

---------------------------------------------------------------------------
(* The handlers: sig_handler, ticktock, virtalrm, profalrm, its_time. *)

\* SIGALRM has the lowest number and is delivered first.
EnterHandler(t) ==
  /\ handling = "none" /\ t \in tmPending /\ tmMain # "exit"
  /\ "real" \in tmPending => t = "real"
  /\ handling' = t
  /\ tmPending' = tmPending \ {t}
  /\ tmMain' = IF tmMain = "paused" THEN "woken" ELSE tmMain
  /\ UNCHANGED <<tmProg, timer, type, itmrspec>>

HandlerReturns(t) ==
  /\ handling = t /\ t # "posix"
  /\ handling' = "none"
  /\ UNCHANGED <<tmProg, tmMain, timer, tmPending, type, itmrspec>>

\* Mutant of ItsTime: the one-shot timer is not armed again.
ItsTimeOnce ==
  /\ handling = "posix"
  /\ handling' = "none"
  /\ itmrspec' = Other(type) /\ type' = Other(type)
  /\ UNCHANGED <<tmProg, tmMain, timer, tmPending>>

\* its_time: the other period, and the one-shot timer is armed again.
ItsTime ==
  /\ handling = "posix"
  /\ handling' = "none"
  /\ itmrspec' = IF type = "walk" THEN "run" ELSE "walk"
  /\ type' = Other(type)
  /\ timer' = [timer EXCEPT !["posix"] = "oneshot"]
  /\ UNCHANGED <<tmProg, tmMain, tmPending>>

\* FATAL in a handler: clock_gettime, write or timer_settime failed.
HandlerFails ==
  /\ handling \in {"real", "posix"} /\ tmProg \notin Alarms
  /\ tmMain' = "exit" /\ handling' = "none"
  /\ UNCHANGED <<tmProg, timer, tmPending, type, itmrspec>>

\* bye, runwalk's handler of SIGINT; its_time masks every signal.
Bye ==
  /\ tmProg = RunwalkTimer /\ handling = "none" /\ tmMain \notin {"setup", "exit"}
  /\ tmMain' = "exit"
  /\ UNCHANGED <<tmProg, timer, tmPending, handling, type, itmrspec>>

---------------------------------------------------------------------------
(* main *)

\* sigaction, then alarm, setitimer, or timer_create and timer_settime.
Arm ==
  /\ tmMain = "setup"
  /\ \/ /\ timer' = [t \in Timer |-> IF t \in tmProg.timers THEN tmProg.kind ELSE "off"]
        /\ itmrspec' = IF tmProg = RunwalkTimer THEN type ELSE "none"
        /\ tmMain' = LoopStart
     \/ tmMain' = "exit" /\ UNCHANGED <<timer, itmrspec>>
  /\ UNCHANGED <<tmProg, tmPending, handling, type>>

Work ==
  /\ tmMain = "work" /\ handling = "none"
  /\ tmMain' = "toPause"
  /\ UNCHANGED <<tmProg, timer, tmPending, handling, type, itmrspec>>

\* From printf, or the end of the loop body, into pause or sleep.
Pause ==
  /\ tmMain = "toPause" /\ handling = "none"
  /\ tmMain' = "paused"
  /\ UNCHANGED <<tmProg, timer, tmPending, handling, type, itmrspec>>

\* runwalk sleeps a second at a time, unless it is silent.
SleepEnds ==
  /\ tmProg = RunwalkTimer /\ tmMain = "paused" /\ handling = "none"
  /\ tmMain' = "woken"
  /\ UNCHANGED <<tmProg, timer, tmPending, handling, type, itmrspec>>

\* What follows pause: alarm1 ends, alarm2 calls alarm again, the others loop.
AfterPause ==
  /\ tmMain = "woken" /\ handling = "none"
  /\ tmMain' = IF tmProg.then = "end" THEN "exit" ELSE LoopStart
  /\ timer' = IF tmProg.then = "alarm" THEN [timer EXCEPT !["real"] = "oneshot"] ELSE timer
  /\ UNCHANGED <<tmProg, tmPending, handling, type, itmrspec>>

TmMain == Work \/ Pause \/ AfterPause
Handlers == ItsTime \/ \E t \in Timer : EnterHandler(t) \/ HandlerReturns(t)

TmNext ==
  \/ Arm \/ TmMain \/ SleepEnds
  \/ \E t \in Timer : Expire(t)
  \/ Handlers \/ HandlerFails \/ Bye

TmSpec == TmInit /\ [][TmNext]_tmVars

\* Time passes, and the process is scheduled: weak fairness of main, of the
\* timers that advance in real time, and of the handlers.  Handlers that keep
\* interrupting main may hold it up for ever, and with it the two timers of 3intv
\* that advance in its cpu time.
TmFairness ==
  /\ WF_tmVars(TmMain)
  /\ WF_tmVars(Expire("real")) /\ WF_tmVars(Expire("posix"))
  /\ WF_tmVars(EnterHandler("real")) /\ WF_tmVars(EnterHandler("posix"))
  /\ \A t \in Timer : WF_tmVars(HandlerReturns(t))
  /\ WF_tmVars(ItsTime)

TmFairSpec == TmSpec /\ TmFairness

---------------------------------------------------------------------------
(* Properties. *)

TmTypeOK ==
  /\ tmProg \in TmPrograms
  /\ tmMain \in {"setup", "work", "toPause", "paused", "woken", "exit"}
  /\ timer \in [Timer -> {"off", "oneshot", "interval"}]
  /\ tmPending \subseteq tmProg.timers /\ handling \in tmProg.timers \cup {"none"}
  /\ type \in {"run", "walk"} /\ itmrspec \in {"none", "run", "walk"}

\* Nothing will ever wake main: its timer is off and no signal is on its way.
Asleep ==
  /\ tmMain = "paused" /\ handling = "none" /\ tmPending = {}
  /\ \A t \in Timer : timer[t] = "off"

\* However its handlers and main interleave: a real-time timer that is on comes to
\* run its handler, in every program; the programs with an interval timer and
\* runwalk tick on until they exit, and are never left with nothing to wake them;
\* runwalk's timer always runs for the period the program is in.  (Whether alarm2
\* ticks on too is judged by AlarmRepeats.)
TimersTick ==
  /\ \A t \in {"real", "posix"} :
       /\ (timer[t] # "off") ~> (handling = t \/ tmMain = "exit")
       /\ (t \in tmProg.timers /\ tmProg \notin Alarms /\ tmMain # "setup") ~>
            (handling = t \/ tmMain = "exit")
  /\ [](tmProg \notin Alarms => ~ Asleep)
  /\ [](tmProg = RunwalkTimer /\ timer["posix"] # "off" => itmrspec = type)

\* alarm2_rep's header: the timeout continually repeats.  (What the code does: a
\* SIGALRM handled between alarm and pause leaves main in pause
\* with nothing to end it.)
AlarmRepeats ==
  []<>((tmProg = Alarm2Rep /\ tmMain \notin {"setup", "exit"}) => handling = "real")

\* The safety part of TimersTick: who may fall asleep for good, and what
\* its_time sets the timer to.
TimersHonest ==
  /\ Asleep => tmProg \in Alarms
  /\ (tmProg = RunwalkTimer /\ timer["posix"] # "off") => itmrspec = type

\* Until it gives up, a program with an interval timer has it on, and runwalk's
\* one-shot timer is on, has expired, or its handler runs.
TmTicking ==
  tmMain \notin {"setup", "exit"} =>
    /\ tmProg \in {IntvClksimple, ThreeIntv} => timer["real"] = "interval"
    /\ tmProg = RunwalkTimer =>
         timer["posix"] # "off" \/ "posix" \in tmPending \/ handling = "posix"

TmInv ==
  /\ TmTypeOK /\ TmTicking /\ TimersHonest
  /\ \A t \in Timer : timer[t] # "off" => t \in tmProg.timers

=============================================================================
