------------------------------- MODULE React -------------------------------
(***************************************************************************)
(* ch13/react.c, the reaction game: after a random time SIGALRM starts an  *)
(* interval timer, shows a message and takes a timestamp; the user presses *)
(* ^C, and the handler of SIGINT judges the press.                         *)
(*                                                                         *)
(* No handler masks another's signal, so the handlers of SIGALRM, SIGINT   *)
(* and SIGRTMIN interrupt each other between any two steps: the one that   *)
(* came last runs to its end first.                                        *)
(***************************************************************************)
EXTENDS Naturals, Sequences

CONSTANT ReTicks   \* bound: timer expirations

ASSUME ReAssumption == ReTicks \in Nat \ {0}

VARIABLES
  game,            \* the process: "setup", "on", "exit"
  alarm,           \* alarm(2): "off", "set", "done"
  stack,           \* the handlers that have been entered, the last one first
  armed,           \* the interval timer runs
  jumped_the_gun,
  passed,          \* count of timer ticks
  gunShown,        \* the message "QUICK!" has been shown
  tmStart, tmEnd,  \* timestamps: when taken, in reNow's units, 0 if not
  reNow,           \* the clock: stamps taken so far
  pressedAt,       \* what the player had seen: "nothing", "message"
  startRuns,       \* the press interrupted startoff
  verdict          \* "none", "gun", "perfect", "time"

stamps == <<tmStart, tmEnd, reNow>>
press == <<pressedAt, startRuns>>
reVars == <<game, alarm, stack, armed, jumped_the_gun, passed, gunShown, stamps, press, verdict>>

ReInit ==
  /\ game = "setup" /\ alarm = "off" /\ stack = <<>>
  /\ armed = FALSE /\ jumped_the_gun = TRUE
  /\ passed = 0 /\ gunShown = FALSE
  /\ tmStart = 0 /\ tmEnd = 0 /\ reNow = 0
  /\ pressedAt = "none" /\ startRuns = FALSE
  /\ verdict = "none"

Playing == game = "on"
Goto(step) == stack' = <<step>> \o Tail(stack)
Enter(step) == stack' = <<step>> \o stack
Running(step) == Playing /\ stack # <<>> /\ Head(stack) = step
In(steps) == \E i \in 1..Len(stack) : stack[i] \in steps

\* init; a failing call is FATAL.
Setup ==
  /\ game = "setup"
  /\ game' \in {"on", "exit"}
  /\ UNCHANGED <<alarm, stack, armed, jumped_the_gun, passed, gunShown, stamps, press, verdict>>

\* random_start; the handlers are installed, so a press may come before it.
RandomStart ==
  /\ Playing /\ stack = <<>>
  /\ alarm = "off" /\ alarm' = "set"
  /\ UNCHANGED <<game, stack, armed, jumped_the_gun, passed, gunShown, stamps, press, verdict>>

AlarmExpires ==
  /\ Playing /\ alarm = "set" /\ alarm' = "done"
  /\ Enter("arm")
  /\ UNCHANGED <<game, armed, jumped_the_gun, passed, gunShown, stamps, press, verdict>>

---------------------------------------------------------------------------
(* startoff, the handler of SIGALRM *)

TimerSettime ==
  /\ Running("arm")
  /\ armed' = TRUE /\ Goto("clear")
  /\ UNCHANGED <<game, alarm, jumped_the_gun, passed, gunShown, stamps, press, verdict>>

\* Mutant of ClearGun: the flag is left alone.
ClearGunForgotten ==
  /\ Running("clear")
  /\ Goto("message")
  /\ UNCHANGED <<game, alarm, armed, jumped_the_gun, passed, gunShown, stamps, press, verdict>>

ClearGun ==
  /\ Running("clear")
  /\ jumped_the_gun' = FALSE /\ Goto("message")
  /\ UNCHANGED <<game, alarm, armed, passed, gunShown, stamps, press, verdict>>

ShowMessage ==
  /\ Running("message")
  /\ gunShown' = TRUE /\ Goto("stamp")
  /\ UNCHANGED <<game, alarm, armed, jumped_the_gun, passed, stamps, press, verdict>>

StampStart ==
  /\ Running("stamp")
  /\ reNow' = reNow + 1 /\ tmStart' = reNow + 1
  /\ stack' = Tail(stack)
  /\ UNCHANGED <<game, alarm, armed, jumped_the_gun, passed, gunShown, tmEnd, press, verdict>>

---------------------------------------------------------------------------
(* timer_handler, of SIGRTMIN *)

Tick ==
  /\ Playing /\ armed /\ passed < ReTicks
  /\ passed' = passed + 1
  /\ UNCHANGED <<game, alarm, stack, armed, jumped_the_gun, gunShown, stamps, press, verdict>>

---------------------------------------------------------------------------
(* userpress, the handler of SIGINT; gTimerRepeats is never set: it exits. *)

Press ==
  /\ Playing /\ ~ In({"end", "judge"})
  /\ Enter("end")
  /\ pressedAt' = IF gunShown THEN "message" ELSE "nothing"
  /\ startRuns' = In({"arm", "clear", "message", "stamp"})
  /\ UNCHANGED <<game, alarm, armed, jumped_the_gun, passed, gunShown, stamps, verdict>>

StampEnd ==
  /\ Running("end")
  /\ reNow' = reNow + 1 /\ tmEnd' = reNow + 1
  /\ Goto("judge")
  /\ UNCHANGED <<game, alarm, armed, jumped_the_gun, passed, gunShown, tmStart, press, verdict>>

Judge ==
  /\ Running("judge")
  /\ verdict' = IF jumped_the_gun THEN "gun" ELSE IF passed = 0 THEN "perfect" ELSE "time"
  /\ game' = "exit"
  /\ UNCHANGED <<alarm, stack, armed, jumped_the_gun, passed, gunShown, stamps, press>>

\* FATAL: timer_settime or clock_gettime failed in a handler.
CallFails ==
  /\ Running("arm") \/ Running("stamp") \/ Running("end")
  /\ game' = "exit"
  /\ UNCHANGED <<alarm, stack, armed, jumped_the_gun, passed, gunShown, stamps, press, verdict>>

ReNext ==
  \/ Setup \/ RandomStart \/ AlarmExpires
  \/ TimerSettime \/ ClearGun \/ ShowMessage \/ StampStart
  \/ Tick \/ Press \/ StampEnd \/ Judge \/ CallFails

ReSpec == ReInit /\ [][ReNext]_reVars

---------------------------------------------------------------------------
(* Properties. *)

ReTypeOK ==
  /\ game \in {"setup", "on", "exit"} /\ alarm \in {"off", "set", "done"}
  /\ stack \in Seq({"arm", "clear", "message", "stamp", "end", "judge"}) /\ Len(stack) <= 2
  /\ armed \in BOOLEAN /\ jumped_the_gun \in BOOLEAN /\ gunShown \in BOOLEAN
  /\ passed \in 0..ReTicks
  /\ {tmStart, tmEnd, reNow} \subseteq 0..2
  /\ pressedAt \in {"none", "nothing", "message"} /\ startRuns \in BOOLEAN
  /\ verdict \in {"none", "gun", "perfect", "time"}

\* Whichever handlers nest: a press that comes after the message is never told to
\* have jumped the gun; no press is accepted before the timer has been started; and
\* for one that comes when startoff is over, the time runs from the start to the
\* press.  (The program promises more: that a press before the message is told to
\* have jumped the gun, and that every time it tells runs from the start.  arm_timer
\* clears the flag before the message, and startoff takes tm_start after it, so a
\* press between the first and the last breaks one or the other.)
FairVerdict ==
  /\ (verdict = "gun") => (pressedAt = "nothing")
  /\ (verdict \in {"perfect", "time"}) => armed
  /\ (verdict = "time" /\ pressedAt = "message" /\ ~ startRuns) =>
       (0 < tmStart /\ tmStart < tmEnd)

---------------------------------------------------------------------------
(* The inductive invariant behind FairVerdict. *)

StartSteps == {"arm", "clear", "message", "stamp"}
PressSteps == {"end", "judge"}

\* Each handler may interrupt the other, neither runs twice.
Nesting ==
  /\ Len(stack) = 2 => (stack[1] \in StartSteps <=> stack[2] \in PressSteps)
  /\ In(PressSteps) <=> (pressedAt # "none")
  /\ In(StartSteps) => alarm = "done"
  /\ game = "setup" => alarm = "off"

\* What startoff has done, by how far it has come.
StartProgress ==
  /\ alarm # "done" => (jumped_the_gun /\ ~ gunShown)
  /\ (alarm # "done" \/ In(StartSteps)) => tmStart = 0
  /\ (In({"clear", "message", "stamp"}) \/ ~ jumped_the_gun) => armed
  /\ (In({"message", "stamp"}) \/ gunShown) => ~ jumped_the_gun
  /\ gunShown => (In(StartSteps) \/ 0 < tmStart)

\* What userpress knows, by what the player had seen.
PressProgress ==
  /\ pressedAt = "message" => gunShown
  /\ (pressedAt = "message" /\ ~ startRuns) =>
       (0 < tmStart /\ (In({"judge"}) => tmStart < tmEnd))
  /\ (pressedAt = "none" \/ In({"end"})) => tmEnd = 0
  /\ tmStart <= reNow
  /\ reNow = (IF tmStart = 0 THEN 0 ELSE 1) + (IF tmEnd = 0 THEN 0 ELSE 1)
  /\ verdict # "none" => (game = "exit" /\ In({"judge"}))
  /\ verdict = "gun" => jumped_the_gun
  /\ verdict \in {"perfect", "time"} => ~ jumped_the_gun

ReInv == ReTypeOK /\ Nesting /\ StartProgress /\ PressProgress

============================================================================
