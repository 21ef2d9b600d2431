---------------------------- MODULE SignalProofs ----------------------------
(***************************************************************************)
(* Theorems about the programs whose handlers interrupt them: the reaction *)
(* game, the counting handlers, signals as messages, fault handlers.       *)
(***************************************************************************)
EXTENDS React, SigCount, SigIpc, FaultHandlers, SequenceTheorems,
        FiniteSetTheorems, TLAPS

---------------------------------------------------------------------------
(* A stack of handlers: the one that was entered last comes first. *)

\* A number below a bound is in the interval up to it.
LEMMA UpTo ==
  ASSUME NEW n \in Nat, NEW m \in Nat, n <= m
  PROVE  /\ n \in 0..m
         /\ n # 0 => n \in 1..m
         /\ (n # 0 /\ m = 1) => n = 1
OBVIOUS

\* A handler is entered.
LEMMA PushTop ==
  ASSUME NEW S, NEW q \in Seq(S), NEW x \in S
  PROVE  /\ <<x>> \o q \in Seq(S) /\ <<x>> \o q # <<>>
         /\ Len(<<x>> \o q) = Len(q) + 1
         /\ (<<x>> \o q)[1] = x
         /\ \A i \in 1..Len(q) : (<<x>> \o q)[i + 1] = q[i]
<1>1. <<x>> \in Seq(S) /\ Len(<<x>>) = 1 /\ <<x>>[1] = x
  OBVIOUS
<1>2. Len(q) \in Nat
  BY LenProperties
<1> QED
  BY <1>1, <1>2, ConcatProperties

\* The handler that runs returns.
LEMMA PopTop ==
  ASSUME NEW S, NEW q \in Seq(S), q # <<>>
  PROVE  /\ Tail(q) \in Seq(S) /\ Len(q) \in Nat \ {0} /\ Len(Tail(q)) = Len(q) - 1
         /\ Head(q) = q[1] /\ q[1] \in S
         /\ \A i \in 1..Len(Tail(q)) : Tail(q)[i] = q[i + 1]
<1>1. Len(q) \in Nat \ {0}
  BY EmptySeq
<1> QED
  BY <1>1, HeadTailProperties

\* The handler that runs goes on to its next step.
LEMMA StepTop ==
  ASSUME NEW S, NEW q \in Seq(S), q # <<>>, NEW x \in S
  PROVE  /\ <<x>> \o Tail(q) \in Seq(S) /\ <<x>> \o Tail(q) # <<>>
         /\ Len(<<x>> \o Tail(q)) = Len(q) /\ Len(q) \in Nat \ {0}
         /\ (<<x>> \o Tail(q))[1] = x /\ Head(q) = q[1]
         /\ \A i \in 2..Len(q) : (<<x>> \o Tail(q))[i] = q[i]
<1>1. /\ Tail(q) \in Seq(S) /\ Len(q) \in Nat \ {0} /\ Len(Tail(q)) = Len(q) - 1
      /\ Head(q) = q[1]
      /\ \A i \in 1..Len(Tail(q)) : Tail(q)[i] = q[i + 1]
  BY PopTop
<1>2. /\ <<x>> \o Tail(q) \in Seq(S) /\ <<x>> \o Tail(q) # <<>>
      /\ Len(<<x>> \o Tail(q)) = Len(Tail(q)) + 1
      /\ (<<x>> \o Tail(q))[1] = x
      /\ \A i \in 1..Len(Tail(q)) : (<<x>> \o Tail(q))[i + 1] = Tail(q)[i]
  BY <1>1, PushTop
<1>3. ASSUME NEW i \in 2..Len(q) PROVE (<<x>> \o Tail(q))[i] = q[i]
  <2>1. i - 1 \in 1..Len(Tail(q)) /\ (i - 1) + 1 = i
    BY <1>1
  <2> QED
    BY <1>1, <1>2, <2>1
<1> QED
  BY <1>1, <1>2, <1>3

---------------------------------------------------------------------------
(* React *)

ReSteps == {"arm", "clear", "message", "stamp", "end", "judge"}

\* A handler of SIGALRM or SIGINT is entered.
LEMMA EnterKeeps ==
  ASSUME ReInv, NEW step \in {"arm", "end"}, Enter(step)
  PROVE  /\ stack' \in Seq(ReSteps) /\ Len(stack') = Len(stack) + 1
         /\ stack'[1] = step
         /\ \A i \in 1..Len(stack) : stack'[i + 1] = stack[i]
         /\ Len(stack) \in 0..2
<1>1. stack \in Seq(ReSteps) /\ Len(stack) <= 2
  BY DEF ReInv, ReTypeOK, ReSteps
<1> DEFINE entered == <<step>> \o stack
<1>2. step \in ReSteps /\ stack' = entered /\ Len(stack) \in Nat
  BY <1>1, LenProperties DEF Enter, ReSteps
<1>3. /\ entered \in Seq(ReSteps) /\ Len(entered) = Len(stack) + 1
      /\ entered[1] = step
      /\ \A i \in 1..Len(stack) : entered[i + 1] = stack[i]
  BY <1>1, <1>2, PushTop
<1> HIDE DEF entered
<1>4. Len(stack) \in 0..2
  BY <1>1, <1>2, UpTo
<1> QED
  BY <1>2, <1>3, <1>4

\* The handler that runs takes a step.
LEMMA GotoKeeps ==
  ASSUME ReInv, NEW from, Running(from), NEW step \in ReSteps, Goto(step)
  PROVE  /\ stack' \in Seq(ReSteps) /\ Len(stack') = Len(stack)
         /\ Len(stack) \in 1..2 /\ stack[1] = from /\ stack'[1] = step
         /\ Len(stack) = 2 => stack'[2] = stack[2]
<1>1. stack \in Seq(ReSteps) /\ stack # <<>> /\ Head(stack) = from /\ Len(stack) <= 2
  BY DEF ReInv, ReTypeOK, Running, ReSteps
<1>2. /\ <<step>> \o Tail(stack) \in Seq(ReSteps)
      /\ Len(<<step>> \o Tail(stack)) = Len(stack) /\ Len(stack) \in Nat \ {0}
      /\ (<<step>> \o Tail(stack))[1] = step /\ Head(stack) = stack[1]
      /\ \A i \in 2..Len(stack) : (<<step>> \o Tail(stack))[i] = stack[i]
  BY <1>1, StepTop
<1> QED
  BY <1>1, <1>2 DEF Goto

\* A step of startoff keeps the invariant.
LEMMA StartoffKeeps ==
  ASSUME ReInv, AlarmExpires \/ TimerSettime \/ ClearGun \/ ShowMessage \/ StampStart
  PROVE  ReInv'
<1> USE DEF ReInv, ReTypeOK, Nesting, StartProgress, PressProgress, StartSteps, PressSteps,
            ReSteps, stamps, press, Playing, In
<1>1. CASE TimerSettime
  <2>1. /\ stack' \in Seq(ReSteps) /\ Len(stack') = Len(stack)
        /\ Len(stack) \in 1..2 /\ stack[1] = "arm" /\ stack'[1] = "clear"
        /\ Len(stack) = 2 => stack'[2] = stack[2]
    BY <1>1, GotoKeeps DEF TimerSettime
  <2> QED
    BY <1>1, <2>1 DEF TimerSettime
<1>2. CASE ClearGun
  <2>1. /\ stack' \in Seq(ReSteps) /\ Len(stack') = Len(stack)
        /\ Len(stack) \in 1..2 /\ stack[1] = "clear" /\ stack'[1] = "message"
        /\ Len(stack) = 2 => stack'[2] = stack[2]
    BY <1>2, GotoKeeps DEF ClearGun
  <2>6. ReTypeOK'
    BY <1>2, <2>1 DEF ClearGun
  <2>7. Nesting'
    BY <1>2, <2>1 DEF ClearGun
  <2>8. StartProgress'
    BY <1>2, <2>1 DEF ClearGun
  <2>9. PressProgress'
    <3>1. verdict = "none" /\ UNCHANGED <<game, gunShown, stamps, press, verdict>>
      BY <1>2 DEF ClearGun, Running
    <3>2. In({"end"})' <=> In({"end"})
      BY <2>1
    <3>3. In({"judge"})' <=> In({"judge"})
      BY <2>1
    <3> HIDE DEF In
    <3> QED
      BY <3>1, <3>2, <3>3
  <2> QED
    BY <2>6, <2>7, <2>8, <2>9
<1>3. CASE ShowMessage
  <2>1. /\ stack' \in Seq(ReSteps) /\ Len(stack') = Len(stack)
        /\ Len(stack) \in 1..2 /\ stack[1] = "message" /\ stack'[1] = "stamp"
        /\ Len(stack) = 2 => stack'[2] = stack[2]
    BY <1>3, GotoKeeps DEF ShowMessage
  <2> QED
    BY <1>3, <2>1 DEF ShowMessage
<1>4. CASE AlarmExpires
  <2>1. /\ stack' \in Seq(ReSteps) /\ Len(stack') = Len(stack) + 1
        /\ stack'[1] = "arm"
        /\ \A i \in 1..Len(stack) : stack'[i + 1] = stack[i]
        /\ Len(stack) \in 0..2
    BY <1>4, EnterKeeps DEF AlarmExpires
  <2>2. Len(stack) \in 0..1 /\ (Len(stack) = 1 => stack[1] \in PressSteps)
    BY <1>4, <2>1, ElementOfSeq DEF AlarmExpires
  <2>6. ReTypeOK'
    BY <1>4, <2>1, <2>2 DEF AlarmExpires
  <2>7. Nesting'
    BY <1>4, <2>1, <2>2 DEF AlarmExpires
  <2>8. StartProgress'
    BY <1>4, <2>1, <2>2 DEF AlarmExpires
  <2>9. PressProgress'
    BY <1>4, <2>1, <2>2 DEF AlarmExpires
  <2> QED
    BY <2>6, <2>7, <2>8, <2>9
<1>5. CASE StampStart
  <2>1. /\ stack' \in Seq(ReSteps) /\ Len(stack') = Len(stack) - 1
        /\ Len(stack) \in 1..2 /\ stack[1] = "stamp"
        /\ Len(stack) = 2 => stack'[1] = stack[2]
    <3>1. stack \in Seq(ReSteps) /\ stack # <<>> /\ Head(stack) = "stamp" /\ stack' = Tail(stack)
      BY <1>5 DEF StampStart, Running
    <3> HIDE DEF ReSteps, ReInv, In
    <3> DEFINE rest == Tail(stack)
    <3>2. /\ rest \in Seq(ReSteps) /\ Len(stack) \in Nat \ {0} /\ Len(rest) = Len(stack) - 1
          /\ Head(stack) = stack[1]
          /\ \A i \in 1..Len(rest) : rest[i] = stack[i + 1]
      BY <3>1, PopTop
    <3> HIDE DEF rest
    <3>3. Len(stack) <= 2 /\ stack' = rest
      BY <3>1 DEF ReInv, ReTypeOK, rest
    <3>4. Len(stack) \in 1..2
      BY <3>2, <3>3, UpTo
    <3>5. Len(stack) = 2 => rest[1] = stack[2]
      BY <3>2
    <3> QED
      BY <3>1, <3>2, <3>3, <3>4, <3>5
  <2>6. ReTypeOK'
    BY <1>5, <2>1 DEF StampStart
  <2>7. Nesting'
    <3>1. UNCHANGED <<game, alarm, pressedAt>>
      BY <1>5 DEF StampStart
    <3>2. CASE Len(stack) = 1
      BY <2>1, <3>1, <3>2
    <3>3. CASE Len(stack) = 2
      <4>1. Len(stack') = 1 /\ stack'[1] = stack[2]
        BY <2>1, <3>3
      <4>2. pressedAt # "none" /\ stack[2] \in PressSteps
        BY <2>1, <3>3
      <4> QED
        BY <3>1, <4>1, <4>2
    <3> QED
      BY <2>1, <3>2, <3>3
  <2>8. StartProgress'
    BY <1>5, <2>1 DEF StampStart
  <2>9. PressProgress'
    BY <1>5, <2>1 DEF StampStart
  <2> QED
    BY <2>6, <2>7, <2>8, <2>9
<1> QED
  BY <1>1, <1>2, <1>3, <1>4, <1>5

\* A step of userpress, or of anything else, keeps the invariant.
LEMMA UserpressKeeps ==
  ASSUME ReInv, Setup \/ RandomStart \/ Tick \/ Press \/ StampEnd \/ Judge \/ CallFails
  PROVE  ReInv'
<1> USE DEF ReInv, ReTypeOK, Nesting, StartProgress, PressProgress, StartSteps, PressSteps,
            ReSteps, stamps, press, Playing, In
<1>1. CASE Setup
  <2>6. ReTypeOK'
    BY <1>1 DEF Setup
  <2>7. Nesting'
    BY <1>1 DEF Setup
  <2>8. StartProgress'
    BY <1>1 DEF Setup
  <2>9. PressProgress'
    BY <1>1 DEF Setup
  <2> QED
    BY <2>6, <2>7, <2>8, <2>9
<1>2. CASE Tick
  <2>6. ReTypeOK'
    BY <1>2, ReAssumption DEF Tick
  <2>7. Nesting'
    BY <1>2 DEF Tick
  <2>8. StartProgress'
    BY <1>2 DEF Tick
  <2>9. PressProgress'
    BY <1>2 DEF Tick
  <2> QED
    BY <2>6, <2>7, <2>8, <2>9
<1>3. CASE Press
  <2>1. /\ stack' \in Seq(ReSteps) /\ Len(stack') = Len(stack) + 1
        /\ stack'[1] = "end"
        /\ \A i \in 1..Len(stack) : stack'[i + 1] = stack[i]
        /\ Len(stack) \in 0..2
    BY <1>3, EnterKeeps DEF Press
  <2>2. Len(stack) \in 0..1 /\ (Len(stack) = 1 => stack[1] \in StartSteps)
    BY <1>3, <2>1, ElementOfSeq DEF Press
  <2> QED
    BY <1>3, <2>1, <2>2 DEF Press
<1>4. CASE StampEnd
  <2>1. /\ stack' \in Seq(ReSteps) /\ Len(stack') = Len(stack)
        /\ Len(stack) \in 1..2 /\ stack[1] = "end" /\ stack'[1] = "judge"
        /\ Len(stack) = 2 => stack'[2] = stack[2]
    BY <1>4, GotoKeeps DEF StampEnd
  <2> QED
    BY <1>4, <2>1 DEF StampEnd
<1>5. CASE Judge
  <2>1. stack # <<>> /\ stack[1] = "judge" /\ Len(stack) \in 1..2
    <3>1. stack \in Seq(ReSteps) /\ stack # <<>> /\ Head(stack) = "judge" /\ Len(stack) <= 2
      BY <1>5 DEF Judge, Running
    <3> HIDE DEF ReSteps, ReInv, In
    <3>2. Len(stack) \in Nat \ {0} /\ Head(stack) = stack[1]
      BY <3>1, PopTop
    <3> QED
      BY <3>1, <3>2, UpTo
  <2> QED
    BY <1>5, <2>1 DEF Judge
<1>6. CASE RandomStart
  <2>1. /\ game = "on" /\ alarm = "off" /\ alarm' = "set" /\ Len(stack) = 0
        /\ UNCHANGED <<game, stack, armed, jumped_the_gun, passed, gunShown, stamps, press, verdict>>
    BY <1>6 DEF RandomStart
  <2>6. ReTypeOK'
    BY <2>1
  <2>7. Nesting'
    BY <2>1
  <2>8. StartProgress'
    BY <2>1
  <2>9. PressProgress'
    BY <2>1
  <2> QED
    BY <2>6, <2>7, <2>8, <2>9
<1>7. CASE CallFails
  <2>1. /\ game' = "exit" /\ game # "exit" /\ verdict = "none"
        /\ UNCHANGED <<alarm, stack, armed, jumped_the_gun, passed, gunShown, stamps, press, verdict>>
    BY <1>7 DEF CallFails, Running
  <2>6. ReTypeOK'
    BY <2>1
  <2>7. Nesting'
    BY <2>1
  <2>8. StartProgress'
    BY <2>1
  <2>9. PressProgress'
    BY <2>1
  <2> QED
    BY <2>6, <2>7, <2>8, <2>9
<1> QED
  BY <1>1, <1>2, <1>3, <1>4, <1>5, <1>6, <1>7

\* Which handler interrupts which, and how far each press and round has come.
THEOREM ReactInductive == ReSpec => []ReInv
<1>1. ReInit => ReInv
  <2> SUFFICES ASSUME ReInit PROVE ReInv
    OBVIOUS
  <2>1. stack = <<>> /\ Len(stack) = 0
    BY DEF ReInit
  <2>2. ReTypeOK
    <3>1. stack \in Seq({"arm", "clear", "message", "stamp", "end", "judge"}) /\ Len(stack) <= 2
      BY <2>1, EmptySeq
    <3>2. passed \in 0..ReTicks
      BY ReAssumption, UpTo DEF ReInit
    <3>3. {tmStart, tmEnd, reNow} \subseteq 0..2
      BY DEF ReInit
    <3> QED
      BY <3>1, <3>2, <3>3 DEF ReInit, ReTypeOK
  <2>3. Nesting /\ StartProgress
    BY <2>1 DEF ReInit, Nesting, StartProgress, StartSteps, PressSteps, In
  <2>4. PressProgress
    BY <2>1 DEF ReInit, PressProgress, In
  <2> QED
    BY <2>2, <2>3, <2>4 DEF ReInv
<1>2. ReInv /\ [ReNext]_reVars => ReInv'
  <2>1. ASSUME ReInv, UNCHANGED reVars PROVE ReInv'
    BY <2>1 DEF ReInv, ReTypeOK, Nesting, StartProgress, PressProgress, StartSteps, PressSteps,
                In, reVars, stamps, press
  <2> QED
    BY <2>1, StartoffKeeps, UserpressKeeps DEF ReNext
<1> QED
  BY <1>1, <1>2, PTL DEF ReSpec

\* Whichever handler interrupts the other: a press after the message is not taken
\* for a jumped gun, none is accepted before the timer runs, and one that comes when
\* startoff is over is measured from its timestamp.
THEOREM FairVerdictHolds == ReSpec => []FairVerdict
<1>1. ReInv => FairVerdict
  BY DEF ReInv, ReTypeOK, Nesting, StartProgress, PressProgress, PressSteps, In, FairVerdict
<1> QED
  BY ReactInductive, <1>1, PTL

---------------------------------------------------------------------------
(* SigCount *)

\* The handlers that have not counted are finitely many.
LEMMA UncountedFinite ==
  ASSUME NEW q, NEW before, NEW d \in Int
  PROVE  /\ IsFiniteSet(Uncounted(q, before, d))
         /\ Cardinality(Uncounted(q, before, d)) \in Nat
<1>1. Uncounted(q, before, d) \subseteq 1..d /\ IsFiniteSet(1..d)
  BY FS_Interval DEF Uncounted
<1> QED
  BY <1>1, FS_Subset, FS_CardinalityType

\* The last of the handlers that were entered is the one that runs.
LEMMA UncountedLast ==
  ASSUME NEW q \in Seq(Frame), q # <<>>, NEW before
  PROVE  /\ Len(q) \in Nat \ {0}
         /\ Cardinality(Uncounted(q, before, Len(q))) =
              Cardinality(Uncounted(q, before, Len(q) - 1))
                + (IF q[1].pc \in before THEN 1 ELSE 0)
<1> DEFINE n == Len(q)
           rest == Uncounted(q, before, n - 1)
<1>1. n \in Nat \ {0}
  BY EmptySeq
<1>2. FrameAt(q, n) = q[1]
  BY <1>1 DEF FrameAt
<1>3. n \notin rest /\ IsFiniteSet(rest) /\ Cardinality(rest) \in Nat
  <2>1. n - 1 \in Int /\ n \notin 1..(n - 1)
    BY <1>1
  <2>2. IsFiniteSet(rest) /\ Cardinality(rest) \in Nat
    BY <2>1, UncountedFinite
  <2> QED
    BY <2>1, <2>2 DEF Uncounted
<1>4. CASE q[1].pc \in before
  <2>1. Uncounted(q, before, n) = rest \cup {n}
    BY <1>1, <1>2, <1>4 DEF Uncounted
  <2>2. Cardinality(rest \cup {n}) = Cardinality(rest) + 1
    BY <1>3, FS_AddElement
  <2> QED
    BY <1>1, <1>4, <2>1, <2>2
<1>5. CASE q[1].pc \notin before
  <2>1. Uncounted(q, before, n) = rest
    BY <1>1, <1>2, <1>5 DEF Uncounted
  <2> QED
    BY <1>1, <1>3, <1>5, <2>1
<1> QED
  BY <1>4, <1>5

\* The places below the last.
LEMMA BelowLast ==
  ASSUME NEW n \in Nat, NEW d \in 1..n, d # n
  PROVE  d \in 1..(n - 1) /\ n + 1 - d \in 1..n
OBVIOUS

\* No handler, or one.
LEMMA UncountedShort ==
  ASSUME NEW q \in Seq(Frame), NEW before
  PROVE  /\ q = <<>> => Cardinality(Uncounted(q, before, Len(q))) = 0
         /\ Len(q) = 1 => Cardinality(Uncounted(q, before, Len(q))) =
                            (IF q[1].pc \in before THEN 1 ELSE 0)
<1>1. Uncounted(q, before, 0) = {} /\ Cardinality({}) = 0
  BY FS_EmptySet DEF Uncounted
<1>2. ASSUME q = <<>> PROVE Cardinality(Uncounted(q, before, Len(q))) = 0
  BY <1>1, <1>2
<1>3. ASSUME Len(q) = 1
      PROVE  Cardinality(Uncounted(q, before, Len(q))) = (IF q[1].pc \in before THEN 1 ELSE 0)
  <2>1. q # <<>> /\ Uncounted(q, before, Len(q) - 1) = {}
    BY <1>1, <1>3, EmptySeq
  <2>2. Cardinality(Uncounted(q, before, Len(q))) =
          Cardinality(Uncounted(q, before, Len(q) - 1)) + (IF q[1].pc \in before THEN 1 ELSE 0)
    BY <2>1, UncountedLast
  <2>3. Cardinality(Uncounted(q, before, Len(q) - 1)) = 0
    BY <1>1, <2>1
  <2> QED
    BY <2>2, <2>3
<1> QED
  BY <1>2, <1>3

\* Handlers that two stacks have in common count the same in both.
LEMMA UncountedSame ==
  ASSUME NEW q, NEW r, NEW d \in Int, NEW before,
         \A e \in 1..d : FrameAt(r, e) = FrameAt(q, e)
  PROVE  Cardinality(Uncounted(r, before, d)) = Cardinality(Uncounted(q, before, d))
<1>1. Uncounted(r, before, d) = Uncounted(q, before, d)
  BY DEF Uncounted
<1> QED
  BY <1>1

\* A handler is entered, takes a step, returns: the others are where they were.
LEMMA BottomStays ==
  ASSUME NEW q \in Seq(Frame), NEW f \in Frame
  PROVE  /\ \A d \in 1..Len(q) : FrameAt(<<f>> \o q, d) = FrameAt(q, d)
         /\ q # <<>> => \A d \in 1..(Len(q) - 1) :
              /\ FrameAt(<<f>> \o Tail(q), d) = FrameAt(q, d)
              /\ FrameAt(Tail(q), d) = FrameAt(q, d)
<1>1. Len(q) \in Nat
  BY LenProperties
<1>2. ASSUME NEW d \in 1..Len(q) PROVE FrameAt(<<f>> \o q, d) = FrameAt(q, d)
  <2> DEFINE r == <<f>> \o q
  <2>1. Len(r) = Len(q) + 1 /\ \A i \in 1..Len(q) : r[i + 1] = q[i]
    BY PushTop
  <2> HIDE DEF r
  <2>2. Len(q) + 1 - d \in 1..Len(q) /\ Len(r) + 1 - d = (Len(q) + 1 - d) + 1
    BY <1>1, <2>1
  <2>3. FrameAt(r, d) = FrameAt(q, d)
    BY <2>1, <2>2 DEF FrameAt
  <2> QED
    BY <2>3 DEF r
<1>3. ASSUME q # <<>>, NEW d \in 1..(Len(q) - 1)
      PROVE  /\ FrameAt(<<f>> \o Tail(q), d) = FrameAt(q, d)
             /\ FrameAt(Tail(q), d) = FrameAt(q, d)
  <2> DEFINE r == <<f>> \o Tail(q)
             s == Tail(q)
  <2>1. /\ Len(r) = Len(q) /\ \A i \in 2..Len(q) : r[i] = q[i]
        /\ Len(s) = Len(q) - 1 /\ \A i \in 1..Len(s) : s[i] = q[i + 1]
    BY <1>3, StepTop, PopTop
  <2> HIDE DEF r, s
  <2>2. /\ Len(q) + 1 - d \in 2..Len(q) /\ Len(s) + 1 - d \in 1..Len(s)
        /\ (Len(s) + 1 - d) + 1 = Len(q) + 1 - d
    BY <1>1, <1>3, <2>1
  <2>3. FrameAt(r, d) = FrameAt(q, d) /\ FrameAt(s, d) = FrameAt(q, d)
    BY <2>1, <2>2 DEF FrameAt
  <2> QED
    BY <2>3 DEF r, s
<1> QED
  BY <1>2, <1>3

\* A handler is entered.
LEMMA BehindEntered ==
  ASSUME NEW q \in Seq(Frame), NEW h \in Nat, NEW c \in Nat, NEW before, NEW store,
         NEW f \in Frame, f.pc # store, Behind(q, h, c, before, store)
  PROVE  Behind(<<f>> \o q, h + 1, c, before, store)
<1> DEFINE r == <<f>> \o q
           n == Len(q)
           U(s, d) == Cardinality(Uncounted(s, before, d))
<1>1. /\ r \in Seq(Frame) /\ r # <<>> /\ Len(r) = n + 1 /\ r[1] = f /\ n \in Nat
      /\ \A d \in 1..n : FrameAt(r, d) = FrameAt(q, d)
  BY PushTop, BottomStays, LenProperties
<1> HIDE DEF r
<1>2. \A d \in 0..n : U(r, d) = U(q, d) /\ U(q, d) \in Nat
  <2>1. n \in Int /\ \A d \in 1..n : FrameAt(r, d) = FrameAt(q, d)
    BY <1>1
  <2> SUFFICES ASSUME NEW d \in 0..n PROVE U(r, d) = U(q, d) /\ U(q, d) \in Nat
    OBVIOUS
  <2>2. d \in Int /\ \A e \in 1..d : FrameAt(r, e) = FrameAt(q, e)
    BY <2>1
  <2>3. U(r, d) = U(q, d)
    BY <2>2, UncountedSame
  <2> QED
    BY <2>2, <2>3, UncountedFinite
<1>3. U(r, n + 1) <= U(q, n) + 1 /\ U(r, n + 1) \in Nat
  <2>1. U(r, n + 1) = U(r, n) + (IF f.pc \in before THEN 1 ELSE 0)
    <3>1. U(r, Len(r)) = U(r, Len(r) - 1) + (IF r[1].pc \in before THEN 1 ELSE 0)
      BY <1>1, UncountedLast
    <3>2. Len(r) - 1 = n
      BY <1>1
    <3> QED
      BY <1>1, <3>1, <3>2
  <2> QED
    BY <1>1, <1>2, <2>1
<1>4. FrameAt(r, n + 1) = f
  BY <1>1 DEF FrameAt
<1>5. c + U(r, Len(r)) <= h + 1
  BY <1>1, <1>2, <1>3 DEF Behind
<1>6. ASSUME NEW d \in 1..Len(r), FrameAt(r, d).pc = store
      PROVE  FrameAt(r, d).reg + U(r, d) <= h + 1
  <2>1. d \in 1..n
    BY <1>1, <1>4, <1>6
  <2>2. FrameAt(q, d) \in Frame
    <3>1. n + 1 - d \in 1..n
      BY <1>1, <2>1
    <3> QED
      BY <3>1, ElementOfSeq DEF FrameAt
  <2>3. FrameAt(q, d).reg \in Nat
    BY <2>2, ScAssumption DEF Frame
  <2>4. FrameAt(q, d).reg + U(q, d) <= h
    BY <1>1, <1>6, <2>1 DEF Behind
  <2> QED
    BY <1>1, <1>2, <2>1, <2>3, <2>4
<1> QED
  BY <1>5, <1>6 DEF Behind, r

\* The handler that runs loads the count, or does something else.
LEMMA BehindLoads ==
  ASSUME NEW q \in Seq(Frame), q # <<>>, NEW h \in Nat, NEW c \in Nat, NEW before, NEW store,
         NEW f \in Frame, NEW c2 \in Nat, c2 <= c,
         f.pc \in before => q[1].pc \in before,
         f.pc = store => f.reg <= c,
         Behind(q, h, c, before, store)
  PROVE  Behind(<<f>> \o Tail(q), h, c2, before, store)
<1> DEFINE r == <<f>> \o Tail(q)
           n == Len(q)
           U(s, d) == Cardinality(Uncounted(s, before, d))
<1>1. /\ r \in Seq(Frame) /\ r # <<>> /\ Len(r) = n /\ r[1] = f /\ n \in Nat \ {0}
      /\ \A d \in 1..(n - 1) : FrameAt(r, d) = FrameAt(q, d)
  BY StepTop, BottomStays
<1> HIDE DEF r
<1>2. \A d \in 0..(n - 1) : U(r, d) = U(q, d) /\ U(q, d) \in Nat
  <2> SUFFICES ASSUME NEW d \in 0..(n - 1) PROVE U(r, d) = U(q, d) /\ U(q, d) \in Nat
    OBVIOUS
  <2>1. d \in Int /\ \A e \in 1..d : FrameAt(r, e) = FrameAt(q, e)
    BY <1>1
  <2>2. U(r, d) = U(q, d)
    BY <2>1, UncountedSame
  <2> QED
    BY <2>1, <2>2, UncountedFinite
<1>3. U(r, n) <= U(q, n) /\ U(r, n) \in Nat /\ U(q, n) \in Nat
  <2>1. /\ U(r, n) = U(r, n - 1) + (IF f.pc \in before THEN 1 ELSE 0)
        /\ U(q, n) = U(q, n - 1) + (IF q[1].pc \in before THEN 1 ELSE 0)
    BY <1>1, UncountedLast
  <2> QED
    BY <1>1, <1>2, <2>1
<1>4. FrameAt(r, n) = f
  BY <1>1 DEF FrameAt
<1>5. c + U(q, n) <= h
  BY DEF Behind
<1>6. ASSUME NEW d \in 1..n, FrameAt(r, d).pc = store
      PROVE  FrameAt(r, d).reg + U(r, d) <= h
  <2>1. CASE d = n
    <3>1. f.reg <= c /\ f.reg \in Nat
      BY <1>4, <1>6, <2>1, ScAssumption DEF Frame
    <3> QED
      BY <1>3, <1>4, <1>5, <2>1, <3>1
  <2>2. CASE d # n
    <3>1. d \in 1..(n - 1) /\ n + 1 - d \in 1..n
      BY <1>1, <2>2, BelowLast
    <3>2. FrameAt(r, d) = FrameAt(q, d) /\ U(r, d) = U(q, d)
      BY <1>1, <1>2, <3>1
    <3> QED
      BY <1>6, <3>2 DEF Behind
  <2> QED
    BY <2>1, <2>2
<1>7. c2 + U(r, Len(r)) <= h
  BY <1>1, <1>3, <1>5
<1> QED
  BY <1>1, <1>6, <1>7 DEF Behind, r

\* The handler that runs stores what it has loaded, plus one: it has counted.
LEMMA BehindStores ==
  ASSUME NEW q \in Seq(Frame), q # <<>>, NEW h \in Nat, NEW c \in Nat, NEW before, NEW store,
         NEW f \in Frame, store \in before, f.pc \notin before, q[1].pc = store,
         Behind(q, h, c, before, store)
  PROVE  /\ Behind(<<f>> \o Tail(q), h, q[1].reg + 1, before, store)
         /\ q[1].reg < h
<1> DEFINE r == <<f>> \o Tail(q)
           n == Len(q)
           U(s, d) == Cardinality(Uncounted(s, before, d))
<1>1. /\ r \in Seq(Frame) /\ r # <<>> /\ Len(r) = n /\ r[1] = f /\ n \in Nat \ {0}
      /\ \A d \in 1..(n - 1) : FrameAt(r, d) = FrameAt(q, d)
  BY StepTop, BottomStays
<1> HIDE DEF r
<1>2. \A d \in 0..(n - 1) : U(r, d) = U(q, d) /\ U(q, d) \in Nat
  <2> SUFFICES ASSUME NEW d \in 0..(n - 1) PROVE U(r, d) = U(q, d) /\ U(q, d) \in Nat
    OBVIOUS
  <2>1. d \in Int /\ \A e \in 1..d : FrameAt(r, e) = FrameAt(q, e)
    BY <1>1
  <2>2. U(r, d) = U(q, d)
    BY <2>1, UncountedSame
  <2> QED
    BY <2>1, <2>2, UncountedFinite
<1>3. U(q, n) = U(r, n) + 1 /\ U(r, n) \in Nat
  <2>1. /\ U(r, n) = U(r, n - 1) + (IF f.pc \in before THEN 1 ELSE 0)
        /\ U(q, n) = U(q, n - 1) + (IF q[1].pc \in before THEN 1 ELSE 0)
    BY <1>1, UncountedLast
  <2> QED
    BY <1>1, <1>2, <2>1
<1>4. FrameAt(r, n) = f /\ FrameAt(q, n) = q[1]
  BY <1>1 DEF FrameAt
<1>5. q[1].reg + U(q, n) <= h
  <2>1. n \in 1..n
    BY <1>1
  <2> QED
    BY <1>4, <2>1 DEF Behind
<1>6. ASSUME NEW d \in 1..n, FrameAt(r, d).pc = store
      PROVE  FrameAt(r, d).reg + U(r, d) <= h
  <2>1. d # n
    BY <1>4, <1>6
  <2>2. d \in 1..(n - 1)
    BY <1>1, <2>1, BelowLast
  <2>3. FrameAt(r, d) = FrameAt(q, d) /\ U(r, d) = U(q, d)
    BY <1>1, <1>2, <2>2
  <2> QED
    BY <1>6, <2>3 DEF Behind
<1>7. q[1].reg \in Nat
  <2>1. q[1] \in Frame
    BY PopTop
  <2> QED
    BY <2>1, ScAssumption DEF Frame
<1>8. (q[1].reg + 1) + U(r, Len(r)) <= h /\ q[1].reg < h
  BY <1>1, <1>3, <1>5, <1>7
<1> QED
  BY <1>1, <1>6, <1>8 DEF Behind, r

\* The handler that runs returns; it has counted.
LEMMA BehindReturns ==
  ASSUME NEW q \in Seq(Frame), q # <<>>, NEW h \in Nat, NEW c \in Nat, NEW before, NEW store,
         q[1].pc \notin before, Behind(q, h, c, before, store)
  PROVE  Behind(Tail(q), h, c, before, store)
<1> DEFINE r == Tail(q)
           n == Len(q)
           U(s, d) == Cardinality(Uncounted(s, before, d))
<1>1. /\ r \in Seq(Frame) /\ Len(r) = n - 1 /\ n \in Nat \ {0}
      /\ \A d \in 1..(n - 1) : FrameAt(r, d) = FrameAt(q, d)
  <2>1. q[1] \in Frame
    BY PopTop
  <2> QED
    BY <2>1, PopTop, BottomStays
<1> HIDE DEF r
<1>2. \A d \in 0..(n - 1) : U(r, d) = U(q, d) /\ U(q, d) \in Nat
  <2> SUFFICES ASSUME NEW d \in 0..(n - 1) PROVE U(r, d) = U(q, d) /\ U(q, d) \in Nat
    OBVIOUS
  <2>1. d \in Int /\ \A e \in 1..d : FrameAt(r, e) = FrameAt(q, e)
    BY <1>1
  <2>2. U(r, d) = U(q, d)
    BY <2>1, UncountedSame
  <2> QED
    BY <2>1, <2>2, UncountedFinite
<1>3. U(q, n) = U(r, n - 1)
  <2>1. U(q, n) = U(q, n - 1) + (IF q[1].pc \in before THEN 1 ELSE 0)
    BY UncountedLast
  <2> QED
    BY <1>1, <1>2, <2>1
<1>4. c + U(r, Len(r)) <= h
  BY <1>1, <1>3 DEF Behind
<1>5. ASSUME NEW d \in 1..Len(r), FrameAt(r, d).pc = store
      PROVE  FrameAt(r, d).reg + U(r, d) <= h
  <2>1. d \in 1..(n - 1) /\ d \in 1..n
    BY <1>1
  <2>2. FrameAt(r, d) = FrameAt(q, d) /\ U(r, d) = U(q, d)
    BY <1>1, <1>2, <2>1
  <2> QED
    BY <1>5, <2>1, <2>2 DEF Behind
<1> QED
  BY <1>4, <1>5 DEF Behind, r

\* What the invariant says of the handler that runs.
LEMMA RunningFacts ==
  ASSUME ScInv, NEW from, ScRunning(from)
  PROVE  /\ frames \in Seq(Frame) /\ frames # <<>> /\ Len(frames) \in Nat \ {0}
         /\ frames[1] \in Frame /\ frames[1].pc = from /\ Held = frames[1].reg
         /\ s_cnt \in Nat /\ t_cnt \in Nat /\ handled \in Nat /\ frames[1].reg \in Nat
         /\ ~ scProg.nests =>
              /\ Len(frames) = 1
              /\ t_cnt + (IF from \in BeforeT THEN 1 ELSE 0) = handled
              /\ from = "storeT" => frames[1].reg = t_cnt
<1>1. /\ frames \in Seq(Frame) /\ frames # <<>> /\ Head(frames).pc = from
      /\ s_cnt \in Nat /\ t_cnt \in Nat /\ handled \in Nat
  BY ScAssumption DEF ScInv, ScTypeOK, ScRunning
<1>2. /\ Len(frames) \in Nat \ {0} /\ Head(frames) = frames[1] /\ frames[1] \in Frame
  BY <1>1, PopTop
<1>3. frames[1].reg \in Nat
  BY <1>2, ScAssumption DEF Frame
<1>4. ASSUME ~ scProg.nests
      PROVE  /\ Len(frames) = 1
             /\ t_cnt + (IF from \in BeforeT THEN 1 ELSE 0) = handled
             /\ from = "storeT" => frames[1].reg = t_cnt
  <2>1. Len(frames) <= 1
    BY <1>4 DEF ScInv, ScTypeOK
  <2>2. Len(frames) = 1 /\ 1 \in 1..1
    BY <1>2, <2>1, UpTo
  <2>3. Cardinality(Uncounted(frames, BeforeT, Len(frames))) =
          (IF frames[1].pc \in BeforeT THEN 1 ELSE 0)
    BY <1>1, <2>2, UncountedShort
  <2> QED
    BY <1>1, <1>2, <1>4, <2>2, <2>3 DEF ScInv, Exact
<1> QED
  BY <1>1, <1>2, <1>3, <1>4 DEF Held

\* The handler that runs goes on: what has to be shown of its step.
LEMMA GoesOn ==
  ASSUME ScInv, NEW from, ScRunning(from), NEW f \in Frame,
         frames' = <<f>> \o Tail(frames), UNCHANGED <<scProg, sent, pend, handled>>,
         s_cnt' \in Nat, t_cnt' \in Nat,
         Behind(<<f>> \o Tail(frames), handled, s_cnt', BeforeS, "storeS"),
         Behind(<<f>> \o Tail(frames), handled, t_cnt', BeforeT, "storeT"),
         f.pc \in {"loadT", "storeT", "check", "wrap"} => 1 <= s_cnt',
         f.pc \in {"save", "print"} => s_cnt' \in 1..(ScMAX - 1),
         f.pc = "print" => f.reg \in 1..(ScMAX - 1),
         ~ scProg.nests => /\ t_cnt' + (IF f.pc \in BeforeT THEN 1 ELSE 0) = handled
                           /\ f.pc = "storeT" => f.reg = t_cnt'
  PROVE  ScInv'
<1> DEFINE r == <<f>> \o Tail(frames)
<1>1. /\ frames \in Seq(Frame) /\ frames # <<>> /\ handled \in Nat
      /\ ~ scProg.nests => Len(frames) = 1
  BY RunningFacts
<1>2. /\ r \in Seq(Frame) /\ r # <<>> /\ Len(r) = Len(frames) /\ Len(frames) \in Nat \ {0}
      /\ r[1] = f /\ \A i \in 2..Len(frames) : r[i] = frames[i]
  BY <1>1, StepTop
<1>3. frames' = r
  OBVIOUS
<1>4. /\ Behind(r, handled, s_cnt', BeforeS, "storeS")
      /\ Behind(r, handled, t_cnt', BeforeT, "storeT")
  OBVIOUS
<1> HIDE DEF r
<1>5. s_cnt' <= handled /\ t_cnt' <= handled
  <2>1. /\ Cardinality(Uncounted(r, BeforeS, Len(r))) \in Nat
        /\ Cardinality(Uncounted(r, BeforeT, Len(r))) \in Nat
    BY <1>2, UncountedFinite
  <2> QED
    BY <1>1, <1>4, <2>1 DEF Behind
<1>6. ScTypeOK'
  <2>1. handled \in 0..ScSent
    BY DEF ScInv, ScTypeOK
  <2>2. s_cnt' \in 0..(ScSent + ScMAX) /\ t_cnt' \in 0..ScSent
    BY <1>1, <1>5, <2>1, ScAssumption
  <2> QED
    BY <1>1, <1>2, <1>3, <2>2 DEF ScInv, ScTypeOK
<1>7. Delivered'
  BY DEF ScInv, Delivered
<1>8. Digits'
  <2>1. ASSUME NEW i \in 1..Len(r), r[i].pc = "print" PROVE r[i].reg \in 1..(ScMAX - 1)
    <3>1. CASE i = 1
      BY <1>2, <2>1, <3>1
    <3>2. CASE i # 1
      <4>1. i \in 2..Len(frames) /\ i \in 1..Len(frames)
        BY <1>2, <3>2
      <4> QED
        BY <1>2, <2>1, <4>1 DEF ScInv, Digits
    <3> QED
      BY <3>1, <3>2
  <2> QED
    BY <1>2, <1>3, <2>1 DEF Digits
<1>9. Exact'
  <2> SUFFICES ASSUME ~ scProg.nests
               PROVE  /\ t_cnt' + Cardinality(Uncounted(r, BeforeT, Len(r))) = handled
                      /\ \A i \in 1..Len(r) : r[i].pc = "storeT" => r[i].reg = t_cnt'
    BY <1>3 DEF Exact, BeforeT
  <2>1. Len(r) = 1
    BY <1>1, <1>2
  <2>2. Cardinality(Uncounted(r, BeforeT, Len(r))) = (IF r[1].pc \in BeforeT THEN 1 ELSE 0)
    BY <1>2, <2>1, UncountedShort
  <2> QED
    BY <1>2, <2>1, <2>2
<1>10. /\ Behind(frames, handled, s_cnt, BeforeS, "storeS")'
       /\ Behind(frames, handled, t_cnt, BeforeT, "storeT")'
  BY <1>3, <1>4 DEF Behind, Uncounted, FrameAt, BeforeS, BeforeT
<1> QED
  BY <1>6, <1>7, <1>8, <1>9, <1>10 DEF ScInv

\* The counts stay where the handlers and the globals do.
LEMMA CountsStay ==
  ASSUME ScInv, UNCHANGED <<scProg, frames, s_cnt, t_cnt, handled>>
  PROVE  /\ Digits' /\ Exact'
         /\ Behind(frames, handled, s_cnt, BeforeS, "storeS")'
         /\ Behind(frames, handled, t_cnt, BeforeT, "storeT")'
<1>1. Digits'
  BY DEF ScInv, Digits
<1>2. Exact'
  BY DEF ScInv, Exact, Uncounted, FrameAt, BeforeT
<1>3. Behind(frames, handled, s_cnt, BeforeS, "storeS")'
  BY DEF ScInv, Behind, Uncounted, FrameAt, BeforeS
<1>4. Behind(frames, handled, t_cnt, BeforeT, "storeT")'
  BY DEF ScInv, Behind, Uncounted, FrameAt, BeforeT
<1> QED
  BY <1>1, <1>2, <1>3, <1>4

\* A signal is sent.
LEMMA SendKeeps ==
  ASSUME ScInv, NEW n \in DOMAIN pend, Send(n)
  PROVE  ScInv'
<1>1. /\ sent < ScSent /\ sent' = sent + 1
      /\ pend' = [pend EXCEPT ![n] = IF scProg.queued THEN @ + 1 ELSE 1]
      /\ UNCHANGED <<scProg, frames, s_cnt, t_cnt, handled>>
  BY DEF Send
<1>2. /\ pend \in [DOMAIN pend -> 0..ScSent] /\ DOMAIN pend' = DOMAIN pend
      /\ sent \in Nat /\ handled \in Nat /\ scProg \in ScPrograms
      /\ DOMAIN pend = scProg.signals
  BY <1>1, ScAssumption DEF ScInv, ScTypeOK, Delivered
<1>3. /\ scProg' \in ScPrograms /\ sent' \in 0..ScSent
      /\ frames' \in Seq(Frame) /\ (scProg'.nests \/ Len(frames') <= 1)
      /\ s_cnt' \in 0..(ScSent + ScMAX) /\ t_cnt' \in 0..ScSent /\ handled' \in 0..ScSent
  BY <1>1, <1>2, ScAssumption DEF ScInv, ScTypeOK
<1>4. /\ Digits' /\ Exact'
      /\ Behind(frames, handled, s_cnt, BeforeS, "storeS")'
      /\ Behind(frames, handled, t_cnt, BeforeT, "storeT")'
  BY <1>1, CountsStay
<1>5. CASE scProg = RtsigsWaiter
  <2>1. DOMAIN pend = {1, 2, 3} /\ scProg.queued
    BY <1>2, <1>5 DEF RtsigsWaiter
  <2>2. pend[1] \in Nat /\ pend[2] \in Nat /\ pend[3] \in Nat /\ n \in {1, 2, 3}
    BY <1>2, <2>1, ScAssumption
  <2>3. handled + pend[1] + pend[2] + pend[3] = sent
    BY <1>5 DEF ScInv, Delivered
  <2>4. /\ pend'[n] = pend[n] + 1
        /\ \A m \in {1, 2, 3} : m # n => pend'[m] = pend[m]
    BY <1>1, <1>2, <2>1, <2>2
  <2>5. Delivered'
    <3>1. handled + pend'[1] + pend'[2] + pend'[3] = sent + 1
      BY <1>2, <2>2, <2>3, <2>4
    <3> QED
      BY <1>1, <1>2, <1>5, <3>1 DEF Delivered, RtsigsWaiter
  <2>6. pend' \in [DOMAIN pend' -> 0..ScSent]
    <3>1. pend[n] + 1 \in 0..ScSent
      BY <1>1, <1>2, <2>2, <2>3, ScAssumption
    <3> QED
      BY <1>1, <1>2, <2>1, <3>1
  <2> QED
    BY <1>3, <1>4, <2>5, <2>6 DEF ScInv, ScTypeOK
<1>6. CASE scProg # RtsigsWaiter
  <2>1. DOMAIN pend = {1} /\ ~ scProg.queued /\ n = 1
    BY <1>2, <1>6 DEF ScPrograms, RtsigsWaiter, DeferOrNot, AltstackCounts, SegvAltstackCounts
  <2>2. handled + pend[1] <= sent /\ pend[1] \in Nat /\ pend'[1] = 1
    BY <1>1, <1>2, <1>6, <2>1, ScAssumption DEF ScInv, Delivered
  <2>3. Delivered'
    BY <1>1, <1>2, <1>6, <2>2 DEF Delivered, RtsigsWaiter
  <2>4. pend' \in [DOMAIN pend' -> 0..ScSent]
    <3>1. 1 \in 0..ScSent
      BY <1>1, <1>2, ScAssumption
    <3> QED
      BY <1>1, <1>2, <2>1, <3>1
  <2> QED
    BY <1>3, <1>4, <2>3, <2>4 DEF ScInv, ScTypeOK
<1> QED
  BY <1>5, <1>6

\* The signal that is delivered first is one that is due.
LEMMA FirstDue ==
  ASSUME ScInv, Due # {}
  PROVE  /\ Min(Due) \in DOMAIN pend /\ pend[Min(Due)] > 0
         /\ DOMAIN pend \subseteq {1, 2, 3}
<1>1. DOMAIN pend \subseteq {1, 2, 3}
  BY DEF ScInv, ScTypeOK, Delivered, ScPrograms, RtsigsWaiter, DeferOrNot, AltstackCounts,
         SegvAltstackCounts
<1>2. \E x \in Due : \A y \in Due : x <= y
  <2>1. Due \subseteq {1, 2, 3}
    BY <1>1 DEF Due
  <2>2. CASE 1 \in Due
    BY <2>1, <2>2
  <2>3. CASE 1 \notin Due /\ 2 \in Due
    BY <2>1, <2>3
  <2>4. CASE 1 \notin Due /\ 2 \notin Due
    <3>1. 3 \in Due /\ \A y \in Due : y = 3
      BY <2>1, <2>4
    <3> QED
      BY <3>1
  <2> QED
    BY <2>2, <2>3, <2>4
<1>3. Min(Due) \in Due
  BY <1>2 DEF Min
<1> QED
  BY <1>1, <1>3 DEF Due

\* A handler is entered.
LEMMA DeliverKeeps ==
  ASSUME ScInv, Deliver
  PROVE  ScInv'
<1> DEFINE n == Min(Due)
           f == [pc |-> "loadS", reg |-> 0]
           r == <<f>> \o frames
<1>1. /\ scProg.nests \/ frames = <<>>
      /\ pend' = [pend EXCEPT ![n] = @ - 1] /\ handled' = handled + 1
      /\ frames' = r /\ UNCHANGED <<scProg, sent, s_cnt, t_cnt>>
      /\ n \in DOMAIN pend /\ pend[n] > 0 /\ DOMAIN pend \subseteq {1, 2, 3}
  BY FirstDue DEF Deliver
<1>2. /\ pend \in [DOMAIN pend -> 0..ScSent] /\ DOMAIN pend' = DOMAIN pend
      /\ sent \in 0..ScSent /\ handled \in Nat /\ s_cnt \in Nat /\ t_cnt \in Nat
      /\ scProg \in ScPrograms /\ DOMAIN pend = scProg.signals
      /\ frames \in Seq(Frame) /\ Len(frames) \in Nat
  BY <1>1, ScAssumption, LenProperties DEF ScInv, ScTypeOK, Delivered
<1>3. f \in Frame /\ f.pc = "loadS" /\ f.reg = 0
  BY ScAssumption DEF Frame
<1>4. /\ r \in Seq(Frame) /\ r # <<>> /\ Len(r) = Len(frames) + 1 /\ r[1] = f
      /\ \A i \in 1..Len(frames) : r[i + 1] = frames[i]
  BY <1>2, <1>3, PushTop
<1>5. /\ Behind(r, handled + 1, s_cnt, BeforeS, "storeS")
      /\ Behind(r, handled + 1, t_cnt, BeforeT, "storeT")
  BY <1>2, <1>3, BehindEntered DEF ScInv
<1> HIDE DEF n, f, r
<1>6. Delivered' /\ handled' \in 0..ScSent /\ pend' \in [DOMAIN pend' -> 0..ScSent]
  <2>1. pend[n] - 1 \in 0..ScSent
    BY <1>1, <1>2, ScAssumption
  <2>2. pend' \in [DOMAIN pend' -> 0..ScSent]
    BY <1>1, <1>2, <2>1
  <2>3. pend'[n] = pend[n] - 1 /\ \A m \in DOMAIN pend : m # n => pend'[m] = pend[m]
    BY <1>1, <1>2
  <2>4. CASE scProg = RtsigsWaiter
    <3>1. DOMAIN pend = {1, 2, 3}
      BY <1>2, <2>4 DEF RtsigsWaiter
    <3>2. /\ pend[1] \in Nat /\ pend[2] \in Nat /\ pend[3] \in Nat
          /\ handled + pend[1] + pend[2] + pend[3] = sent
      BY <1>2, <2>4, <3>1, ScAssumption DEF ScInv, Delivered
    <3>3. /\ handled' + pend'[1] + pend'[2] + pend'[3] = sent
          /\ pend'[1] \in Nat /\ pend'[2] \in Nat /\ pend'[3] \in Nat
      <4>1. n \in {1, 2, 3} /\ handled' = handled + 1 /\ pend[n] > 0 /\ handled \in Nat
        BY <1>1, <1>2
      <4>2. CASE n = 1
        BY <2>3, <3>1, <3>2, <4>1, <4>2
      <4>3. CASE n = 2
        BY <2>3, <3>1, <3>2, <4>1, <4>3
      <4>4. CASE n = 3
        BY <2>3, <3>1, <3>2, <4>1, <4>4
      <4> QED
        BY <4>1, <4>2, <4>3, <4>4
    <3>4. handled' \in 0..ScSent
      <4>1. handled' \in Nat /\ sent \in Nat /\ sent <= ScSent
        BY <1>1, <1>2, ScAssumption
      <4>2. handled' <= sent
        BY <3>3, <4>1
      <4> QED
        BY <4>1, <4>2, ScAssumption
    <3> QED
      BY <1>1, <1>2, <2>2, <2>4, <3>3, <3>4 DEF Delivered, RtsigsWaiter
  <2>5. CASE scProg # RtsigsWaiter
    <3>1. DOMAIN pend = {1} /\ n = 1
      BY <1>1, <1>2, <2>5
      DEF ScPrograms, RtsigsWaiter, DeferOrNot, AltstackCounts, SegvAltstackCounts
    <3>2. handled + pend[1] <= sent /\ pend[1] \in Nat
      BY <1>2, <2>5, <3>1, ScAssumption DEF ScInv, Delivered
    <3>3. handled' + pend'[1] <= sent /\ pend'[1] \in Nat
      BY <1>1, <1>2, <2>3, <3>1, <3>2
    <3>4. handled' \in 0..ScSent
      BY <1>1, <1>2, <3>3, ScAssumption
    <3> QED
      BY <1>1, <1>2, <2>2, <2>5, <3>3, <3>4 DEF Delivered, RtsigsWaiter
  <2> QED
    BY <2>4, <2>5
<1>7. ScTypeOK'
  <2>1. scProg.nests \/ Len(r) <= 1
    <3>1. frames = <<>> => Len(frames) = 0
      BY EmptySeq
    <3> QED
      BY <1>1, <1>4, <3>1
  <2> QED
    BY <1>1, <1>4, <1>6, <2>1 DEF ScInv, ScTypeOK
<1>8. Digits'
  <2>1. ASSUME NEW i \in 1..Len(r), r[i].pc = "print" PROVE r[i].reg \in 1..(ScMAX - 1)
    <3>1. i # 1
      BY <1>3, <1>4, <2>1
    <3>2. i - 1 \in 1..Len(frames) /\ (i - 1) + 1 = i
      BY <1>2, <1>4, <3>1
    <3>3. r[i] = frames[i - 1]
      BY <1>4, <3>2
    <3> QED
      BY <2>1, <3>2, <3>3 DEF ScInv, Digits
  <2> QED
    BY <1>1, <1>3, <1>4, <2>1 DEF Digits
<1>9. Exact'
  <2> SUFFICES ASSUME ~ scProg.nests
               PROVE  /\ t_cnt + Cardinality(Uncounted(r, BeforeT, Len(r))) = handled + 1
                      /\ \A i \in 1..Len(r) : r[i].pc = "storeT" => r[i].reg = t_cnt
    BY <1>1 DEF Exact, BeforeT
  <2>1. Len(r) = 1 /\ frames = <<>>
    BY <1>1, <1>4, EmptySeq
  <2>2. Cardinality(Uncounted(r, BeforeT, Len(r))) = 1
    <3>1. Cardinality(Uncounted(r, BeforeT, Len(r))) = (IF r[1].pc \in BeforeT THEN 1 ELSE 0)
      BY <1>4, <2>1, UncountedShort
    <3>2. r[1].pc \in BeforeT
      BY <1>3, <1>4 DEF BeforeT
    <3> QED
      BY <3>1, <3>2
  <2>3. Cardinality(Uncounted(frames, BeforeT, Len(frames))) = 0
    BY <1>2, <2>1, UncountedShort
  <2> QED
    BY <1>2, <1>3, <1>4, <2>1, <2>2, <2>3 DEF ScInv, Exact
<1>10. /\ Behind(frames, handled, s_cnt, BeforeS, "storeS")'
       /\ Behind(frames, handled, t_cnt, BeforeT, "storeT")'
  BY <1>1, <1>5 DEF Behind, Uncounted, FrameAt, BeforeS, BeforeT
<1> QED
  BY <1>6, <1>7, <1>8, <1>9, <1>10 DEF ScInv

\* A step that loads s, or lowers it, or has nothing to do with it.
LEMMA NotStoredS ==
  ASSUME ScInv, NEW from, ScRunning(from), NEW f \in Frame, NEW c \in Nat, c <= s_cnt,
         f.pc \in BeforeS => from \in BeforeS,
         f.pc = "storeS" => f.reg <= s_cnt
  PROVE  Behind(<<f>> \o Tail(frames), handled, c, BeforeS, "storeS")
<1>1. /\ frames \in Seq(Frame) /\ frames # <<>> /\ frames[1].pc = from
      /\ s_cnt \in Nat /\ handled \in Nat
      /\ Behind(frames, handled, s_cnt, BeforeS, "storeS")
  BY RunningFacts DEF ScInv
<1> QED
  BY <1>1, BehindLoads

\* A step that loads t, or has nothing to do with it.
LEMMA NotStoredT ==
  ASSUME ScInv, NEW from, ScRunning(from), NEW f \in Frame,
         f.pc \in BeforeT => from \in BeforeT,
         f.pc = "storeT" => f.reg <= t_cnt
  PROVE  Behind(<<f>> \o Tail(frames), handled, t_cnt, BeforeT, "storeT")
<1>1. /\ frames \in Seq(Frame) /\ frames # <<>> /\ frames[1].pc = from
      /\ t_cnt \in Nat /\ handled \in Nat /\ t_cnt <= t_cnt
      /\ Behind(frames, handled, t_cnt, BeforeT, "storeT")
  BY RunningFacts DEF ScInv
<1> QED
  BY <1>1, BehindLoads

\* The steps by which a handler counts in s.
LEMMA CountInS ==
  ASSUME ScInv, LoadS \/ StoreS
  PROVE  ScInv'
<1>1. CASE LoadS
  <2> DEFINE f == [pc |-> "storeS", reg |-> s_cnt]
  <2>1. /\ ScRunning("loadS") /\ frames' = <<f>> \o Tail(frames)
        /\ UNCHANGED <<scProg, sent, pend, s_cnt, t_cnt, handled>>
    BY <1>1 DEF LoadS, To
  <2>2. f \in Frame /\ f.pc = "storeS" /\ f.reg = s_cnt
    BY ScAssumption DEF Frame, ScInv, ScTypeOK
  <2> HIDE DEF f
  <2>3. /\ Behind(<<f>> \o Tail(frames), handled, s_cnt, BeforeS, "storeS")
        /\ Behind(<<f>> \o Tail(frames), handled, t_cnt, BeforeT, "storeT")
    <3>1. /\ f.pc \in BeforeS => "loadS" \in BeforeS
          /\ f.pc \in BeforeT => "loadS" \in BeforeT
      BY <2>2 DEF BeforeS, BeforeT
    <3>2. s_cnt \in Nat /\ t_cnt \in Nat /\ s_cnt <= s_cnt /\ t_cnt <= t_cnt
      BY <2>1, RunningFacts
    <3> QED
      BY <2>1, <2>2, <3>1, <3>2, NotStoredS, NotStoredT
  <2> QED
    BY <2>1, <2>2, <2>3, RunningFacts, GoesOn DEF BeforeT
<1>2. CASE StoreS
  <2> DEFINE f == [pc |-> "loadT", reg |-> 0]
  <2>1. /\ ScRunning("storeS") /\ frames' = <<f>> \o Tail(frames) /\ s_cnt' = Held + 1
        /\ UNCHANGED <<scProg, sent, pend, t_cnt, handled>>
    BY <1>2 DEF StoreS, To
  <2>2. f \in Frame /\ f.pc = "loadT" /\ f.reg = 0
    BY ScAssumption DEF Frame, ScInv, ScTypeOK
  <2> HIDE DEF f
  <2>3. /\ Behind(<<f>> \o Tail(frames), handled, s_cnt', BeforeS, "storeS")
        /\ Behind(<<f>> \o Tail(frames), handled, t_cnt, BeforeT, "storeT")
    <3>1. /\ "storeS" \in BeforeS /\ f.pc \notin BeforeS
          /\ f.pc \in BeforeT => "storeS" \in BeforeT
      BY <2>2 DEF BeforeS, BeforeT
    <3>2. /\ frames \in Seq(Frame) /\ frames # <<>> /\ frames[1].pc = "storeS"
          /\ s_cnt \in Nat /\ handled \in Nat /\ s_cnt' = frames[1].reg + 1
          /\ Behind(frames, handled, s_cnt, BeforeS, "storeS")
      BY <2>1, RunningFacts DEF ScInv
    <3>3. Behind(<<f>> \o Tail(frames), handled, frames[1].reg + 1, BeforeS, "storeS")
      BY <2>2, <3>1, <3>2, BehindStores
    <3> QED
      BY <2>1, <2>2, <3>1, <3>2, <3>3, NotStoredT
  <2>4. s_cnt' \in Nat /\ 1 <= s_cnt'
    BY <2>1, RunningFacts
  <2> QED
    BY <2>1, <2>2, <2>3, <2>4, RunningFacts, GoesOn DEF BeforeT
<1> QED
  BY <1>1, <1>2

\* The steps by which it counts in t.
LEMMA CountInT ==
  ASSUME ScInv, LoadT \/ StoreT
  PROVE  ScInv'
<1>1. CASE LoadT
  <2> DEFINE f == [pc |-> "storeT", reg |-> t_cnt]
  <2>1. /\ ScRunning("loadT") /\ frames' = <<f>> \o Tail(frames)
        /\ UNCHANGED <<scProg, sent, pend, s_cnt, t_cnt, handled>>
    BY <1>1 DEF LoadT, To
  <2>2. f \in Frame /\ f.pc = "storeT" /\ f.reg = t_cnt
    BY ScAssumption DEF Frame, ScInv, ScTypeOK
  <2> HIDE DEF f
  <2>3. /\ Behind(<<f>> \o Tail(frames), handled, s_cnt, BeforeS, "storeS")
        /\ Behind(<<f>> \o Tail(frames), handled, t_cnt, BeforeT, "storeT")
    <3>1. /\ f.pc \in BeforeS => "loadT" \in BeforeS
          /\ f.pc \in BeforeT => "loadT" \in BeforeT
      BY <2>2 DEF BeforeS, BeforeT
    <3>2. s_cnt \in Nat /\ t_cnt \in Nat /\ s_cnt <= s_cnt /\ t_cnt <= t_cnt
      BY <2>1, RunningFacts
    <3> QED
      BY <2>1, <2>2, <3>1, <3>2, NotStoredS, NotStoredT
  <2> QED
    BY <2>1, <2>2, <2>3, RunningFacts, GoesOn DEF BeforeT, ScInv, Digits
<1>2. CASE StoreT
  <2> DEFINE f == [pc |-> "check", reg |-> 0]
  <2>1. /\ ScRunning("storeT") /\ frames' = <<f>> \o Tail(frames) /\ t_cnt' = Held + 1
        /\ UNCHANGED <<scProg, sent, pend, s_cnt, handled>>
    BY <1>2 DEF StoreT, To
  <2>2. f \in Frame /\ f.pc = "check" /\ f.reg = 0
    BY ScAssumption DEF Frame, ScInv, ScTypeOK
  <2> HIDE DEF f
  <2>3. /\ Behind(<<f>> \o Tail(frames), handled, s_cnt, BeforeS, "storeS")
        /\ Behind(<<f>> \o Tail(frames), handled, t_cnt', BeforeT, "storeT")
    <3>1. "storeT" \in BeforeT /\ f.pc \notin BeforeT /\ f.pc \notin BeforeS
      BY <2>2 DEF BeforeS, BeforeT
    <3>2. /\ frames \in Seq(Frame) /\ frames # <<>> /\ frames[1].pc = "storeT"
          /\ t_cnt \in Nat /\ handled \in Nat /\ t_cnt' = frames[1].reg + 1
          /\ Behind(frames, handled, t_cnt, BeforeT, "storeT")
      BY <2>1, RunningFacts DEF ScInv
    <3>3. Behind(<<f>> \o Tail(frames), handled, frames[1].reg + 1, BeforeT, "storeT")
      BY <2>2, <3>1, <3>2, BehindStores
    <3>4. s_cnt \in Nat /\ s_cnt <= s_cnt
      BY <2>1, RunningFacts
    <3> QED
      BY <2>1, <2>2, <3>1, <3>2, <3>3, <3>4, NotStoredS
  <2>4. t_cnt' \in Nat
    BY <2>1, RunningFacts
  <2> QED
    BY <2>1, <2>2, <2>3, <2>4, RunningFacts, GoesOn DEF BeforeT, ScInv, Digits
<1> QED
  BY <1>1, <1>2

\* The test of s, its reset, and the digit saved.
LEMMA TestAndSave ==
  ASSUME ScInv, Wrap \/ Save
  PROVE  ScInv'
<1>1. CASE Wrap
  <2> DEFINE f == [pc |-> "save", reg |-> 0]
  <2>1. /\ ScRunning("wrap") /\ frames' = <<f>> \o Tail(frames) /\ s_cnt' = 1
        /\ UNCHANGED <<scProg, sent, pend, t_cnt, handled>>
    BY <1>1 DEF Wrap, To
  <2>2. f \in Frame /\ f.pc = "save" /\ f.reg = 0
    BY ScAssumption DEF Frame, ScInv, ScTypeOK
  <2> HIDE DEF f
  <2>3. /\ Behind(<<f>> \o Tail(frames), handled, s_cnt', BeforeS, "storeS")
        /\ Behind(<<f>> \o Tail(frames), handled, t_cnt, BeforeT, "storeT")
    <3>1. f.pc \notin BeforeS /\ f.pc \notin BeforeT
      BY <2>2 DEF BeforeS, BeforeT
    <3>2. 1 <= s_cnt
      BY <2>1, RunningFacts DEF ScInv, Digits
    <3> QED
      BY <2>1, <2>2, <3>1, <3>2, NotStoredS, NotStoredT
  <2>4. s_cnt' \in Nat /\ s_cnt' \in 1..(ScMAX - 1)
    BY <2>1, ScAssumption
  <2> QED
    BY <2>1, <2>2, <2>3, <2>4, RunningFacts, GoesOn DEF BeforeT
<1>2. CASE Save
  <2> DEFINE f == [pc |-> "print", reg |-> s_cnt]
  <2>1. /\ ScRunning("save") /\ frames' = <<f>> \o Tail(frames)
        /\ UNCHANGED <<scProg, sent, pend, s_cnt, t_cnt, handled>>
    BY <1>2 DEF Save, To
  <2>2. f \in Frame /\ f.pc = "print" /\ f.reg = s_cnt
    BY ScAssumption DEF Frame, ScInv, ScTypeOK
  <2> HIDE DEF f
  <2>3. /\ Behind(<<f>> \o Tail(frames), handled, s_cnt, BeforeS, "storeS")
        /\ Behind(<<f>> \o Tail(frames), handled, t_cnt, BeforeT, "storeT")
    <3>1. /\ f.pc \in BeforeS => "save" \in BeforeS
          /\ f.pc \in BeforeT => "save" \in BeforeT
      BY <2>2 DEF BeforeS, BeforeT
    <3>2. s_cnt \in Nat /\ t_cnt \in Nat /\ s_cnt <= s_cnt /\ t_cnt <= t_cnt
      BY <2>1, RunningFacts
    <3> QED
      BY <2>1, <2>2, <3>1, <3>2, NotStoredS, NotStoredT
  <2>4. s_cnt \in 1..(ScMAX - 1)
    BY <2>1, RunningFacts DEF ScInv, Digits
  <2> QED
    BY <2>1, <2>2, <2>3, <2>4, RunningFacts, GoesOn DEF BeforeT
<1> QED
  BY <1>1, <1>2

LEMMA CheckKeeps ==
  ASSUME ScInv, Check
  PROVE  ScInv'
<1> DEFINE f == [pc |-> IF s_cnt >= ScMAX THEN "wrap" ELSE "save", reg |-> 0]
<1>1. /\ ScRunning("check") /\ frames' = <<f>> \o Tail(frames)
      /\ UNCHANGED <<scProg, sent, pend, s_cnt, t_cnt, handled>>
  BY DEF Check, To
<1>2. 1 <= s_cnt /\ s_cnt \in Nat /\ t_cnt \in Nat
  BY <1>1, RunningFacts DEF ScInv, Digits
<1>3. /\ f \in Frame /\ f.reg = 0 /\ f.pc \in {"wrap", "save"}
      /\ f.pc = "save" => s_cnt \in 1..(ScMAX - 1)
  BY <1>2, ScAssumption DEF Frame
<1> HIDE DEF f
<1>4. f.pc \notin BeforeS /\ f.pc \notin BeforeT
  BY <1>3 DEF BeforeS, BeforeT
<1>5. /\ Behind(<<f>> \o Tail(frames), handled, s_cnt, BeforeS, "storeS")
      /\ Behind(<<f>> \o Tail(frames), handled, t_cnt, BeforeT, "storeT")
  <2>1. s_cnt <= s_cnt /\ t_cnt <= t_cnt
    BY <1>2
  <2> QED
    BY <1>1, <1>2, <1>3, <1>4, <2>1, NotStoredS, NotStoredT
<1> QED
  BY <1>1, <1>2, <1>3, <1>4, <1>5, RunningFacts, GoesOn DEF BeforeT

\* A handler prints the digit and returns.
LEMMA ReturnKeepsCounts ==
  ASSUME ScInv, PrintAndReturn
  PROVE  ScInv'
<1> DEFINE r == Tail(frames)
<1>1. /\ ScRunning("print") /\ frames' = r
      /\ UNCHANGED <<scProg, sent, pend, s_cnt, t_cnt, handled>>
  BY DEF PrintAndReturn
<1>2. /\ frames \in Seq(Frame) /\ frames # <<>> /\ frames[1].pc = "print"
      /\ s_cnt \in Nat /\ t_cnt \in Nat /\ handled \in Nat
      /\ ~ scProg.nests => Len(frames) = 1 /\ t_cnt = handled
  BY <1>1, RunningFacts DEF BeforeT
<1>3. /\ r \in Seq(Frame) /\ Len(frames) \in Nat \ {0} /\ Len(r) = Len(frames) - 1
      /\ \A i \in 1..Len(r) : r[i] = frames[i + 1]
  BY <1>2, PopTop
<1>4. /\ Behind(r, handled, s_cnt, BeforeS, "storeS")
      /\ Behind(r, handled, t_cnt, BeforeT, "storeT")
  <2>1. frames[1].pc \notin BeforeS /\ frames[1].pc \notin BeforeT
    BY <1>2 DEF BeforeS, BeforeT
  <2>2. /\ Behind(frames, handled, s_cnt, BeforeS, "storeS")
        /\ Behind(frames, handled, t_cnt, BeforeT, "storeT")
    BY DEF ScInv
  <2> QED
    BY <1>2, <2>1, <2>2, BehindReturns
<1>5. s_cnt \in 1..(ScMAX - 1)
  BY <1>2 DEF ScInv, Digits
<1> HIDE DEF r
<1>6. ScTypeOK'
  <2>1. scProg.nests \/ Len(r) <= 1
    BY <1>2, <1>3
  <2> QED
    BY <1>1, <1>3, <2>1 DEF ScInv, ScTypeOK
<1>7. Delivered'
  BY <1>1 DEF ScInv, Delivered
<1>8. Digits'
  <2>1. ASSUME NEW i \in 1..Len(r), r[i].pc = "print" PROVE r[i].reg \in 1..(ScMAX - 1)
    <3>1. i + 1 \in 1..Len(frames) /\ r[i] = frames[i + 1]
      BY <1>3
    <3> QED
      BY <2>1, <3>1 DEF ScInv, Digits
  <2> QED
    BY <1>1, <1>5, <2>1 DEF Digits
<1>9. Exact'
  <2> SUFFICES ASSUME ~ scProg.nests
               PROVE  /\ t_cnt + Cardinality(Uncounted(r, BeforeT, Len(r))) = handled
                      /\ \A i \in 1..Len(r) : r[i].pc = "storeT" => r[i].reg = t_cnt
    BY <1>1 DEF Exact, BeforeT
  <2>1. Len(r) = 0 /\ r = <<>>
    BY <1>2, <1>3, EmptySeq
  <2>2. Cardinality(Uncounted(r, BeforeT, Len(r))) = 0
    BY <1>3, <2>1, UncountedShort
  <2> QED
    BY <1>2, <2>1, <2>2
<1>10. /\ Behind(frames, handled, s_cnt, BeforeS, "storeS")'
       /\ Behind(frames, handled, t_cnt, BeforeT, "storeT")'
  BY <1>1, <1>4 DEF Behind, Uncounted, FrameAt, BeforeS, BeforeT
<1> QED
  BY <1>6, <1>7, <1>8, <1>9, <1>10 DEF ScInv

\* Nothing has happened at the start.
LEMMA CountInit ==
  ASSUME ScInit
  PROVE  ScInv
<1>1. /\ frames = <<>> /\ Len(frames) = 0 /\ frames \in Seq(Frame)
      /\ s_cnt = 0 /\ t_cnt = 0 /\ handled = 0 /\ sent = 0 /\ scProg \in ScPrograms
      /\ pend = [n \in scProg.signals |-> 0]
  BY EmptySeq DEF ScInit
<1>2. \A before : Cardinality(Uncounted(frames, before, Len(frames))) = 0
  BY <1>1, UncountedShort
<1>3. 0 \in 0..ScSent /\ 0 \in 0..(ScSent + ScMAX)
  BY ScAssumption
<1>4. ScTypeOK
  BY <1>1, <1>3 DEF ScTypeOK
<1>5. Delivered
  <2>1. \/ scProg = RtsigsWaiter /\ scProg.signals = {1, 2, 3}
        \/ scProg # RtsigsWaiter /\ scProg.signals = {1}
    BY <1>1 DEF ScPrograms, RtsigsWaiter, DeferOrNot, AltstackCounts, SegvAltstackCounts
  <2> QED
    BY <1>1, <2>1 DEF Delivered
<1>6. Digits /\ Exact
  BY <1>1, <1>2 DEF Digits, Exact
<1>7. /\ Behind(frames, handled, s_cnt, BeforeS, "storeS")
      /\ Behind(frames, handled, t_cnt, BeforeT, "storeT")
  BY <1>1, <1>2 DEF Behind
<1> QED
  BY <1>4, <1>5, <1>6, <1>7 DEF ScInv

\* The counters are behind by the handlers that have not counted yet.
THEOREM SigCountInductive == ScSpec => []ScInv
<1>1. ScInit => ScInv
  BY CountInit
<1>2. ScInv /\ [ScNext]_scVars => ScInv'
  <2>1. ASSUME ScInv, UNCHANGED scVars PROVE ScInv'
    <3>1. ScTypeOK' /\ Delivered'
      BY <2>1 DEF ScInv, ScTypeOK, Delivered, scVars
    <3>2. UNCHANGED <<scProg, frames, s_cnt, t_cnt, handled>>
      BY <2>1 DEF scVars
    <3> QED
      BY <2>1, <3>1, <3>2, CountsStay DEF ScInv
  <2> QED
    BY <2>1, SendKeeps, DeliverKeeps, CountInS, CountInT, TestAndSave, CheckKeeps,
       ReturnKeepsCounts DEF ScNext, Sighdlr
<1> QED
  BY <1>1, <1>2, PTL DEF ScSpec

\* However the handlers nest, the total never exceeds the handlers run, is exact
\* where they do not, no realtime signal is lost, and a digit is shown.
THEOREM SignalsCountedHolds == ScSpec => []SignalsCounted
<1>1. ASSUME ScInv PROVE SignalsCounted
  <2>1. t_cnt \in Nat /\ handled \in Nat /\ frames \in Seq(Frame)
    BY <1>1, ScAssumption DEF ScInv, ScTypeOK
  <2>2. t_cnt <= handled
    <3>1. /\ t_cnt + Cardinality(Uncounted(frames, BeforeT, Len(frames))) <= handled
          /\ Len(frames) \in Nat
      BY <1>1, <2>1, LenProperties DEF ScInv, Behind
    <3> QED
      BY <2>1, <3>1, UncountedFinite
  <2>3. (frames = <<>> /\ ~ scProg.nests) => t_cnt = handled
    <3>1. frames = <<>> => Cardinality(Uncounted(frames, BeforeT, Len(frames))) = 0
      BY <2>1, UncountedShort
    <3> QED
      BY <1>1, <2>1, <3>1 DEF ScInv, Exact
  <2> QED
    BY <1>1, <2>2, <2>3 DEF ScInv, Delivered, Digits, SignalsCounted
<1> QED
  BY SigCountInductive, <1>1, PTL

---------------------------------------------------------------------------
(* SigIpc *)

\* What is in the kernel's queue when a message is added or taken.
LEMMA QueueContents ==
  ASSUME NEW S, NEW q \in Seq(S)
  PROVE  /\ \A m \in S : ToSet(Append(q, m)) = ToSet(q) \cup {m}
         /\ q # <<>> => /\ Head(q) \in S /\ Tail(q) \in Seq(S)
                       /\ ToSet(q) = {Head(q)} \cup ToSet(Tail(q))
<1>1. ASSUME NEW m \in S PROVE ToSet(Append(q, m)) = ToSet(q) \cup {m}
  <2> DEFINE longer == Append(q, m)
  <2>1. /\ Len(q) \in Nat /\ DOMAIN q = 1..Len(q) /\ DOMAIN longer = 1..(Len(q) + 1)
        /\ \A i \in 1..Len(q) : longer[i] = q[i]
        /\ longer[Len(q) + 1] = m
    BY AppendProperties, LenProperties
  <2> HIDE DEF longer
  <2>2. ASSUME NEW v \in ToSet(longer) PROVE v \in ToSet(q) \cup {m}
    BY <2>1 DEF ToSet
  <2>3. ASSUME NEW v \in ToSet(q) \cup {m} PROVE v \in ToSet(longer)
    BY <2>1 DEF ToSet
  <2> QED
    BY <2>2, <2>3 DEF longer
<1>2. ASSUME q # <<>>
      PROVE  /\ Head(q) \in S /\ Tail(q) \in Seq(S)
             /\ ToSet(q) = {Head(q)} \cup ToSet(Tail(q))
  <2> DEFINE rest == Tail(q)
  <2>1. /\ rest \in Seq(S) /\ Len(q) \in Nat \ {0} /\ Len(rest) = Len(q) - 1
        /\ Head(q) = q[1] /\ q[1] \in S
        /\ \A i \in 1..Len(rest) : rest[i] = q[i + 1]
    BY <1>2, PopTop
  <2>2. DOMAIN q = 1..Len(q) /\ DOMAIN rest = 1..(Len(q) - 1)
    BY <2>1, LenProperties
  <2> HIDE DEF rest
  <2>3. ASSUME NEW i \in 1..Len(q) PROVE q[i] \in {q[1]} \cup ToSet(rest)
    <3>1. CASE i = 1
      BY <3>1
    <3>2. CASE i # 1
      <4>1. i - 1 \in 1..(Len(q) - 1) /\ (i - 1) + 1 = i
        BY <2>1, <3>2
      <4> QED
        BY <2>1, <2>2, <4>1 DEF ToSet
    <3> QED
      BY <3>1, <3>2
  <2>4. ASSUME NEW i \in 1..(Len(q) - 1) PROVE rest[i] \in ToSet(q)
    BY <2>1, <2>2 DEF ToSet
  <2>5. 1 \in 1..Len(q)
    BY <2>1
  <2>6. ToSet(q) = {q[1]} \cup ToSet(rest)
    BY <2>2, <2>3, <2>4, <2>5 DEF ToSet
  <2> QED
    BY <2>1, <2>6 DEF rest
<1> QED
  BY <1>1, <1>2

\* A step of a sender keeps the invariant.
LEMMA SenderKeeps ==
  ASSUME SiInv, NEW m \in SiSender, Probe(m) \/ Sigqueue(m)
  PROVE  SiInv'
<1> USE DEF SiInv, SiTypeOK, MessageAccounted, Displaying, ShownWhole, SiMsg, Receiver, siHistory
<1>1. CASE Probe(m)
  BY <1>1 DEF Probe
<1>2. CASE Sigqueue(m)
  <2>1. UNCHANGED <<Receiver, siHistory>>
    BY <1>2 DEF Sigqueue
  <2>2. CASE recv # "dead" /\ Len(queued) < SiQueue
    <3> DEFINE longer == Append(queued, m)
    <3>1. sender' = [sender EXCEPT ![m] = "sent"] /\ queued' = longer
      BY <1>2, <2>2 DEF Sigqueue
    <3>2. /\ longer \in Seq(SiSender) /\ Len(longer) = Len(queued) + 1
          /\ Len(queued) \in Nat /\ ToSet(longer) = ToSet(queued) \cup {m}
      BY AppendProperties, LenProperties, QueueContents
    <3> HIDE DEF longer
    <3> QED
      BY <2>1, <2>2, <3>1, <3>2, SiAssumption
  <2>3. CASE ~ (recv # "dead" /\ Len(queued) < SiQueue)
    BY <1>2, <2>1, <2>3 DEF Sigqueue
  <2> QED
    BY <2>2, <2>3
<1> QED
  BY <1>1, <1>2

\* The handler read_msg keeps the invariant.
LEMMA ReadMsgKeeps ==
  ASSUME SiInv, ReadMsg
  PROVE  SiInv'
<1> DEFINE m == Head(queued)
           rest == Tail(queued)
<1>1. /\ recv \notin {"start", "dead"} /\ queued # <<>> /\ queued' = rest
      /\ recv_data' = [pid |-> m, data |-> m] /\ arrived' = arrived \cup {m}
      /\ replaced' = IF data_recvd THEN replaced \cup {recv_data.data} ELSE replaced
      /\ late' = IF recv \in {"sleep", "poll"} THEN late ELSE late \cup {m}
      /\ data_recvd' = TRUE
      /\ UNCHANGED <<sender, recv, reading, siShown>>
  BY DEF ReadMsg
<1>2. /\ m \in SiSender /\ rest \in Seq(SiSender) /\ ToSet(queued) = {m} \cup ToSet(rest)
      /\ Len(queued) \in Nat \ {0} /\ Len(rest) = Len(queued) - 1
  BY <1>1, QueueContents, PopTop DEF SiInv, SiTypeOK
<1> HIDE DEF m, rest
<1>3. SiTypeOK'
  BY <1>1, <1>2, SiAssumption DEF SiInv, SiTypeOK, SiMsg, Displaying
<1>4. MessageAccounted'
  <2>1. ShownWhole' = ShownWhole
    BY <1>1 DEF ShownWhole
  <2>2. arrived' \subseteq ShownWhole' \cup replaced' \cup late' \cup {recv_data'.data}
    BY <1>1, <2>1 DEF SiInv, MessageAccounted, ShownWhole
  <2> QED
    BY <1>1, <1>2, <2>2 DEF SiInv, MessageAccounted, ShownWhole
<1>5. Displaying'
  <2>1. ShownWhole' = ShownWhole
    BY <1>1 DEF ShownWhole
  <2> QED
    BY <1>1, <1>2, <2>1 DEF SiInv, SiTypeOK, Displaying
<1> QED
  BY <1>3, <1>4, <1>5 DEF SiInv

\* A step of the receiver keeps the invariant.
LEMMA ReceiverKeeps ==
  ASSUME SiInv, KilledAtStart \/ Sigaction \/ SiMain
  PROVE  SiInv'
<1> USE DEF SiInv, SiTypeOK, MessageAccounted, Displaying, ShownWhole, SiMsg, siHistory
<1>0. <<>> \in Seq(SiSender) /\ Len(<<>>) = 0
  BY EmptySeq
<1>1. CASE KilledAtStart
  BY <1>0, <1>1, SiAssumption DEF KilledAtStart
<1>2. CASE Sigaction
  BY <1>0, <1>2, SiAssumption DEF Sigaction
<1>3. CASE Wake \/ Poll
  BY <1>3 DEF Wake, Poll
<1>4. CASE DisplayPid
  BY <1>4 DEF DisplayPid
<1>5. CASE DisplayData
  <2> DEFINE shown == [pid |-> reading, data |-> recv_data.data]
  <2>1. /\ recv = "displayData" /\ recv' = "clear" /\ siShown' = siShown \cup {shown}
        /\ UNCHANGED <<sender, queued, recv_data, data_recvd, reading, arrived, replaced, late>>
    BY <1>5 DEF DisplayData
  <2>2. /\ shown \in [pid : SiMsg, data : SiMsg] /\ shown.pid = reading
        /\ shown.data = recv_data.data
    OBVIOUS
  <2> HIDE DEF shown
  <2>3. SiTypeOK'
    BY <2>1, <2>2
  <2>4. /\ ShownWhole \subseteq ShownWhole'
        /\ reading = recv_data.data => recv_data.data \in ShownWhole'
    BY <2>1, <2>2
  <2>5. MessageAccounted'
    <3>1. \A d \in siShown' : (d.pid # d.data) => (d.data \in late')
      BY <2>1, <2>2
    <3> QED
      BY <2>1, <2>4, <3>1
  <2>6. Displaying'
    BY <2>1, <2>4
  <2> QED
    BY <2>3, <2>5, <2>6
<1>6. CASE Clear
  <2>1. /\ recv = "clear" /\ recv' = "sleep" /\ data_recvd' = FALSE /\ reading' = NoMsg
        /\ UNCHANGED <<sender, queued, recv_data, siShown, arrived, replaced, late>>
    BY <1>6 DEF Clear
  <2>2. SiTypeOK'
    BY <2>1
  <2>3. MessageAccounted'
    BY <2>1
  <2>4. Displaying'
    BY <2>1
  <2> QED
    BY <2>2, <2>3, <2>4
<1> QED
  BY <1>1, <1>2, <1>3, <1>4, <1>5, <1>6 DEF SiMain

\* What the receiver is about to display is one whole message.
THEOREM SigIpcInductive == SiSpec => []SiInv
<1>1. SiInit => SiInv
  <2> SUFFICES ASSUME SiInit PROVE SiInv
    OBVIOUS
  <2>1. <<>> \in Seq(SiSender) /\ Len(<<>>) = 0
    BY EmptySeq
  <2>2. SiTypeOK
    <3>1. queued \in Seq(SiSender) /\ Len(queued) <= SiQueue
      BY <2>1, SiAssumption DEF SiInit
    <3>2. data_recvd \in BOOLEAN /\ sender \in [SiSender -> {"probe", "queue", "sent", "failed"}]
      BY DEF SiInit
    <3> QED
      BY <3>1, <3>2 DEF SiInit, SiTypeOK, SiMsg
  <2>3. MessageAccounted
    BY DEF SiInit, MessageAccounted
  <2>4. Displaying
    BY DEF SiInit, Displaying
  <2> QED
    BY <2>2, <2>3, <2>4 DEF SiInv
<1>2. SiInv /\ [SiNext]_siVars => SiInv'
  <2>1. ASSUME SiInv, UNCHANGED siVars PROVE SiInv'
    BY <2>1 DEF SiInv, SiTypeOK, MessageAccounted, Displaying, ShownWhole, siVars, siHistory
  <2> QED
    BY <2>1, SenderKeeps, ReadMsgKeeps, ReceiverKeeps DEF SiNext
<1> QED
  BY <1>1, <1>2, PTL DEF SiSpec

\* Whatever order the messages come in, each is displayed whole unless it was
\* replaced or came too late.
THEOREM MessageAccountedHolds == SiSpec => []MessageAccounted
<1>1. SiInv => MessageAccounted
  BY DEF SiInv
<1> QED
  BY SigIpcInductive, <1>1, PTL

---------------------------------------------------------------------------
(* FaultHandlers *)

\* What sets the six programs apart.
LEMMA FhProgramFacts ==
  ASSUME fhProg \in FhPrograms
  PROVE  /\ "SEGV" \notin fhProg.catches => fhProg = Sigwt /\ fhProg.reports = {}
         /\ fhProg.then = "exit" <=> fhProg = Template
         /\ fhProg = Template => fhProg.causes = {} /\ ~ fhProg.waits
                                 /\ fhProg.reports = {"SEGV", "FPE"}
         /\ fhProg.reports \subseteq fhProg.catches
         /\ fhProg.catches \subseteq {"SEGV", "FPE"}
         /\ fhProg.causes \subseteq {"access", "overflow"}
BY DEF FhPrograms, HandleSegv, SegvAltstack, Altstack, Sigtmwtinfo, Sigwt, Template

\* A step of any of the programs keeps the invariant.
LEMMA FaultKeeps ==
  ASSUME FhInv, FhNext
  PROVE  FhInv'
<1> USE DEF FhInv, FhTypeOK, Reporting, Raising, FaultReportedOnce, Dies, fhSetup, fhSignal
<1>0. /\ "SEGV" \notin fhProg.catches => fhProg = Sigwt /\ fhProg.reports = {}
      /\ fhProg.then = "exit" <=> fhProg = Template
      /\ fhProg = Template => fhProg.causes = {} /\ ~ fhProg.waits
                              /\ fhProg.reports = {"SEGV", "FPE"}
      /\ fhProg.reports \subseteq fhProg.catches
      /\ fhProg.catches \subseteq {"SEGV", "FPE"}
      /\ fhProg.causes \subseteq {"access", "overflow"}
  BY FhProgramFacts
<1>1. CASE SetupHandlers
  BY <1>0, <1>1 DEF SetupHandlers
<1>2. CASE Fault
  BY <1>0, <1>2 DEF Fault
<1>3. CASE DefaultAction
  BY <1>0, <1>3 DEF DefaultAction
<1>4. CASE EnterFaultHandler
  BY <1>0, <1>4 DEF EnterFaultHandler
<1>5. CASE Report
  <2>1. /\ fh = "handler" /\ reports = 0 /\ died = "no"
        /\ reports' = IF sigNo \in fhProg.reports THEN 1 ELSE 0
        /\ fh' = IF sigNo \notin fhProg.reports THEN "return"
                 ELSE IF fhProg.then = "abort" THEN "abort" ELSE "reset"
        /\ UNCHANGED <<fhProg, altStack, fhThread, sigNo, cause, segvAction, raised, died>>
    BY <1>5 DEF Report
  <2>2. CASE sigNo \in fhProg.reports
    BY <1>0, <2>1, <2>2
  <2>3. CASE sigNo \notin fhProg.reports
    BY <1>0, <2>1, <2>3
  <2> QED
    BY <2>2, <2>3
<1>6. CASE Abort
  BY <1>0, <1>6 DEF Abort
<1>7. CASE ResetSegv
  BY <1>0, <1>7 DEF ResetSegv
<1>8. CASE RaiseSegv
  BY <1>0, <1>8 DEF RaiseSegv
<1>9. CASE ExitInHandler
  BY <1>0, <1>9 DEF ExitInHandler
<1>10. CASE ReturnRaised
  BY <1>0, <1>10 DEF ReturnRaised
<1>11. CASE ReturnQuietly
  BY <1>0, <1>11 DEF ReturnQuietly
<1> QED
  BY <1>1, <1>2, <1>3, <1>4, <1>5, <1>6, <1>7, <1>8, <1>9, <1>10, <1>11 DEF FhNext

\* How far a report and the raised signal have come.
THEOREM FaultInductive == FhSpec => []FhInv
<1>1. FhInit => FhInv
  <2> SUFFICES ASSUME FhInit PROVE FhInv
    OBVIOUS
  <2>1. FhTypeOK
    <3>1. reports \in Nat
      BY DEF FhInit
    <3>2. altStack \subseteq {"main"} /\ raised \in BOOLEAN
      BY DEF FhInit
    <3> QED
      BY <3>1, <3>2 DEF FhInit, FhTypeOK
  <2>2. Reporting /\ Raising /\ FaultReportedOnce
    BY DEF FhInit, Reporting, Raising, FaultReportedOnce
  <2> QED
    BY <2>1, <2>2 DEF FhInv
<1>2. FhInv /\ [FhNext]_fhVars => FhInv'
  <2>1. ASSUME FhInv, UNCHANGED fhVars PROVE FhInv'
    BY <2>1 DEF FhInv, FhTypeOK, Reporting, Raising, FaultReportedOnce, fhVars, fhSetup, fhSignal
  <2> QED
    BY <2>1, FaultKeeps
<1> QED
  BY <1>1, <1>2, PTL DEF FhSpec

\* No fault is reported twice or survived, none that has a handler kills unreported
\* unless its frame does not fit, and a reported one leaves a core, where signal(2)
\* works, in all but the template.
THEOREM FaultReportedOnceHolds == FhSpec => []FaultReportedOnce
<1>1. FhInv => FaultReportedOnce
  BY DEF FhInv
<1> QED
  BY FaultInductive, <1>1, PTL

=============================================================================
