--------------------------- MODULE CvSimpleProofs ---------------------------
(***************************************************************************)
(* Theorems about CvSimple, for any number of spurious wakeups.            *)
(***************************************************************************)
EXTENDS CvSimple, TLAPS

\* The invariant of CvSimple is inductive: the mutex is with the thread inside
\* its critical section, gWorkDone tells how far B is, and A is past its loop
\* only after B's signal.
THEOREM Inductive == CvSpec => []CvInv
<1>1. CvInit => CvInv
  <2> SUFFICES ASSUME CvInit PROVE CvInv
    OBVIOUS
  <2>1. gWorkDone \in BOOLEAN /\ ~ gWorkDone
    BY Zenon DEF CvInit
  <2>2. spurious \in 0..MaxSpurious
    BY CvAssumption, SMT DEF CvInit
  <2> QED
    BY <2>1, <2>2 
    DEF CvInit, CvInv, CvTypeOK, CvExclusive, HoldsA, HoldsB, ContinueAfterWork
<1>2. CvInv /\ [CvNext]_cvVars => CvInv'
  <2> SUFFICES ASSUME CvInv, [CvNext]_cvVars PROVE CvInv'
    OBVIOUS
  <2> USE DEF CvInv, CvTypeOK, CvExclusive, HoldsA, HoldsB, ContinueAfterWork, CvAlive
  <2>1. CASE CvMainStep
    <3>1. CASE InitCv
      BY <3>1 DEF InitCv
    <3>2. CASE CreateA
      BY <3>2 DEF CreateA
    <3>3. CASE CreateB
      BY <3>3 DEF CreateB
    <3>4. CASE JoinA
      BY <3>4 DEF JoinA
    <3>5. CASE JoinB
      BY <3>5 DEF JoinB
    <3>6. CASE CvDestroy
      BY <3>6 DEF CvDestroy
    <3> QED
      BY <2>1, <3>1, <3>2, <3>3, <3>4, <3>5, <3>6 DEF CvMainStep
  <2>2. CASE CvFail
    BY <2>2 DEF CvFail
  <2>3. CASE WorkerA
    <3>1. CASE LockA
      BY <3>1 DEF LockA
    <3>2. CASE Wait
      BY <3>2 DEF Wait
    <3>3. CASE Reacquire
      BY <3>3 DEF Reacquire
    <3>4. CASE Recheck
      BY <3>4 DEF Recheck
    <3>5. CASE UnlockA
      BY <3>5 DEF UnlockA
    <3> QED
      BY <2>3, <3>1, <3>2, <3>3, <3>4, <3>5 DEF WorkerA
  <2>4. CASE SpuriousWakeup
    BY <2>4, CvAssumption DEF SpuriousWakeup
  <2>5. CASE WorkerB
    <3>1. CASE Work
      BY <3>1 DEF Work
    <3>2. CASE LockB
      BY <3>2 DEF LockB
    <3>3. CASE SetDone
      BY <3>3 DEF SetDone
    <3>4. CASE Signal
      BY <3>4 DEF Signal
    <3>5. CASE UnlockB
      BY <3>5 DEF UnlockB
    <3> QED
      BY <2>5, <3>1, <3>2, <3>3, <3>4, <3>5 DEF WorkerB
  <2>6. CASE UNCHANGED cvVars
    BY <2>6 DEF cvVars
  <2> QED
    BY <2>1, <2>2, <2>3, <2>4, <2>5, <2>6 DEF CvNext
<1> QED
  BY <1>1, <1>2, PTL DEF CvSpec

\* Every variable keeps its type.
THEOREM TypeCorrect == CvSpec => []CvTypeOK
<1>1. CvInv => CvTypeOK
  BY DEF CvInv
<1> QED
  BY <1>1, Inductive, PTL

\* Thread A continues only after B's work, however often it is woken.
THEOREM ContinueAfterWorkHolds == CvSpec => []ContinueAfterWork
<1>1. CvInv => ContinueAfterWork
  BY DEF CvInv
<1> QED
  BY <1>1, Inductive, PTL

\* The mutex and the condition variable are destroyed after both threads ended.
THEOREM NoUseAfterDestroyHolds == CvSpec => []NoUseAfterDestroy
<1>1. CvInv => NoUseAfterDestroy
  BY DEF CvInv, CvTypeOK, CvExclusive, HoldsA, HoldsB, NoUseAfterDestroy
<1> QED
  BY <1>1, Inductive, PTL
============================================================================
