--------------------------- MODULE BankAccProofs ---------------------------
(***************************************************************************)
(* Proofs about BankAcc, for every number of threads, every pair of        *)
(* operations per thread and every opening balance.                        *)
(***************************************************************************)
EXTENDS BankAcc, TLAPS

(* An operation's effect is a balance. *)
LEMMA OpTyping ==
  ASSUME NEW op \in Op, NEW bal \in Int
  PROVE  Effect(op, bal) \in Int /\ Apply(op, bal) \in Int
BY DEF Op, Effect, Apply

(* An operation that is not refused does not take the account below the    *)
(* minimum: deposits are positive, withdrawals leave MinCredit.            *)
LEMMA OpKeepsFloor ==
  ASSUME NEW op \in Op, NEW bal \in Int,
         ~ Refused(op, bal), bal >= MinCredit
  PROVE  Effect(op, bal) >= MinCredit
<1>1. CASE op.kind = "deposit"
  BY <1>1, BankAssumption DEF Op, Effect, Refused
<1>2. CASE op.kind = "withdraw"
  BY <1>2, BankAssumption DEF Op, Effect, Refused
<1>. QED
  BY <1>1, <1>2 DEF Op

LEMMA CurOpTyping ==
  ASSUME TypeOK, NEW t \in Thread
  PROVE  CurOp(t) \in Op /\ Script[t][1] \in Op /\ Script[t][2] \in Op
<1>1. k[t] \in 1..2
  BY DEF TypeOK
<1>. QED
  BY <1>1, BankAssumption DEF CurOp

LEMMA ReturnTyping ==
  ASSUME TypeOK, NEW t \in Thread, Return(t)
  PROVE  /\ k' \in [Thread -> 1..2]
         /\ pc' \in [Thread -> WorkerPC]
BY DEF Return, TypeOK, WorkerPC

(* bankacc.c keeps its variables in their types. *)
THEOREM TypeCorrect == Spec => []TypeOK
<1>1. Init => TypeOK
  BY BankAssumption DEF Init, TypeOK, NoThread, WorkerPC
<1>2. TypeOK /\ [Next]_vars => TypeOK'
  <2>. SUFFICES ASSUME TypeOK, [Next]_vars PROVE TypeOK'
    OBVIOUS
  <2>. USE BankAssumption DEF TypeOK, WorkerPC
  <2>1. ASSUME NEW t \in Thread, Worker(t) PROVE TypeOK'
    <3>1. CASE Lock(t)
      BY <3>1 DEF Lock, mainVars
    <3>2. CASE Refuse(t)
      BY <3>2, ReturnTyping DEF Refuse, mainVars
    <3>3. CASE Accept(t)
      BY <3>3 DEF Accept, mainVars
    <3>4. CASE Load(t)
      BY <3>4 DEF Load, mainVars
    <3>5. CASE Store(t)
      <4>1. gBalance' \in Int
        BY <3>5, CurOpTyping, OpTyping DEF Store
      <4>. QED
        BY <3>5, <4>1, ReturnTyping DEF Store, mainVars
    <3>6. CASE Unlock(t)
      BY <3>6 DEF Unlock, mainVars, NoThread
    <3>. QED
      BY <2>1, <3>1, <3>2, <3>3, <3>4, <3>5, <3>6 DEF Worker
  <2>2. CASE InitMutex
    BY <2>2 DEF InitMutex, workerVars
  <2>3. CASE Create
    <3>1. pc' \in [Thread -> WorkerPC]
      BY <2>3 DEF Create
    <3>2. main' \in {"create", "join"} /\ n' \in Nat
      BY <2>3 DEF Create
    <3>. QED
      BY <2>3, <3>1, <3>2 DEF Create
  <2>4. CASE Fail
    BY <2>4 DEF Fail, workerVars
  <2>5. CASE Join
    BY <2>5 DEF Join, workerVars
  <2>6. CASE Destroy
    BY <2>6 DEF Destroy, workerVars
  <2>7. CASE Close
    BY <2>7 DEF Close, workerVars
  <2>8. CASE UNCHANGED vars
    BY <2>8 DEF vars
  <2>. QED
    BY <2>1, <2>2, <2>3, <2>4, <2>5, <2>6, <2>7, <2>8 DEF Next, Main
<1>. QED
  BY <1>1, <1>2, PTL DEF Spec

---------------------------------------------------------------------------
(* The inductive invariant: one lemma per conjunct. *)

LEMMA ExclusiveStep ==
  ASSUME TypeOK, Exclusive, Progress, [Next]_vars
  PROVE  Exclusive'
<1>. USE BankAssumption, LockingAssumption
     DEF TypeOK, WorkerPC, Exclusive, Inside, NoThread, Thread
<1>1. ASSUME NEW t \in Thread, Worker(t) PROVE Exclusive'
  <2>1. CASE Lock(t)
    BY <2>1 DEF Lock, mainVars
  <2>2. CASE Refuse(t)
    BY <2>2 DEF Refuse, Return, mainVars
  <2>3. CASE Accept(t)
    BY <2>3 DEF Accept, mainVars
  <2>4. CASE Load(t)
    BY <2>4 DEF Load, mainVars
  <2>5. CASE Store(t)
    BY <2>5 DEF Store, Return, mainVars
  <2>6. CASE Unlock(t)
    BY <2>6 DEF Unlock, mainVars
  <2>. QED
    BY <1>1, <2>1, <2>2, <2>3, <2>4, <2>5, <2>6 DEF Worker
<1>2. CASE Create
  BY <1>2 DEF Create, Progress
<1>3. CASE InitMutex \/ Fail \/ Join \/ Destroy \/ Close \/ UNCHANGED vars
  BY <1>3 DEF InitMutex, Fail, Join, Destroy, Close, workerVars, vars
<1>. QED
  BY <1>1, <1>2, <1>3 DEF Next, Main

LEMMA ProgressStep ==
  ASSUME TypeOK, Progress, [Next]_vars
  PROVE  Progress'
<1>. USE BankAssumption DEF TypeOK, WorkerPC, Progress, Thread
<1>1. ASSUME NEW t \in Thread, Worker(t) PROVE Progress'
  <2>1. CASE Lock(t)
    BY <2>1 DEF Lock, Alive, mainVars
  <2>2. CASE Refuse(t)
    BY <2>2 DEF Refuse, Alive, Return, mainVars
  <2>3. CASE Accept(t)
    BY <2>3 DEF Accept, Alive, mainVars
  <2>4. CASE Load(t)
    BY <2>4 DEF Load, Alive, mainVars
  <2>5. CASE Store(t)
    BY <2>5 DEF Store, Alive, Return, mainVars
  <2>6. CASE Unlock(t)
    BY <2>6 DEF Unlock, Alive, mainVars
  <2>. QED
    BY <1>1, <2>1, <2>2, <2>3, <2>4, <2>5, <2>6 DEF Worker
<1>2. CASE InitMutex
  BY <1>2 DEF InitMutex, workerVars
<1>3. CASE Create
  BY <1>3 DEF Create
<1>4. CASE Fail
  BY <1>4 DEF Fail, workerVars
<1>5. CASE Join
  BY <1>5 DEF Join, workerVars
<1>6. CASE Destroy
  BY <1>6 DEF Destroy, workerVars
<1>7. CASE Close
  BY <1>7 DEF Close, workerVars
<1>8. CASE UNCHANGED vars
  BY <1>8 DEF vars
<1>. QED
  BY <1>1, <1>2, <1>3, <1>4, <1>5, <1>6, <1>7, <1>8 DEF Next, Main

(* Nobody but the owner moves inside the critical section, so what the     *)
(* owner decided and loaded stays true until it stores.                    *)
LEMMA FreshStep ==
  ASSUME TypeOK, Exclusive, Fresh, [Next]_vars
  PROVE  Fresh'
<1>. SUFFICES ASSUME Locking PROVE Fresh'
  BY LockingAssumption DEF Fresh
<1>. USE BankAssumption DEF TypeOK, WorkerPC, Exclusive, Inside, Fresh, CurOp
<1>1. ASSUME NEW t \in Thread, Worker(t) PROVE Fresh'
  <2>1. CASE Lock(t)
    BY <2>1 DEF Lock, mainVars
  <2>2. CASE Refuse(t)
    BY <2>2 DEF Refuse, Return, mainVars
  <2>3. CASE Accept(t)
    BY <2>3 DEF Accept, mainVars
  <2>4. CASE Load(t)
    BY <2>4 DEF Load, mainVars
  <2>5. CASE Store(t)
    <3>1. \A u \in Thread : u # t => pc'[u] \notin {"load", "store"}
      BY <2>5 DEF Store, Return
    <3>2. pc'[t] \notin {"load", "store"}
      BY <2>5 DEF Store, Return
    <3>. QED
      BY <3>1, <3>2
  <2>6. CASE Unlock(t)
    BY <2>6 DEF Unlock, mainVars
  <2>. QED
    BY <1>1, <2>1, <2>2, <2>3, <2>4, <2>5, <2>6 DEF Worker
<1>2. CASE Create
  BY <1>2 DEF Create
<1>3. CASE InitMutex \/ Fail \/ Join \/ Destroy \/ Close \/ UNCHANGED vars
  BY <1>3 DEF InitMutex, Fail, Join, Destroy, Close, workerVars, vars
<1>. QED
  BY <1>1, <1>2, <1>3 DEF Next, Main

LEMMA LifetimeStep ==
  ASSUME TypeOK, Progress, MutexLifetime, [Next]_vars
  PROVE  MutexLifetime'
<1>. SUFFICES ASSUME Locking PROVE MutexLifetime'
  BY LockingAssumption DEF MutexLifetime
<1>. USE BankAssumption DEF TypeOK, WorkerPC, Inside, Progress, MutexLifetime
<1>1. ASSUME NEW t \in Thread, Worker(t) PROVE MutexLifetime'
  BY <1>1 DEF Worker, Lock, Refuse, Accept, Load, Store, Unlock, Return, mainVars
<1>2. CASE InitMutex
  BY <1>2 DEF InitMutex, workerVars
<1>3. CASE Create
  BY <1>3 DEF Create
<1>4. CASE Fail \/ Join \/ Close \/ UNCHANGED vars
  BY <1>4 DEF Fail, Join, Close, workerVars, vars
<1>5. CASE Destroy
  BY <1>5 DEF Destroy, workerVars
<1>. QED
  BY <1>1, <1>2, <1>3, <1>4, <1>5 DEF Next, Main

LEMMA FloorStep ==
  ASSUME TypeOK, Fresh, CreditFloor, [Next]_vars
  PROVE  CreditFloor'
<1>. SUFFICES ASSUME Locking, Opening >= MinCredit PROVE gBalance' >= MinCredit
  BY LockingAssumption DEF CreditFloor
<1>0. gBalance \in Int /\ gBalance >= MinCredit
  BY DEF TypeOK, CreditFloor
<1>1. ASSUME NEW t \in Thread, Store(t) PROVE gBalance' >= MinCredit
  <2>1. ~ Refused(CurOp(t), gBalance) /\ reg[t] = gBalance
    BY <1>1 DEF Store, Fresh
  <2>. QED
    BY <1>0, <1>1, <2>1, OpKeepsFloor, CurOpTyping DEF Store
<1>2. ASSUME gBalance' = gBalance PROVE gBalance' >= MinCredit
  BY <1>0, <1>2
<1>. QED
  BY <1>1, <1>2 DEF Next, Main, Worker, Lock, Refuse, Accept, Load, Unlock,
     InitMutex, Create, Fail, Join, Destroy, Close, vars

THEOREM Inductive == Spec => []IInv
<1>1. Init => IInv
  BY BankAssumption, LockingAssumption
     DEF Init, IInv, TypeOK, WorkerPC, Exclusive, Inside, Fresh, Progress,
         MutexLifetime, CreditFloor, NoThread, Thread
<1>2. IInv /\ TypeOK' /\ [Next]_vars => IInv'
  BY ExclusiveStep, FreshStep, ProgressStep, LifetimeStep, FloorStep DEF IInv
<1>. QED
  BY <1>1, <1>2, TypeCorrect, PTL DEF Spec

(* The circuit breaker of withdraw() holds with locking on, for any        *)
(* operations of any number of threads: the account never goes below       *)
(* gCB_MinCredit.                                                          *)
THEOREM CreditFloorHolds == Spec => []CreditFloor
BY Inductive, PTL DEF IInv

(* No worker uses mylock before main() initialised it or after main()      *)
(* destroyed it.                                                           *)
THEOREM MutexLifetimeHolds == Spec => []MutexLifetime
BY Inductive, PTL DEF IInv

---------------------------------------------------------------------------
(* BankAcc implements AtomicBank when it locks.                            *)

(* A step of the thread that owns mylock, other than UNLOCK, leaves the    *)
(* balance it will leave behind as it was.                                 *)
LEMMA OwnerStutters ==
  ASSUME Locking, IInv, NEW t \in Thread,
         Refuse(t) \/ Accept(t) \/ Load(t) \/ Store(t) \/ Unlock(t)
  PROVE  Settled' = Settled /\ NotStarted' = NotStarted /\ closing' = closing
<1>1. owner = t /\ owner # NoThread /\ t # NoThread /\ k[t] \in 1..2
  BY BankAssumption DEF IInv, TypeOK, Exclusive, Inside, Refuse, Accept, Load, Store,
     Unlock, Thread, NoThread
<1>2. pc \in [Thread -> WorkerPC] /\ k \in [Thread -> 1..2] /\ reg \in [Thread -> Int]
  BY DEF IInv, TypeOK
<1>3. NotStarted' = NotStarted /\ closing' = closing
  BY <1>2 DEF NotStarted, Refuse, Accept, Load, Store, Unlock, Return, mainVars, WorkerPC
<1>4. CASE Refuse(t)
  <2>1. /\ owner' = owner /\ gBalance' = gBalance /\ pc[t] = "op"
        /\ k'[t] = 2 /\ pc'[t] = IF k[t] = 1 THEN "op" ELSE "unlock"
    BY <1>2, <1>4 DEF Refuse, Return
  <2>2. AfterCurrent(t) = gBalance
    BY <1>4, <2>1 DEF Refuse, AfterCurrent, Apply
  <2>3. CASE k[t] = 1
    <3>1. AfterCurrent(t)' = Apply(Script[t][2], gBalance)
      BY <2>1, <2>3 DEF AfterCurrent, CurOp
    <3>. QED
      BY <1>1, <1>3, <2>1, <2>2, <2>3, <3>1 DEF Settled
  <2>4. CASE k[t] = 2
    <3>1. AfterCurrent(t)' = gBalance
      BY <2>1, <2>4 DEF AfterCurrent
    <3>. QED
      BY <1>1, <1>3, <2>1, <2>2, <2>4, <3>1 DEF Settled
  <2>. QED
    BY <1>1, <2>3, <2>4
<1>5. CASE Accept(t)
  <2>1. owner' = owner /\ gBalance' = gBalance /\ k' = k /\ pc'[t] = "load" /\ pc[t] = "op"
    BY <1>2, <1>5 DEF Accept
  <2>2. AfterCurrent(t)' = AfterCurrent(t)
    BY <1>5, <2>1 DEF Accept, AfterCurrent, Apply, CurOp
  <2>. QED
    BY <1>1, <1>3, <2>1, <2>2 DEF Settled
<1>6. CASE Load(t)
  <2>1. /\ owner' = owner /\ gBalance' = gBalance /\ k' = k /\ pc[t] = "load"
        /\ pc'[t] = "store" /\ reg'[t] = gBalance
    BY <1>2, <1>6 DEF Load
  <2>2. AfterCurrent(t)' = AfterCurrent(t)
    BY <2>1 DEF AfterCurrent, CurOp
  <2>. QED
    BY <1>1, <1>3, <2>1, <2>2 DEF Settled
<1>7. CASE Store(t)
  <2>1. /\ owner' = owner /\ pc[t] = "store" /\ gBalance' = AfterCurrent(t)
        /\ k'[t] = 2 /\ pc'[t] = IF k[t] = 1 THEN "op" ELSE "unlock"
    BY <1>2, <1>7 DEF Store, Return, AfterCurrent
  <2>2. CASE k[t] = 1
    <3>1. AfterCurrent(t)' = Apply(Script[t][2], gBalance')
      BY <2>1, <2>2 DEF AfterCurrent, CurOp
    <3>. QED
      BY <1>1, <1>3, <2>1, <2>2, <3>1 DEF Settled
  <2>3. CASE k[t] = 2
    <3>1. AfterCurrent(t)' = gBalance'
      BY <2>1, <2>3 DEF AfterCurrent
    <3>. QED
      BY <1>1, <1>3, <2>1, <2>3, <3>1 DEF Settled
  <2>. QED
    BY <1>1, <2>2, <2>3
<1>8. CASE Unlock(t)
  <2>1. owner' = NoThread /\ gBalance' = gBalance /\ pc[t] = "unlock"
    BY <1>8 DEF Unlock
  <2>2. k[t] = 2
    BY <1>1, <1>8 DEF IInv, Progress, Unlock
  <2>. QED
    BY <1>1, <1>3, <2>1, <2>2 DEF Settled, AfterCurrent
<1>. QED
  BY <1>4, <1>5, <1>6, <1>7, <1>8

(* LOCK is where a thread's transaction takes place. *)
LEMMA LockTransacts ==
  ASSUME Locking, IInv, NEW t \in Thread, Lock(t)
  PROVE  Bank!Transact(t)
<1>. USE DEF IInv, TypeOK, WorkerPC
<1>1. /\ owner = NoThread /\ owner' = t /\ gBalance' = gBalance /\ k'[t] = 1
      /\ pc'[t] = "op" /\ closing' = closing
  <2>1. pc[t] = "lock" /\ owner = NoThread /\ owner' = t
    BY LockingAssumption DEF Lock
  <2>2. gBalance' = gBalance /\ k' = k /\ closing' = closing /\ pc'[t] = "op"
    BY DEF Lock, mainVars
  <2>3. k[t] = 1
    BY <2>1 DEF Progress
  <2>. QED
    BY <2>1, <2>2, <2>3
<1>2. Settled = gBalance
  BY <1>1 DEF Settled
<1>3. Settled' = Apply(Script[t][2], Apply(Script[t][1], gBalance))
  <2>1. AfterCurrent(t)' = Apply(Script[t][1], gBalance)
    BY <1>1 DEF AfterCurrent, CurOp
  <2>2. t # NoThread
    BY BankAssumption DEF Thread, NoThread
  <2>. QED
    BY <1>1, <2>1, <2>2 DEF Settled
<1>4. t \in NotStarted /\ NotStarted' = NotStarted \ {t}
  BY DEF Lock, NotStarted
<1>5. \A op, bal : Bank!Apply(op, bal) = Apply(op, bal)
  BY DEF Bank!Apply, Bank!Refused, Bank!Effect, Apply, Refused, Effect
<1>. QED
  BY <1>1, <1>2, <1>3, <1>4, <1>5 DEF Bank!Transact

(* The steps of main: only printing the closing balance shows outside.     *)
LEMMA MainMaps ==
  ASSUME Locking, IInv, IInv', Main
  PROVE  Bank!Close \/ UNCHANGED Bank!avars
<1>. USE BankAssumption DEF IInv, TypeOK, WorkerPC, Exclusive, Inside, Progress, Thread, NoThread
<1>1. CASE Close
  <2>1. owner = NoThread /\ owner' = owner /\ gBalance' = gBalance
    BY <1>1 DEF Close, workerVars
  <2>2. NotStarted = {} /\ NotStarted' = {}
    <3>1. \A t \in Thread : pc[t] = "done" /\ pc'[t] = "done"
      BY <1>1 DEF Close, workerVars
    <3>. QED
      BY <3>1 DEF NotStarted
  <2>3. Settled = gBalance /\ Settled' = gBalance
    BY <2>1 DEF Settled
  <2>. QED
    BY <1>1, <2>2, <2>3 DEF Close, Bank!Close
<1>2. CASE Create
  <2>1. NotStarted' = NotStarted
    BY <1>2 DEF Create, NotStarted
  <2>2. \A t \in Thread : Inside(t) => pc'[t] = pc[t]
    BY <1>2 DEF Create
  <2>3. Settled' = Settled
    <3>1. CASE owner = NoThread
      BY <1>2, <3>1 DEF Create, Settled
    <3>2. CASE owner # NoThread
      <4>1. owner \in Thread /\ pc'[owner] = pc[owner]
        BY <2>2, <3>2
      <4>. QED
        BY <1>2, <3>2, <4>1 DEF Create, Settled, AfterCurrent, CurOp
    <3>. QED
      BY <3>1, <3>2
  <2>. QED
    BY <1>2, <2>1, <2>3 DEF Create, Bank!avars
<1>3. CASE InitMutex \/ Fail \/ Join \/ Destroy
  <2>1. UNCHANGED <<gBalance, owner, workerVars, closing>>
    BY <1>3 DEF InitMutex, Fail, Join, Destroy
  <2>2. Settled' = Settled /\ NotStarted' = NotStarted
    BY <2>1 DEF workerVars, Settled, AfterCurrent, CurOp, NotStarted
  <2>. QED
    BY <2>1, <2>2 DEF Bank!avars
<1>. QED
  BY <1>1, <1>2, <1>3 DEF Main

(* With locking on, every behaviour of bankacc.c is a behaviour of         *)
(* AtomicBank: the workers' transactions are serialized and the closing    *)
(* balance is the outcome of some serial order of them.                    *)
THEOREM SerializableHolds == ASSUME Locking PROVE Spec => Serializable
<1>1. Init => Bank!Init
  BY DEF Init, Bank!Init, Settled, NotStarted, Thread, Bank!Thread, NoThread
<1>2. IInv /\ IInv' /\ [Next]_vars => [Bank!Next]_(Bank!avars)
  <2>. SUFFICES ASSUME IInv, IInv', [Next]_vars PROVE [Bank!Next]_(Bank!avars)
    OBVIOUS
  <2>1. CASE Main
    BY <2>1, MainMaps DEF Bank!Next
  <2>2. ASSUME NEW t \in Thread, Lock(t) PROVE Bank!Next
    BY <2>2, LockTransacts DEF Bank!Next, Bank!Thread, Thread
  <2>3. ASSUME NEW t \in Thread,
               Refuse(t) \/ Accept(t) \/ Load(t) \/ Store(t) \/ Unlock(t)
        PROVE  UNCHANGED Bank!avars
    BY <2>3, OwnerStutters DEF Bank!avars
  <2>4. CASE UNCHANGED vars
    BY <2>4 DEF vars, Bank!avars, Settled, AfterCurrent, CurOp, NotStarted
  <2>. QED
    BY <2>1, <2>2, <2>3, <2>4 DEF Next, Worker
<1>. QED
  BY <1>1, <1>2, Inductive, PTL DEF Spec, Serializable, Bank!Spec

===========================================================================
