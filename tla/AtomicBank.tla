---------------------------- MODULE AtomicBank ----------------------------
(***************************************************************************)
(* What the banking application of solutions_to_assgn/ch15/bankacc.c       *)
(* promises when it is told to lock: every thread's pair of operations is  *)
(* one indivisible transaction, the transactions take place in some order, *)
(* and the closing balance is printed once, after all of them.             *)
(***************************************************************************)
EXTENDS BankOps

VARIABLES
  balance,    \* balance after the transactions that took place
  todo,       \* threads whose transaction has not taken place
  closing     \* <<>>, then <<the closing balance>> once it is printed

avars == <<balance, todo, closing>>

Init ==
  /\ balance = Opening
  /\ todo = Thread
  /\ closing = <<>>

Transact(t) ==
  /\ t \in todo
  /\ todo' = todo \ {t}
  /\ balance' = Apply(Script[t][2], Apply(Script[t][1], balance))
  /\ UNCHANGED closing

Close ==
  /\ todo = {}
  /\ closing = <<>>
  /\ closing' = <<balance>>
  /\ UNCHANGED <<balance, todo>>

Next == Close \/ \E t \in Thread : Transact(t)

Spec == Init /\ [][Next]_avars
===========================================================================
