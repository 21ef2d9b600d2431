------------------------------ MODULE BankOps ------------------------------
(***************************************************************************)
(* The two operations of solutions_to_assgn/ch15/bankacc.c as functions of *)
(* the balance, shared by the program (BankAcc) and by what it promises    *)
(* (AtomicBank).                                                           *)
(***************************************************************************)
EXTENDS Integers

CONSTANTS
  NTHREADS,   \* number of worker threads
  Script,     \* the two operations worker() performs for each thread
  Opening,    \* initial gBalance
  MinCredit   \* gCB_MinCredit: a withdrawal may not leave less than this

Thread == 1..NTHREADS

Op == [kind : {"deposit", "withdraw"}, amt : Int]

ASSUME BankAssumption ==
  /\ NTHREADS \in Nat \ {0}
  /\ Script \in [Thread -> [1..2 -> Op]]
  /\ Opening \in Int
  /\ MinCredit \in Int

\* Mutant of Refused: withdraw() tests the balance it finds, not what it leaves.
RefusedByBalance(op, bal) ==
  \/ op.kind = "deposit" /\ op.amt <= 0
  \/ op.kind = "withdraw" /\ bal < MinCredit

\* The early returns: deposit() of nothing, withdraw() below the minimum.
Refused(op, bal) ==
  \/ op.kind = "deposit" /\ op.amt <= 0
  \/ op.kind = "withdraw" /\ bal - op.amt < MinCredit

Effect(op, bal) == IF op.kind = "deposit" THEN bal + op.amt ELSE bal - op.amt

Apply(op, bal) == IF Refused(op, bal) THEN bal ELSE Effect(op, bal)

===========================================================================
