----------------------------- MODULE MCBankAcc -----------------------------
(* Instances of BankAcc for TLC. *)
EXTENDS BankAcc

Deposit(a) == [kind |-> "deposit", amt |-> a]
Withdraw(a) == [kind |-> "withdraw", amt |-> a]

\* Three customers of an account that cannot serve them all: each withdrawal
\* fits the opening balance, no two do, and one operation is a no-op.
TightScript ==
  << <<Withdraw(4), Deposit(1)>>, <<Withdraw(3), Withdraw(3)>>,
     <<Deposit(0), Withdraw(5)>> >>

===========================================================================
