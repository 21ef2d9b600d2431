------------------------------ MODULE LockDemos ------------------------------
(***************************************************************************)
(* ch15/facto.c and ch15/mutex1.c: worker threads that compute in globals, *)
(* with or without a mutex around it.  A worker makes a list of updates,   *)
(* each a load and a store, and prints what it finds.                      *)
(***************************************************************************)
EXTENDS Naturals, FiniteSets

CONSTANT LdThreads   \* NTHREADS (2 in facto, 3 in mutex1)

ASSUME LdAssumption == LdThreads \in Nat \ {0}

LdWorker == 1..LdThreads

VARIABLES
  ldProg,    \* "facto" or "mutex1"
  locking,   \* the first argument
  ldMain,    \* control point of main
  work,      \* control point of each worker
  update,    \* the update it is at
  reg,       \* the value it has loaded
  global,    \* gFactorial is global[1]; g1, g2, g3
  printed    \* what each worker printed

ldVars == <<ldProg, locking, ldMain, work, update, reg, global, printed>>

Cells == 1..3
Initial == [c \in Cells |-> IF ldProg = "facto" THEN 1 ELSE 8 + 2 * c]

\* The workers compute (w + 1)!, where the program takes 10! and 12!.
Updates(w) == IF ldProg = "facto" THEN w + 1 ELSE 3
Cell(k) == IF ldProg = "facto" THEN 1 ELSE k
Updated(v, k) == IF ldProg = "facto" THEN v * k ELSE v + 1

Factorial[n \in Nat] == IF n = 0 THEN 1 ELSE Factorial[n - 1] * n

LdInit ==
  /\ ldProg \in {"facto", "mutex1"} /\ locking \in BOOLEAN
  /\ ldMain = "create"
  /\ work = [w \in LdWorker |-> "none"]
  /\ update = [w \in LdWorker |-> 1] /\ reg = [w \in LdWorker |-> 0]
  /\ global = Initial
  /\ printed = [w \in LdWorker |-> <<>>]

Inside == {"init", "load", "store", "print", "unlock"}
Takes(w, from, to) == ldMain # "exit" /\ work[w] = from /\ work' = [work EXCEPT ![w] = to]
Begin == IF ldProg = "facto" THEN "init" ELSE "load"

\* pthread_create of the next worker; its failure is FATAL.
StartWorker ==
  /\ ldMain = "create"
  /\ \/ \E w \in LdWorker :
          /\ work[w] = "none" /\ \A v \in 1..(w - 1) : work[v] # "none"
          /\ work' = [work EXCEPT ![w] = IF locking THEN "lock" ELSE Begin]
          /\ ldMain' = IF w = LdThreads THEN "join" ELSE "create"
     \/ ldMain' = "exit" /\ UNCHANGED work
  /\ UNCHANGED <<ldProg, locking, update, reg, global, printed>>

\* Every worker is joined, and the mutex destroyed.
JoinAndDestroy ==
  /\ ldMain = "join" /\ \A w \in LdWorker : work[w] = "done"
  /\ ldMain' = "destroyed"
  /\ UNCHANGED <<ldProg, locking, work, update, reg, global, printed>>

\* Mutant of Lock: the mutex does not exclude.
LockNothing(w) ==
  /\ Takes(w, "lock", Begin)
  /\ UNCHANGED <<ldProg, locking, ldMain, update, reg, global, printed>>

Lock(w) ==
  /\ Takes(w, "lock", Begin)
  /\ \A v \in LdWorker : work[v] \notin Inside
  /\ UNCHANGED <<ldProg, locking, ldMain, update, reg, global, printed>>

\* factorize starts from 1.
Reset(w) ==
  /\ Takes(w, "init", "load")
  /\ global' = [global EXCEPT ![1] = 1]
  /\ UNCHANGED <<ldProg, locking, ldMain, update, reg, printed>>

LoadGlobal(w) ==
  /\ Takes(w, "load", "store")
  /\ reg' = [reg EXCEPT ![w] = global[Cell(update[w])]]
  /\ UNCHANGED <<ldProg, locking, ldMain, update, global, printed>>

StoreGlobal(w) ==
  /\ Takes(w, "store", IF update[w] = Updates(w) THEN "print" ELSE "load")
  /\ global' = [global EXCEPT ![Cell(update[w])] = Updated(reg[w], update[w])]
  /\ update' = [update EXCEPT ![w] = @ + 1]
  /\ UNCHANGED <<ldProg, locking, ldMain, reg, printed>>

PrintResult(w) ==
  /\ Takes(w, "print", IF locking THEN "unlock" ELSE "done")
  /\ printed' = [printed EXCEPT ![w] = global]
  /\ UNCHANGED <<ldProg, locking, ldMain, update, reg, global>>

Unlock(w) ==
  /\ Takes(w, "unlock", "done")
  /\ UNCHANGED <<ldProg, locking, ldMain, update, reg, global, printed>>

LdNext ==
  \/ StartWorker \/ JoinAndDestroy
  \/ \E w \in LdWorker :
       Lock(w) \/ Reset(w) \/ LoadGlobal(w) \/ StoreGlobal(w) \/ PrintResult(w) \/ Unlock(w)

LdSpec == LdInit /\ [][LdNext]_ldVars

---------------------------------------------------------------------------
(* Properties. *)

LdTypeOK ==
  /\ ldProg \in {"facto", "mutex1"} /\ locking \in BOOLEAN
  /\ ldMain \in {"create", "join", "destroyed", "exit"}
  /\ work \in [LdWorker -> {"none", "lock", "done"} \cup Inside]
  /\ update \in [LdWorker -> Nat \ {0}]
  /\ reg \in [LdWorker -> Nat] /\ global \in [Cells -> Nat]

\* With the lock, facto prints the factorials it was asked for, and mutex1 three
\* numbers that belong together, different for each thread; without it, no more
\* than that nothing is counted twice.
LockedResults ==
  /\ \A w \in LdWorker : (locking /\ printed[w] # <<>>) =>
       IF ldProg = "facto" THEN printed[w][1] = Factorial[w + 1]
       ELSE printed[w][2] = printed[w][1] + 2 /\ printed[w][3] = printed[w][1] + 4
  /\ (locking /\ ldProg = "mutex1") =>
       \A v, w \in LdWorker :
         (v # w /\ printed[v] # <<>>) => printed[v] # printed[w]
  /\ (ldProg = "mutex1" /\ ldMain = "destroyed") =>
       \A c \in Cells :
         /\ global[c] \in (Initial[c] + 1)..(Initial[c] + LdThreads)
         /\ locking => global[c] = Initial[c] + LdThreads

\* A worker has its updates behind it one after the other, prints once at their
\* end, and with the lock is alone between its first load and its unlock.
LdStages ==
  /\ \A w \in LdWorker :
       /\ work[w] \in {"none", "lock", "init"} => update[w] = 1
       /\ work[w] \in {"load", "store"} => update[w] \in 1..Updates(w)
       /\ work[w] \in {"print", "unlock", "done"} => update[w] = Updates(w) + 1
       /\ printed[w] # <<>> => work[w] \in {"unlock", "done"}
       /\ work[w] = "init" => ldProg = "facto"
  /\ ldMain = "destroyed" => \A w \in LdWorker : work[w] = "done"
  /\ locking => \A v, w \in LdWorker : work[v] \in Inside /\ work[w] \in Inside => v = w

\* The worker that is inside has multiplied as far as its updates go.
LdProducts ==
  (ldProg = "facto" /\ locking) =>
    \A w \in LdWorker :
      /\ work[w] = "load" => global[1] = Factorial[update[w] - 1]
      /\ work[w] = "store" => reg[w] = Factorial[update[w] - 1]
      /\ work[w] = "print" => global[1] = Factorial[w + 1]

\* The workers that have counted in a cell.
Past(c) == {w \in LdWorker : c < update[w]}

\* A number a cell can have: each worker that is past it has added at most one.
LdCounted(n, c) == Initial[c] <= n /\ n <= Initial[c] + Cardinality(Past(c))

LdCounts ==
  ldProg = "mutex1" =>
    /\ \A c \in Cells :
         /\ LdCounted(global[c], c)
         /\ Past(c) # {} => Initial[c] < global[c]
         /\ locking => global[c] = Initial[c] + Cardinality(Past(c))
    /\ \A w \in LdWorker : work[w] = "store" =>
         /\ LdCounted(reg[w], update[w])
         /\ locking => reg[w] = global[update[w]]

\* With the lock, a worker that has counted in the first cell will print more
\* than anyone has printed before it.
LdPrinted ==
  (ldProg = "mutex1" /\ locking) =>
    \A w \in LdWorker : printed[w] # <<>> =>
      /\ printed[w][1] \in Nat /\ printed[w][1] <= global[1]
      /\ \A v \in LdWorker :
           (work[v] \in {"load", "store", "print"} /\ 1 < update[v]) =>
             printed[w][1] < global[1]

LdInv ==
  /\ printed \in [LdWorker -> {<<>>} \cup [Cells -> Nat]]
  /\ LdTypeOK /\ LdStages /\ LdProducts /\ LdCounts /\ LdPrinted /\ LockedResults

==============================================================================
