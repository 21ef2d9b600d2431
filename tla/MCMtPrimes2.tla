---------------------------- MODULE MCMtPrimes2 ----------------------------
(* Instances of MtPrimes2 for TLC. *)
EXTENDS MtPrimes2

\* Small ranges laid out as the program's are: two that follow one another,
\* and one further up.
SmallRange ==
  [t \in PrWorker |-> CASE t = 0 -> <<1, 12>> [] t = 1 -> <<13, 25>> [] t = 2 -> <<40, 49>>]

============================================================================
