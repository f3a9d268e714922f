-------------------------- MODULE MCOrderSettlement --------------------------
(***************************************************************************)
(* Instances of OrderSettlement for TLC: the orders are of equal amount, so *)
(* that handlers and orders may be permuted.                               *)
(***************************************************************************)
EXTENDS OrderSettlement, TLC

AmountEach == [o \in Orders |-> 1]
Symmetric == Permutations(Orders) \cup Permutations(Procs) \cup Permutations(CryptoTxs)
=============================================================================
