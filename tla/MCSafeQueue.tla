----------------------------- MODULE MCSafeQueue -----------------------------
(* SafeQueue on three threads and two elements. *)
EXTENDS SafeQueue, TLC

CONSTANTS t1, t2, t3, a, b

Symmetry == Permutations(Threads) \union Permutations(Items)
=============================================================================
