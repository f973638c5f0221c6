---------------------------- MODULE MCWorkerPool ----------------------------
(* WorkerPool for TLC: workers, objects and handles are only compared for  *)
(* equality, and each of the sets may be permuted.                         *)
EXTENDS WorkerPool, TLC

Symmetry ==
    Permutations(Workers) \cup Permutations(Requests) \cup Permutations(Conns)
=============================================================================
