---------------------------- MODULE MCHeapProfile ----------------------------
(* Model values and the symmetry of addresses for the HeapProfile runs.    *)
EXTENDS HeapProfile, TLC

AddrSymmetry == Permutations(Addr)
===============================================================================
