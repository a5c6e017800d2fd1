----------------------------- MODULE MCAprPools -----------------------------
(***************************************************************************)
(* Threads, cleanups, nodes and the pools other than the root are          *)
(* interchangeable.                                                        *)
(***************************************************************************)
EXTENDS AprPools, TLC

PoolSymmetry ==
  Permutations(Threads) \cup Permutations(Cleanups) \cup Permutations(Nodes)
    \cup Permutations(Pools \ {Root})
=============================================================================
