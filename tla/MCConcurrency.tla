---------------------------- MODULE MCConcurrency ----------------------------
(* Model-checking instance of Concurrency: two keys, four leases, limits that *)
(* include "no limit" and a limit lowered under the leases already out.       *)
EXTENDS Concurrency, TLC

CONSTANTS k1, k2, l1, l2, l3, l4

MCKeys == {k1, k2}
MCLeases == {l1, l2, l3, l4}
MCLimits == {0, 1, 2, 3}

Symmetry == Permutations(MCLeases) \cup Permutations(MCKeys)
=============================================================================
