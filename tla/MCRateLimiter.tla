---------------------------- MODULE MCRateLimiter ----------------------------
(* Model-checking instance of RateLimiter.  A "minute" of four seconds makes  *)
(* a bucket run dry and refill within a few ticks of the clock.               *)
EXTENDS RateLimiter, TLC

CONSTANTS k1, t1, t2

MCKeys == {k1}
MCThreads == {t1, t2}
MCRates == {0, 1, 3}

Symmetry == Permutations(MCThreads)
=============================================================================
