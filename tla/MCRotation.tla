----------------------------- MODULE MCRotation -----------------------------
(* Model-checking instance of Rotation: two threads on three keys whose rows  *)
(* are healthy, or cooling and exhausted.                                     *)
EXTENDS Rotation, TLC

CONSTANTS t1, t2

MCThreads == {t1, t2}

Healthy == [active |-> TRUE, status |-> "active", until |-> None, usage |-> 0,
            day |-> 0, credits |-> None]

MCRows == {Healthy,
           [Healthy EXCEPT !.status = "cooling", !.until = 1, !.usage = 1]}

MCQuota == [k \in 1..3 |-> IF k = 3 THEN None ELSE 1]

Symmetry == Permutations(Threads)
=============================================================================
