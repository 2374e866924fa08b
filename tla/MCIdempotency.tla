--------------------------- MODULE MCIdempotency ---------------------------
(* Model-checking instances of Idempotency.                                   *)
EXTENDS Idempotency

CONSTANTS r1, r2, r3, r4, a, b

Three == {r1, r2, r3}
Four == {r1, r2, r3, r4}
Nobody == {}
OnlyR4 == {r4}
MCKeys == {a, b}

\* Three requests of one key, the third with another body, and one without a
\* key.
SameKey == [r \in Requests |-> IF r = r4 THEN NoKey ELSE a]
TwoBodies == [r \in Requests |-> IF r = r3 THEN 2 ELSE 1]

\* Two keys: two requests of one key with the same body, one of the other.
TwoKeys == [r \in Requests |-> IF r = r3 THEN b ELSE a]
=============================================================================
