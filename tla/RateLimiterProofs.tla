------------------------- MODULE RateLimiterProofs -------------------------
(***************************************************************************)
(* The token bucket for every rate, every number of threads and any clock: *)
(* buckets stay well formed and bounded, no more calls pass than one burst *)
(* plus the refill of the time that passed (and of the time by which stale *)
(* stamps set last_refill back), and a refused caller is told the exact    *)
(* number of seconds to wait.                                              *)
(***************************************************************************)
EXTENDS RateLimiter, TLAPS

\* Threads about to enter the critical section carry a rate in use.
StampedRates ==
    \A t \in Threads : call[t].pc = "stamped" => call[t].rate > 0 /\ call[t].rate <= MaxRate

\* A bucket nobody has used yet has no history.
AbsentUnused ==
    \A k \in Keys : ~bucket[k].present => granted[k] = 0 /\ rewound[k] = 0

LimiterInv == TypeOK /\ StampedRates /\ AbsentUnused /\ GrantBound /\ BurstBounded
-----------------------------------------------------------------------------
\* Arithmetic the provers need help with.

LEMMA ProductMonotone ==
    ASSUME NEW a \in Nat, NEW b \in Int, NEW c \in Int, b <= c
    PROVE  a * b <= a * c /\ b * a <= c * a
  BY SMT

LEMMA ProductNat ==
    ASSUME NEW a \in Nat, NEW b \in Nat
    PROVE  a * b \in Nat
  BY SMT

LEMMA Distribute ==
    ASSUME NEW a \in Int, NEW b \in Int, NEW c \in Int
    PROVE  a * (b + c) = a * b + a * c
  BY SMT

LEMMA DivBounds ==
    ASSUME NEW x \in Int, NEW r \in Nat \ {0}
    PROVE  x \div r \in Int /\ r * (x \div r) <= x /\ x < r * (x \div r) + r
  BY SMT

\* ceil(a / r) as retry_after needs it.
LEMMA CeilBounds ==
    ASSUME NEW a \in Nat \ {0}, NEW r \in Nat \ {0}
    PROVE  /\ CeilDiv(a, r) \in Int
           /\ CeilDiv(a, r) >= 1
           /\ r * CeilDiv(a, r) >= a
           /\ r * (CeilDiv(a, r) - 1) < a
  <1> DEFINE q == CeilDiv(a, r)
  <1>1. q \in Int /\ r * q <= a + r - 1 /\ a + r - 1 < r * q + r
    BY DivBounds DEF CeilDiv
  <1> HIDE DEF q
  <1>2. r * q >= a
    BY <1>1
  <1>3. r * (q - 1) = r * q - r
    BY <1>1
  <1>4. q >= 1
    <2>1. ASSUME q <= 0 PROVE FALSE
      <3>1. r * q <= r * 0
        BY <1>1, <2>1, ProductMonotone
      <3> QED
        BY <1>1, <1>2, <3>1
    <2> QED
      BY <1>1, <2>1
  <1>5. r * (q - 1) < a
    BY <1>1, <1>3
  <1> QED
    BY <1>1, <1>2, <1>4, <1>5 DEF q

\* What a refill does to a bucket.
LEMMA RefillFacts ==
    ASSUME NEW b \in Bucket, NEW r \in Nat \ {0}, r <= MaxRate, NEW stamp \in Nat
    PROVE  /\ Refill(b, r, stamp) \in Bucket
           /\ Refill(b, r, stamp).present = b.present
           /\ Refill(b, r, stamp).last = stamp
           /\ Refill(b, r, stamp).tokens <= MaxRate * Minute
           /\ Refill(b, r, stamp).tokens <= b.tokens + MaxRate * Most(stamp - b.last, 0)
  <1> DEFINE e == Most(stamp - b.last, 0)
             cap == r * Minute
             more == b.tokens + e * r
  <1>1. Minute \in Nat /\ MaxRate \in Nat /\ b.tokens \in Nat /\ b.last \in Nat /\ b.present \in BOOLEAN
    BY RateAssumption DEF Bucket
  <1>2. e \in Nat
    BY <1>1 DEF Most
  <1> HIDE DEF e
  <1>3. e * r \in Nat /\ cap \in Nat
    BY <1>1, <1>2, ProductNat
  <1>4. cap <= MaxRate * Minute
    BY <1>1, ProductMonotone
  <1>5. e * r <= MaxRate * e
    BY <1>1, <1>2, ProductMonotone
  <1>6. MaxRate * e \in Nat /\ MaxRate * Minute \in Nat
    BY <1>1, <1>2, ProductNat
  <1>7. more \in Nat /\ more <= b.tokens + MaxRate * e
    BY <1>1, <1>3, <1>5, <1>6
  <1> HIDE DEF cap, more
  <1>8. Least(cap, more) \in Nat /\ Least(cap, more) <= cap /\ Least(cap, more) <= more
    BY <1>3, <1>7 DEF Least
  <1>9. Refill(b, r, stamp) = [b EXCEPT !.tokens = Least(cap, more), !.last = stamp]
    BY DEF Refill, cap, more, e
  <1>10. /\ Refill(b, r, stamp) \in Bucket
         /\ Refill(b, r, stamp).present = b.present
         /\ Refill(b, r, stamp).last = stamp
         /\ Refill(b, r, stamp).tokens = Least(cap, more)
    BY <1>1, <1>8, <1>9 DEF Bucket
  <1>11. Least(cap, more) <= MaxRate * Minute /\ Least(cap, more) <= b.tokens + MaxRate * e
    BY <1>1, <1>3, <1>4, <1>6, <1>7, <1>8
  <1> QED
    BY <1>10, <1>11 DEF e
-----------------------------------------------------------------------------
LEMMA LimiterInit == Init => LimiterInv
  <1> SUFFICES ASSUME Init PROVE LimiterInv
    OBVIOUS
  <1>1. TypeOK
    <2>1. \A k \in Keys : [pc |-> "idle", key |-> k, rate |-> 0, stamp |-> 0,
                           allowed |-> TRUE, retry |-> 0] \in Call
      BY DEF Call
    <2>2. call \in [Threads -> Call]
      BY <2>1 DEF Init
    <2>3. bucket \in [Keys -> Bucket]
      BY DEF Init, Bucket
    <2> QED
      BY <2>2, <2>3 DEF Init, TypeOK
  <1>2. StampedRates
    BY DEF Init, StampedRates
  <1>3. AbsentUnused /\ GrantBound
    BY DEF Init, AbsentUnused, GrantBound
  <1>4. BurstBounded
    <2>1. MaxRate * Minute \in Nat
      BY RateAssumption, ProductNat
    <2>2. \A k \in Keys : bucket[k].tokens = 0
      BY DEF Init
    <2>3. 0 <= MaxRate * Minute
      BY <2>1, RateAssumption
    <2> QED
      BY <2>2, <2>3, Zenon DEF BurstBounded
  <1> QED
    BY <1>1, <1>2, <1>3, <1>4 DEF LimiterInv

\* The critical section of allow(), for the bucket b it finds (or creates).
LEMMA AllowBucket ==
    ASSUME LimiterInv, NEW t \in Threads, call[t].pc = "stamped",
           NEW k, k = call[t].key,
           NEW old, old = Found(k, call[t].rate, call[t].stamp),
           NEW b, b = Refill(old, call[t].rate, call[t].stamp)
    PROVE  /\ k \in Keys /\ call[t].rate \in Nat \ {0} /\ call[t].rate <= MaxRate
           /\ call[t].stamp \in Nat
           /\ old \in Bucket /\ b \in Bucket /\ b.present
           /\ b.last = call[t].stamp
           /\ b.tokens <= MaxRate * Minute
           /\ Minute * granted[k] + b.tokens
                 <= Minute * MaxRate + MaxRate *
                      (b.last - (IF bucket[k].present THEN first[k] ELSE call[t].stamp)
                        + (rewound[k] + Most(old.last - call[t].stamp, 0)))
  <1> DEFINE r == call[t].rate
             stamp == call[t].stamp
             e == Most(stamp - old.last, 0)
             f == IF bucket[k].present THEN first[k] ELSE stamp
  <1>1. /\ k \in Keys /\ r \in Nat \ {0} /\ r <= MaxRate /\ stamp \in Nat
        /\ bucket[k] \in Bucket /\ granted[k] \in Nat /\ first[k] \in Nat /\ rewound[k] \in Nat
    BY DEF LimiterInv, TypeOK, StampedRates, Call
  <1>2. Minute \in Nat \ {0} /\ MaxRate \in Nat
    BY RateAssumption
  <1>3. r * Minute \in Nat /\ r * Minute <= MaxRate * Minute
    BY <1>1, <1>2, ProductNat, ProductMonotone
  <1>4. old = IF bucket[k].present THEN bucket[k]
              ELSE [present |-> TRUE, tokens |-> r * Minute, last |-> stamp]
    BY DEF Found
  <1>5. old \in Bucket /\ old.present
    BY <1>1, <1>3, <1>4 DEF Bucket
  <1>6. /\ b \in Bucket /\ b.present /\ b.last = stamp
        /\ b.tokens <= MaxRate * Minute
        /\ b.tokens <= old.tokens + MaxRate * e
    BY <1>1, <1>5, RefillFacts
  <1>7. old.last \in Nat /\ old.tokens \in Nat /\ b.tokens \in Nat
    BY <1>5, <1>6 DEF Bucket
  <1>8. f \in Nat
    BY <1>1
  <1>9. Minute * granted[k] + old.tokens
            <= Minute * MaxRate + MaxRate * (old.last - f + rewound[k])
    <2>1. CASE bucket[k].present
      BY <1>1, <1>4, <2>1 DEF LimiterInv, GrantBound
    <2>2. CASE ~bucket[k].present
      <3>1. granted[k] = 0 /\ rewound[k] = 0
        BY <1>1, <2>2 DEF LimiterInv, AbsentUnused
      <3>2. old.tokens = r * Minute /\ old.last = stamp /\ f = stamp
        BY <1>4, <2>2
      <3>3. old.last - f + rewound[k] = 0
        BY <1>1, <3>1, <3>2
      <3>4. Minute * MaxRate = MaxRate * Minute /\ MaxRate * 0 = 0 /\ Minute * 0 = 0
        BY <1>2
      <3>5. MaxRate * Minute \in Nat
        BY <1>2, ProductNat
      <3> QED
        BY <1>3, <3>1, <3>2, <3>3, <3>4, <3>5
    <2> QED
      BY <2>1, <2>2
  <1>10. /\ e \in Nat
         /\ b.last - f + (rewound[k] + Most(old.last - stamp, 0)) = (old.last - f + rewound[k]) + e
    <2> HIDE DEF f
    <2> QED
      BY <1>1, <1>6, <1>7, <1>8 DEF Most
  <1> DEFINE d == old.last - f + rewound[k]
  <1>11. d \in Int
    BY <1>1, <1>7, <1>8
  <1> HIDE DEF d, e
  <1>12. MaxRate * (d + e) = MaxRate * d + MaxRate * e
    BY <1>2, <1>10, <1>11, Distribute
  <1>13. /\ Minute * granted[k] \in Int /\ Minute * MaxRate \in Int
         /\ MaxRate * d \in Int /\ MaxRate * e \in Int
    BY <1>1, <1>2, <1>10, <1>11
  <1>14. Minute * granted[k] + b.tokens <= Minute * MaxRate + MaxRate * (d + e)
    <2>1. Minute * granted[k] + old.tokens <= Minute * MaxRate + MaxRate * d
      BY <1>9 DEF d
    <2> QED
      BY <1>6, <1>7, <1>12, <1>13, <2>1
  <1>15. b.last - f + (rewound[k] + Most(old.last - stamp, 0)) = d + e
    BY <1>10 DEF d
  <1> QED
    BY <1>1, <1>5, <1>6, <1>14, <1>15

LEMMA AllowKeeps == LimiterInv /\ (\E t \in Threads : Allow(t)) => LimiterInv'
  <1> SUFFICES ASSUME LimiterInv, NEW t \in Threads, Allow(t) PROVE LimiterInv'
    OBVIOUS
  <1> DEFINE k == call[t].key
             r == call[t].rate
             stamp == call[t].stamp
             old == Found(k, r, stamp)
             b == Refill(old, r, stamp)
             ok == b.tokens >= Minute
             reply == [pc |-> "idle", key |-> k, rate |-> 0, stamp |-> 0, allowed |-> ok,
                       retry |-> IF ok THEN 0 ELSE RetryAfter(b.tokens, r)]
             back == Most(old.last - stamp, 0)
  <1>1. /\ call[t].pc = "stamped"
        /\ bucket' = [bucket EXCEPT ![k] = IF ok THEN [b EXCEPT !.tokens = @ - Minute] ELSE b]
        /\ call' = [call EXCEPT ![t] = reply]
        /\ granted' = [granted EXCEPT ![k] = IF ok THEN @ + 1 ELSE @]
        /\ first' = [first EXCEPT ![k] = IF bucket[k].present THEN @ ELSE stamp]
        /\ rewound' = [rewound EXCEPT ![k] = @ + back]
        /\ now' = now
    BY DEF Allow
  <1>2. /\ k \in Keys /\ r \in Nat \ {0} /\ r <= MaxRate /\ stamp \in Nat
        /\ old \in Bucket /\ b \in Bucket /\ b.present /\ b.last = stamp
        /\ b.tokens <= MaxRate * Minute
        /\ Minute * granted[k] + b.tokens
              <= Minute * MaxRate + MaxRate *
                   (b.last - (IF bucket[k].present THEN first[k] ELSE stamp) + (rewound[k] + back))
    BY <1>1, AllowBucket
  <1>3. /\ Minute \in Nat \ {0} /\ MaxRate \in Nat
        /\ TypeOK /\ StampedRates /\ AbsentUnused /\ GrantBound /\ BurstBounded
    BY RateAssumption DEF LimiterInv
  <1>4. back \in Nat
    BY <1>2 DEF Most, Bucket
  <1>5. reply \in Call
    <2>1. CASE ok
      BY <1>2, <2>1 DEF Call
    <2>2. CASE ~ok
      <3>1. Minute - b.tokens \in Nat \ {0}
        BY <1>2, <1>3, <2>2 DEF Bucket
      <3>2. RetryAfter(b.tokens, r) \in Nat
        BY <1>2, <3>1, CeilBounds DEF RetryAfter, Most
      <3> QED
        BY <1>2, <2>2, <3>2 DEF Call
    <2> QED
      BY <2>1, <2>2
  <1> HIDE DEF back, old, b, k, r, stamp
  <1> DEFINE new == IF ok THEN [b EXCEPT !.tokens = @ - Minute] ELSE b
  <1>6. /\ new \in Bucket /\ new.present /\ new.last = b.last
        /\ new.tokens \in Nat /\ new.tokens <= b.tokens
        /\ new.tokens = IF ok THEN b.tokens - Minute ELSE b.tokens
    BY <1>2, <1>3 DEF Bucket
  <1>7. TypeOK'
    <2>1. bucket' \in [Keys -> Bucket]
      BY <1>1, <1>3, <1>6 DEF TypeOK
    <2>2. call' \in [Threads -> Call]
      BY <1>1, <1>3, <1>5 DEF TypeOK
    <2>3. granted' \in [Keys -> Nat] /\ first' \in [Keys -> Nat] /\ rewound' \in [Keys -> Nat]
      BY <1>1, <1>2, <1>3, <1>4 DEF TypeOK
    <2> QED
      BY <1>1, <1>3, <2>1, <2>2, <2>3 DEF TypeOK
  <1>8. StampedRates'
    BY <1>1, <1>3 DEF StampedRates, TypeOK
  <1> HIDE DEF new
  <1>9. /\ bucket'[k] = new
        /\ granted'[k] = IF ok THEN granted[k] + 1 ELSE granted[k]
        /\ first'[k] = IF bucket[k].present THEN first[k] ELSE stamp
        /\ rewound'[k] = rewound[k] + back
        /\ \A j \in Keys \ {k} : /\ bucket'[j] = bucket[j] /\ granted'[j] = granted[j]
                                 /\ first'[j] = first[j] /\ rewound'[j] = rewound[j]
    <2> USE DEF new
    <2> QED
      BY <1>1, <1>2, <1>3 DEF TypeOK
  <1>10. AbsentUnused'
    BY <1>3, <1>6, <1>9 DEF AbsentUnused
  <1>11. BurstBounded'
    <2>1. MaxRate * Minute \in Nat /\ b.tokens \in Nat
      BY <1>2, <1>3, ProductNat DEF Bucket
    <2>2. new.tokens <= MaxRate * Minute
      BY <1>2, <1>3, <1>6, <2>1
    <2> QED
      BY <1>3, <1>9, <2>2 DEF BurstBounded
  <1>12. GrantBound'
    <2>1. Minute * granted'[k] + new.tokens = Minute * granted[k] + b.tokens
      <3>1. granted[k] \in Nat /\ b.tokens \in Nat
        BY <1>2, <1>3 DEF TypeOK, Bucket
      <3>2. Minute * (granted[k] + 1) = Minute * granted[k] + Minute
        BY <1>3, <3>1
      <3>3. Minute * granted[k] \in Int
        BY <1>3, <3>1
      <3>4. CASE ok
        BY <1>3, <1>6, <1>9, <3>1, <3>2, <3>3, <3>4
      <3>5. CASE ~ok
        BY <1>6, <1>9, <3>5
      <3> QED
        BY <3>4, <3>5
    <2>2. Minute * granted'[k] + new.tokens
            <= Minute * MaxRate + MaxRate * (new.last - first'[k] + rewound'[k])
      BY <1>2, <1>6, <1>9, <2>1
    <2>3. ASSUME NEW j \in Keys, bucket'[j].present
          PROVE  Minute * granted'[j] + bucket'[j].tokens
                   <= Minute * MaxRate + MaxRate * (bucket'[j].last - first'[j] + rewound'[j])
      <3>1. CASE j = k
        BY <1>9, <2>2, <3>1
      <3>2. CASE j # k
        BY <1>3, <1>9, <2>3, <3>2 DEF GrantBound
      <3> QED
        BY <3>1, <3>2
    <2> QED
      BY <2>3 DEF GrantBound
  <1> QED
    BY <1>7, <1>8, <1>10, <1>11, <1>12 DEF LimiterInv

LEMMA LimiterStep == LimiterInv /\ [Next]_vars => LimiterInv'
  <1> SUFFICES ASSUME LimiterInv, [Next]_vars PROVE LimiterInv'
    OBVIOUS
  <1> USE DEF LimiterInv, StampedRates, AbsentUnused, GrantBound, BurstBounded
  <1>1. CASE Tick
    BY <1>1, RateAssumption DEF Tick, history, TypeOK
  <1>2. ASSUME NEW t \in Threads, NEW k \in Keys, NEW r \in Rates, AllowUnlimited(t, k, r)
        PROVE  LimiterInv'
    <2>1. TypeOK'
      BY <1>2 DEF AllowUnlimited, history, TypeOK, Call
    <2> QED
      BY <1>2, <2>1 DEF AllowUnlimited, history, TypeOK, Call
  <1>3. ASSUME NEW t \in Threads, NEW k \in Keys, NEW r \in Rates, ReadClock(t, k, r)
        PROVE  LimiterInv'
    <2>1. TypeOK'
      BY <1>3, RateAssumption DEF ReadClock, history, TypeOK, Call
    <2> QED
      BY <1>3, <2>1, RateAssumption DEF ReadClock, history, TypeOK
  <1>4. CASE \E t \in Threads : Allow(t)
    BY <1>4, AllowKeeps
  <1>5. CASE UNCHANGED vars
    BY <1>5 DEF vars, TypeOK
  <1> QED
    BY <1>1, <1>2, <1>3, <1>4, <1>5 DEF Next
-----------------------------------------------------------------------------
\* The inductive invariant of the token bucket holds for every rate, thread
\* count and clock.
THEOREM LimiterInvariant == Spec => []LimiterInv
  <1> QED
    BY LimiterInit, LimiterStep, PTL DEF Spec

\* Type correctness: in particular the float tokens of a bucket never become
\* negative, although last_refill may be ahead of the caller's clock reading.
THEOREM LimiterTypeOK == Spec => []TypeOK
  <1>1. LimiterInv => TypeOK
    BY DEF LimiterInv
  <1> QED
    BY <1>1, LimiterInvariant, PTL

\* No bucket lets more calls pass than one burst plus the refill of the
\* elapsed time, counting again the time by which last_refill was set back.
THEOREM LimiterGrants == Spec => []GrantBound
  <1>1. LimiterInv => GrantBound
    BY DEF LimiterInv
  <1> QED
    BY <1>1, LimiterInvariant, PTL

\* A bucket never saves up more than one burst of the largest rate.
THEOREM LimiterBurst == Spec => []BurstBounded
  <1>1. LimiterInv => BurstBounded
    BY DEF LimiterInv
  <1> QED
    BY <1>1, LimiterInvariant, PTL

\* The retry_after of a refusal is exact: enough to refill one token and not
\* a second more.
THEOREM LimiterRetry == Spec => RetrySound
  <1> DEFINE Sound ==
         \A t \in Threads :
           call[t].pc = "stamped" /\ call'[t].pc = "idle" /\ ~call'[t].allowed =>
              LET b == bucket'[call[t].key]
                  r == call[t].rate
              IN  /\ b.tokens < Minute
                  /\ b.tokens + r * call'[t].retry >= Minute
                  /\ call'[t].retry > 1 => b.tokens + r * (call'[t].retry - 1) < Minute
  <1>1. ASSUME LimiterInv, [Next]_vars PROVE Sound
    <2> SUFFICES ASSUME NEW t \in Threads, call[t].pc = "stamped", call'[t].pc = "idle",
                        ~call'[t].allowed
                 PROVE  LET b == bucket'[call[t].key]
                            r == call[t].rate
                        IN  /\ b.tokens < Minute
                            /\ b.tokens + r * call'[t].retry >= Minute
                            /\ call'[t].retry > 1 => b.tokens + r * (call'[t].retry - 1) < Minute
      OBVIOUS
    <2>1. Allow(t)
      BY <1>1 DEF Next, Tick, AllowUnlimited, ReadClock, Allow, vars, LimiterInv, TypeOK
    <2> DEFINE k == call[t].key
               r == call[t].rate
               old == Found(k, r, call[t].stamp)
               b == Refill(old, r, call[t].stamp)
               ok == b.tokens >= Minute
    <2>2. /\ bucket' = [bucket EXCEPT ![k] = IF ok THEN [b EXCEPT !.tokens = @ - Minute] ELSE b]
          /\ call' = [call EXCEPT ![t] =
                [pc |-> "idle", key |-> k, rate |-> 0, stamp |-> 0, allowed |-> ok,
                 retry |-> IF ok THEN 0 ELSE RetryAfter(b.tokens, r)]]
      BY <2>1 DEF Allow
    <2>3. k \in Keys /\ r \in Nat \ {0} /\ b \in Bucket
      BY <1>1, AllowBucket
    <2> HIDE DEF b, r, k
    <2>4. ~ok /\ call'[t].retry = RetryAfter(b.tokens, r)
      BY <1>1, <2>2 DEF LimiterInv, TypeOK
    <2>5. bucket'[k] = b
      BY <1>1, <2>2, <2>3, <2>4 DEF LimiterInv, TypeOK
    <2>6. b.tokens \in Nat /\ Minute - b.tokens \in Nat \ {0}
      BY <2>3, <2>4, RateAssumption DEF Bucket
    <2> DEFINE c == CeilDiv(Minute - b.tokens, r)
    <2>7. /\ c \in Int /\ c >= 1 /\ r * c >= Minute - b.tokens
          /\ r * (c - 1) < Minute - b.tokens
      BY <2>3, <2>6, CeilBounds
    <2>8. call'[t].retry = c
      BY <2>4, <2>7 DEF RetryAfter, Most
    <2> HIDE DEF c
    <2>9. r * c \in Int /\ r * (c - 1) \in Int /\ Minute \in Int
      BY <2>3, <2>7, RateAssumption
    <2>10. /\ b.tokens < Minute
           /\ b.tokens + r * c >= Minute
           /\ b.tokens + r * (c - 1) < Minute
      BY <2>6, <2>7, <2>9
    <2> QED
      BY <2>5, <2>8, <2>10 DEF k, r
  <1>2. LimiterInv /\ [Next]_vars => [Sound]_vars
    BY <1>1
  <1> QED
    BY <1>2, LimiterInvariant, PTL DEF Spec, RetrySound
=============================================================================
