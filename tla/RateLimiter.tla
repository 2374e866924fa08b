---------------------------- MODULE RateLimiter ----------------------------
(***************************************************************************)
(* The in-process token bucket (app/core/rate_limit.py,                    *)
(* TokenBucketRateLimiter).  A thread reads the monotonic clock BEFORE it  *)
(* takes the lock, so buckets may be visited with stamps that are out of   *)
(* order, and last_refill may move backwards.                              *)
(*                                                                         *)
(* Tokens are counted in units of 1/Minute of a token, so that a rate of r *)
(* per minute refills exactly r units per second and a call costs Minute   *)
(* units: the code's floats become exact integers.  Minute is 60 in the    *)
(* code.                                                                   *)
(***************************************************************************)
EXTENDS Integers

CONSTANTS Keys,    \* keys of _buckets: client ids or API key ids
          Threads, \* request threads
          Rates,   \* values of rate_limit_per_min a caller may pass
          MaxRate, \* an upper bound of Rates
          Minute,  \* seconds per minute
          MaxNow   \* bound on the clock

ASSUME RateAssumption ==
    /\ Minute \in Nat \ {0}
    /\ MaxRate \in Nat
    /\ Rates \subseteq Int /\ \A r \in Rates : r <= MaxRate
    /\ MaxNow \in Nat

VARIABLES bucket, \* bucket[k]: the _Bucket of k, or one that is not there yet
          now,    \* time.monotonic(), in seconds
          call,   \* call[t]: the call of allow() thread t is in, or its reply
          granted, \* history: calls allowed per bucket
          first,   \* history: stamp that created the bucket
          rewound  \* history: seconds by which last_refill moved backwards

vars == <<bucket, now, call, granted, first, rewound>>
history == <<granted, first, rewound>>

Bucket == [present : BOOLEAN, tokens : Nat, last : Nat]
Call == [pc : {"idle", "stamped"}, key : Keys, rate : Int, stamp : Nat,
         allowed : BOOLEAN, retry : Nat]

TypeOK ==
    /\ bucket \in [Keys -> Bucket]
    /\ now \in Nat
    /\ call \in [Threads -> Call]
    /\ granted \in [Keys -> Nat]
    /\ first \in [Keys -> Nat]
    /\ rewound \in [Keys -> Nat]

Init ==
    /\ bucket = [k \in Keys |-> [present |-> FALSE, tokens |-> 0, last |-> 0]]
    /\ now = 0
    /\ call \in [Threads -> {[pc |-> "idle", key |-> k, rate |-> 0, stamp |-> 0,
                              allowed |-> TRUE, retry |-> 0] : k \in Keys}]
    /\ granted = [k \in Keys |-> 0]
    /\ first = [k \in Keys |-> 0]
    /\ rewound = [k \in Keys |-> 0]

Least(a, b) == IF a <= b THEN a ELSE b
Most(a, b) == IF a >= b THEN a ELSE b

\* ceil(a / b) for a >= 0, b > 0.
CeilDiv(a, b) == (a + b - 1) \div b

Tick ==
    /\ now < MaxNow
    /\ now' = now + 1
    /\ UNCHANGED <<bucket, call, history>>

\* allow() with no limit returns at once.
AllowUnlimited(t, k, r) ==
    /\ call[t].pc = "idle"
    /\ r <= 0
    /\ call' = [call EXCEPT ![t] = [@ EXCEPT !.key = k, !.allowed = TRUE, !.retry = 0]]
    /\ UNCHANGED <<bucket, now, history>>

\* now = time.monotonic(), read before the lock is taken.
ReadClock(t, k, r) ==
    /\ call[t].pc = "idle"
    /\ r > 0
    /\ call' = [call EXCEPT ![t] = [pc |-> "stamped", key |-> k, rate |-> r, stamp |-> now,
                                    allowed |-> FALSE, retry |-> 0]]
    /\ UNCHANGED <<bucket, now, history>>

\* The bucket as the critical section finds it: created full on first use.
Found(k, r, stamp) ==
    IF bucket[k].present THEN bucket[k]
    ELSE [present |-> TRUE, tokens |-> r * Minute, last |-> stamp]

\* Mutant of Refill: last_refill is never behind, time passed is not clamped
\* to what the bucket can hold.
RefillUncapped(b, r, stamp) ==
    [b EXCEPT !.tokens = b.tokens + Most(stamp - b.last, 0) * r, !.last = stamp]

\* Mutant of Refill: the elapsed time is counted twice.
RefillTwice(b, r, stamp) ==
    [b EXCEPT !.tokens = Least(r * Minute, b.tokens + 2 * Most(stamp - b.last, 0) * r), !.last = stamp]

\* Mutant of Refill: a stamp older than last_refill takes tokens away.
RefillUnclamped(b, r, stamp) ==
    [b EXCEPT !.tokens = Least(r * Minute, b.tokens + (stamp - b.last) * r), !.last = stamp]

\* The refill of allow(): what the time since last_refill is worth, never more
\* than the capacity; a stamp older than last_refill refills nothing.
Refill(b, r, stamp) ==
    [b EXCEPT !.tokens = Least(r * Minute, b.tokens + Most(stamp - b.last, 0) * r), !.last = stamp]

\* Mutant of RetryAfter: truncated instead of rounded up.
RetryTruncated(tokens, r) == Most((Minute - tokens) \div r, 1)

\* Seconds until the bucket holds a whole token.
RetryAfter(tokens, r) == Most(CeilDiv(Minute - tokens, r), 1)

\* The critical section of allow().
Allow(t) ==
    LET k == call[t].key
        r == call[t].rate
        stamp == call[t].stamp
        old == Found(k, r, stamp)
        b == Refill(old, r, stamp)
        ok == b.tokens >= Minute
    IN  /\ call[t].pc = "stamped"
        /\ bucket' = [bucket EXCEPT ![k] = IF ok THEN [b EXCEPT !.tokens = @ - Minute] ELSE b]
        /\ call' = [call EXCEPT ![t] = [pc |-> "idle", key |-> k, rate |-> 0, stamp |-> 0, allowed |-> ok,
                        retry |-> IF ok THEN 0 ELSE RetryAfter(b.tokens, r)]]
        /\ granted' = [granted EXCEPT ![k] = IF ok THEN @ + 1 ELSE @]
        /\ first' = [first EXCEPT ![k] = IF bucket[k].present THEN @ ELSE stamp]
        /\ rewound' = [rewound EXCEPT ![k] = @ + Most(old.last - stamp, 0)]
        /\ UNCHANGED now

Next ==
    \/ Tick
    \/ \E t \in Threads :
          \/ \E k \in Keys, r \in Rates : AllowUnlimited(t, k, r) \/ ReadClock(t, k, r)
          \/ Allow(t)

Spec == Init /\ [][Next]_vars
-----------------------------------------------------------------------------
\* No more calls pass a bucket than one full bucket plus what the elapsed
\* time refills, where time that last_refill walked backwards counts again:
\* the exact price of reading the clock outside the lock
\* (rate_limit.py 30, 38-40).
GrantBound ==
    \A k \in Keys : bucket[k].present =>
        Minute * granted[k] + bucket[k].tokens
            <= Minute * MaxRate + MaxRate * (bucket[k].last - first[k] + rewound[k])

\* A refused caller that waits retry_after seconds finds a whole token if
\* nobody took it first, and is never told to wait a second too long
\* (rate_limit.py 46-48).
RetrySound ==
    [][\A t \in Threads :
         call[t].pc = "stamped" /\ call'[t].pc = "idle" /\ ~call'[t].allowed =>
            LET b == bucket'[call[t].key]
                r == call[t].rate
            IN  /\ b.tokens < Minute
                /\ b.tokens + r * call'[t].retry >= Minute
                /\ call'[t].retry > 1 => b.tokens + r * (call'[t].retry - 1) < Minute]_vars

\* A bucket never holds more than the burst of the largest rate in use, so
\* an idle hour does not let a client send an hour's worth of calls at once
\* (rate_limit.py 39).
BurstBounded == \A k \in Keys : bucket[k].tokens <= MaxRate * Minute
=============================================================================
