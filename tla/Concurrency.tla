---------------------------- MODULE Concurrency ----------------------------
(***************************************************************************)
(* The in-process concurrency gate (app/core/concurrency.py): a counter    *)
(* per key under one lock, and Lease objects that give their slot back     *)
(* exactly once however often release() is called.  Every gated request    *)
(* runs in a thread of its own; the lock makes each method one step.       *)
(***************************************************************************)
EXTENDS Integers, FiniteSets

CONSTANTS Keys,   \* keys of _states
          Leases, \* Lease objects; an object is reused once it is dropped
          Limits  \* values of max_concurrent a caller may pass

ASSUME LimitsAssumption == Limits \subseteq Int

VARIABLES states, \* states[k]: the _State of k; a missing entry is an
                  \* entry with current 0, which every method treats alike
          lease   \* lease[l]: the Lease object l

vars == <<states, lease>>

LeaseState == {"free", "held", "released"}

TypeOK ==
    /\ states \in [Keys -> [current : Nat, maximum : Int]]
    /\ lease \in [Leases -> [state : LeaseState, key : Keys \cup {"none"}, counted : BOOLEAN]]
    /\ \A l \in Leases : lease[l].state = "held" => lease[l].key \in Keys

Init ==
    /\ states = [k \in Keys |-> [current |-> 0, maximum |-> 0]]
    /\ lease = [l \in Leases |-> [state |-> "free", key |-> "none", counted |-> FALSE]]

\* Mutant of Decremented: release() and the end of the with block both count.
DecrementedTwice(n) == n - 2

\* max(current - 1, 0) of _release.
Decremented(n) == IF n - 1 > 0 THEN n - 1 ELSE 0

\* Mutant of AcquireCounted: one slot too many.
AcquireOffByOne(l, k, m) ==
    /\ lease[l].state = "free"
    /\ m > 0
    /\ IF states[k].current > m
         THEN /\ states' = [states EXCEPT ![k].maximum = m]
              /\ UNCHANGED lease
         ELSE /\ states' = [states EXCEPT ![k] = [current |-> @.current + 1, maximum |-> m]]
              /\ lease' = [lease EXCEPT ![l] = [state |-> "held", key |-> k, counted |-> TRUE]]

\* A limit of zero or less means "no limit": the lease is not counted.
AcquireUnlimited(l, k, m) ==
    /\ lease[l].state = "free"
    /\ m <= 0
    /\ lease' = [lease EXCEPT ![l] = [state |-> "held", key |-> k, counted |-> FALSE]]
    /\ UNCHANGED states

\* The counted branch of try_acquire: the entry takes the caller's limit and,
\* if it has a slot left, hands it out; otherwise the caller gets None.
AcquireCounted(l, k, m) ==
    /\ lease[l].state = "free"
    /\ m > 0
    /\ IF states[k].current >= m
         THEN /\ states' = [states EXCEPT ![k].maximum = m]
              /\ UNCHANGED lease
         ELSE /\ states' = [states EXCEPT ![k] = [current |-> @.current + 1, maximum |-> m]]
              /\ lease' = [lease EXCEPT ![l] = [state |-> "held", key |-> k, counted |-> TRUE]]

\* Mutant of Release: the _released flag is not consulted.
ReleaseUnguarded(l) ==
    /\ lease[l].state \in {"held", "released"}
    /\ lease' = [lease EXCEPT ![l].state = "released"]
    /\ IF lease[l].counted
         THEN states' = [states EXCEPT ![lease[l].key].current = Decremented(@)]
         ELSE UNCHANGED states

\* Lease.release: a no-op the second time.
Release(l) ==
    /\ lease[l].state \in {"held", "released"}
    /\ lease' = [lease EXCEPT ![l].state = "released"]
    /\ IF lease[l].state = "held" /\ lease[l].counted
         THEN states' = [states EXCEPT ![lease[l].key].current = Decremented(@)]
         ELSE UNCHANGED states

\* The owner drops its last reference to a released lease.
Drop(l) ==
    /\ lease[l].state = "released"
    /\ lease' = [lease EXCEPT ![l] = [state |-> "free", key |-> "none", counted |-> FALSE]]
    /\ UNCHANGED states

Next == \E l \in Leases :
            \/ \E k \in Keys, m \in Limits : AcquireUnlimited(l, k, m) \/ AcquireCounted(l, k, m)
            \/ Release(l)
            \/ Drop(l)

Spec == Init /\ [][Next]_vars
-----------------------------------------------------------------------------
\* The counted leases on k that have not been released.
CountedOn(k) == {l \in Leases : lease[l].state = "held" /\ lease[l].counted /\ lease[l].key = k}

\* The counter of a key is the number of counted leases its owners still
\* hold: no slot leaks, none is given back twice (concurrency.py 30-34, 61-66).
CountIsHeld == \A k \in Keys : states[k].current = Cardinality(CountedOn(k))

\* A lease is only handed out below the limit the caller named, also after
\* an administrator lowered it under the number of leases already out.
GrantBelowLimit ==
    [][\A k \in Keys : states'[k].current > states[k].current
            => /\ states'[k].current = states[k].current + 1
               /\ states'[k].current <= states'[k].maximum]_vars

\* The gate implements the abstract semaphore: its holders are the owners of
\* the counted leases.
Sem == INSTANCE Semaphore WITH Holders <- Leases, holders <- [k \in Keys |-> CountedOn(k)]

\* Refinement: every step of the lock-protected counter is an admission, a
\* departure or a stutter of the semaphore.
ImplementsSemaphore == Sem!Spec

=============================================================================
