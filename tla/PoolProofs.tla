----------------------------- MODULE PoolProofs -----------------------------
(***************************************************************************)
(* The two parts of the key pool that forward() shares between requests:   *)
(* the slots of the concurrency gate and the round-robin index.            *)
(*                                                                         *)
(* The gate of Concurrency is correct for every set of keys, every pool of *)
(* lease objects, finite or not, and every set of limits.                  *)
(*                                                                         *)
(* Round-robin selection is fair for every number of keys and threads: the *)
(* selections that led to the index, each starting where the one before    *)
(* stopped, passed over no usable key NumKeys times in a row.  The bound   *)
(* on `chain' is not inductive.  What is: the count along the chain, plus  *)
(* the distance of the key from the index where the next scan starts, stay *)
(* below NumKeys, for the index and for each index still to be written.    *)
(* And a row that only selections have written since a session loaded it   *)
(* differs from the copy in few ways (Kin), so that a stale selection      *)
(* still commits a row in service.                                         *)
(***************************************************************************)
EXTENDS Concurrency, Rotation, FiniteSetTheorems, WellFoundedInduction, TLAPS
-----------------------------------------------------------------------------
\* The gate.

\* The inductive invariant.  CountIsHeld says nothing by itself about a set
\* that is not finite, so finiteness is carried along.
FiniteHolders == \A k \in Keys : IsFiniteSet(CountedOn(k))
CountInv == TypeOK /\ FiniteHolders /\ CountIsHeld

\* Type correctness (the _State and Lease classes, concurrency.py 18-27):
\* counters never go negative and a held lease names a key.
THEOREM ConcurrencyTypeOK == Spec => []TypeOK
<1>init. Init => TypeOK
  BY DEF Init, TypeOK, LeaseState
<1>step. TypeOK /\ [Next]_vars => TypeOK'
  <2> SUFFICES ASSUME TypeOK, [Next]_vars PROVE TypeOK'
    OBVIOUS
  <2> USE DEF TypeOK, LeaseState
  <2>stutter. CASE UNCHANGED vars
    BY <2>stutter DEF vars
  <2>unlimited. ASSUME NEW l \in Leases, NEW k \in Keys, NEW m \in Limits, AcquireUnlimited(l, k, m)
        PROVE  TypeOK'
    BY <2>unlimited DEF AcquireUnlimited
  <2>counted. ASSUME NEW l \in Leases, NEW k \in Keys, NEW m \in Limits, AcquireCounted(l, k, m)
        PROVE  TypeOK'
    <3>1. m \in Int
      BY LimitsAssumption
    <3>2. CASE states[k].current >= m
      BY <2>counted, <3>1, <3>2 DEF AcquireCounted
    <3>3. CASE ~(states[k].current >= m)
      <4>1. /\ states' = [states EXCEPT ![k] = [current |-> states[k].current + 1, maximum |-> m]]
            /\ lease' = [lease EXCEPT ![l] = [state |-> "held", key |-> k, counted |-> TRUE]]
        BY <2>counted, <3>3 DEF AcquireCounted
      <4>2. [current |-> states[k].current + 1, maximum |-> m] \in [current : Nat, maximum : Int]
        BY <3>1
      <4>3. states' \in [Keys -> [current : Nat, maximum : Int]]
        BY <4>1, <4>2
      <4>4. QED
        BY <4>1, <4>3
    <3>4. QED
      BY <3>2, <3>3
  <2>release. ASSUME NEW l \in Leases, Release(l)
        PROVE  TypeOK'
    <3>1. CASE lease[l].state = "held" /\ lease[l].counted
      <4>1. /\ lease[l].key \in Keys
            /\ Decremented(states[lease[l].key].current) \in Nat
        BY <3>1 DEF Decremented
      <4>2. /\ states' = [states EXCEPT ![lease[l].key].current = Decremented(states[lease[l].key].current)]
            /\ lease' = [lease EXCEPT ![l].state = "released"]
        BY <2>release, <3>1 DEF Release
      <4>3. states' \in [Keys -> [current : Nat, maximum : Int]]
        BY <4>1, <4>2
      <4>4. QED
        BY <4>2, <4>3
    <3>2. CASE ~(lease[l].state = "held" /\ lease[l].counted)
      BY <2>release, <3>2 DEF Release
    <3>3. QED
      BY <3>1, <3>2
  <2>drop. ASSUME NEW l \in Leases, Drop(l)
        PROVE  TypeOK'
    BY <2>drop DEF Drop
  <2> QED
    BY <2>stutter, <2>release, <2>drop, <2>counted, <2>unlimited DEF Next
<1> QED
  BY <1>init, <1>step, PTL DEF Spec

\* How each step changes the set of counted holders of a key.
LEMMA GrantHolders ==
    ASSUME TypeOK, NEW l \in Leases, NEW k \in Keys, lease[l].state = "free",
           lease' = [lease EXCEPT ![l] = [state |-> "held", key |-> k, counted |-> TRUE]]
    PROVE  /\ l \notin CountedOn(k)
           /\ \A j \in Keys : CountedOn(j)' = IF j = k THEN CountedOn(j) \cup {l} ELSE CountedOn(j)
BY DEF TypeOK, CountedOn

LEMMA ReleaseHolders ==
    ASSUME TypeOK, NEW l \in Leases, lease[l].state = "held", lease[l].counted,
           lease' = [lease EXCEPT ![l].state = "released"]
    PROVE  /\ l \in CountedOn(lease[l].key)
           /\ \A j \in Keys : CountedOn(j)' =
                 IF j = lease[l].key THEN CountedOn(j) \ {l} ELSE CountedOn(j)
BY DEF TypeOK, CountedOn

\* A step on a lease that is not counted, before and after, moves nobody.
LEMMA QuietHolders ==
    ASSUME TypeOK, NEW l \in Leases, NEW r,
           ~(lease[l].state = "held" /\ lease[l].counted),
           ~(r.state = "held" /\ r.counted),
           lease' = [lease EXCEPT ![l] = r]
    PROVE  \A j \in Keys : CountedOn(j)' = CountedOn(j)
BY DEF TypeOK, CountedOn

\* The counter of every key is the number of its unreleased counted leases,
\* whatever limits are named and however often release() is called.
THEOREM ConcurrencyInv == Spec => []CountInv
<1>init. Init => CountInv
  <2> SUFFICES ASSUME Init PROVE CountInv
    OBVIOUS
  <2>1. TypeOK
    BY DEF Init, TypeOK, LeaseState
  <2>2. \A k \in Keys : CountedOn(k) = {} /\ states[k].current = 0
    BY DEF Init, CountedOn
  <2>3. QED
    BY <2>1, <2>2, FS_EmptySet DEF CountInv, FiniteHolders, CountIsHeld
<1>step. CountInv /\ TypeOK' /\ [Next]_vars => CountInv'
  <2> SUFFICES ASSUME CountInv, TypeOK', [Next]_vars PROVE (FiniteHolders /\ CountIsHeld)'
    BY DEF CountInv
  <2>inv. TypeOK /\ FiniteHolders /\ CountIsHeld
    BY DEF CountInv
  <2>quiet. ASSUME \A j \in Keys : CountedOn(j)' = CountedOn(j) /\ states'[j].current = states[j].current
        PROVE  (FiniteHolders /\ CountIsHeld)'
    BY <2>quiet, <2>inv DEF FiniteHolders, CountIsHeld
  <2>stutter. CASE UNCHANGED vars
    BY <2>stutter, <2>quiet DEF vars, CountedOn
  <2>unlimited. ASSUME NEW l \in Leases, NEW k \in Keys, NEW m \in Limits, AcquireUnlimited(l, k, m)
        PROVE  (FiniteHolders /\ CountIsHeld)'
    <3>1. \A j \in Keys : CountedOn(j)' = CountedOn(j)
      BY <2>unlimited, <2>inv, QuietHolders DEF AcquireUnlimited
    <3>2. QED
      BY <3>1, <2>unlimited, <2>quiet DEF AcquireUnlimited
  <2>counted. ASSUME NEW l \in Leases, NEW k \in Keys, NEW m \in Limits, AcquireCounted(l, k, m)
        PROVE  (FiniteHolders /\ CountIsHeld)'
    <3>1. CASE states[k].current >= m
      <4>1. \A j \in Keys : states'[j].current = states[j].current /\ CountedOn(j)' = CountedOn(j)
        BY <2>counted, <2>inv, <3>1 DEF AcquireCounted, TypeOK, CountedOn
      <4>2. QED
        BY <4>1, <2>quiet
    <3>2. CASE ~(states[k].current >= m)
      <4>1. /\ lease[l].state = "free"
            /\ states' = [states EXCEPT ![k] = [current |-> states[k].current + 1, maximum |-> m]]
            /\ lease' = [lease EXCEPT ![l] = [state |-> "held", key |-> k, counted |-> TRUE]]
        BY <2>counted, <3>2 DEF AcquireCounted
      <4>2. /\ l \notin CountedOn(k)
            /\ \A j \in Keys : CountedOn(j)' = IF j = k THEN CountedOn(j) \cup {l} ELSE CountedOn(j)
        BY <4>1, <2>inv, GrantHolders
      <4>3. /\ IsFiniteSet(CountedOn(k) \cup {l})
            /\ Cardinality(CountedOn(k) \cup {l}) = Cardinality(CountedOn(k)) + 1
        BY <2>inv, <4>2, FS_AddElement DEF FiniteHolders
      <4>4. /\ states'[k].current = states[k].current + 1
            /\ \A j \in Keys \ {k} : states'[j] = states[j]
        BY <4>1, <2>inv DEF TypeOK
      <4>5. QED
        BY <2>inv, <4>2, <4>3, <4>4 DEF FiniteHolders, CountIsHeld
    <3>3. QED
      BY <3>1, <3>2
  <2>release. ASSUME NEW l \in Leases, Release(l)
        PROVE  (FiniteHolders /\ CountIsHeld)'
    <3>1. CASE lease[l].state = "held" /\ lease[l].counted
      <4> DEFINE k == lease[l].key
      <4>0. k \in Keys
        BY <2>inv, <3>1 DEF TypeOK
      <4>1. /\ states' = [states EXCEPT ![k].current = Decremented(states[k].current)]
            /\ lease' = [lease EXCEPT ![l].state = "released"]
        BY <2>release, <3>1 DEF Release
      <4>2. /\ l \in CountedOn(k)
            /\ \A j \in Keys : CountedOn(j)' = IF j = k THEN CountedOn(j) \ {l} ELSE CountedOn(j)
        BY <4>1, <2>inv, <3>1, ReleaseHolders
      <4>3. /\ IsFiniteSet(CountedOn(k) \ {l})
            /\ Cardinality(CountedOn(k) \ {l}) = Cardinality(CountedOn(k)) - 1
            /\ Cardinality(CountedOn(k) \ {l}) \in Nat
        BY <2>inv, <4>0, <4>2, FS_RemoveElement, FS_CardinalityType DEF FiniteHolders
      <4>4. /\ states'[k].current = Decremented(states[k].current)
            /\ \A j \in Keys \ {k} : states'[j] = states[j]
        BY <4>0, <4>1, <2>inv DEF TypeOK
      <4>5. states[k].current = Cardinality(CountedOn(k)) /\ states[k].current \in Nat
        BY <2>inv, <4>0 DEF CountIsHeld, TypeOK
      <4>6. Decremented(states[k].current) = states[k].current - 1
        BY <4>3, <4>5 DEF Decremented
      <4> HIDE DEF k
      <4>7. QED
        BY <2>inv, <4>0, <4>2, <4>3, <4>4, <4>5, <4>6 DEF FiniteHolders, CountIsHeld
    <3>2. CASE ~(lease[l].state = "held" /\ lease[l].counted)
      <4>1. \A j \in Keys : CountedOn(j)' = CountedOn(j)
        BY <2>release, <2>inv, <3>2 DEF Release, TypeOK, CountedOn
      <4>2. QED
        BY <4>1, <2>release, <3>2, <2>quiet DEF Release
    <3>3. QED
      BY <3>1, <3>2
  <2>drop. ASSUME NEW l \in Leases, Drop(l)
        PROVE  (FiniteHolders /\ CountIsHeld)'
    <3>1. \A j \in Keys : CountedOn(j)' = CountedOn(j)
      BY <2>drop, <2>inv DEF Drop, TypeOK, CountedOn
    <3>2. QED
      BY <3>1, <2>drop, <2>quiet DEF Drop
  <2> QED
    BY <2>stutter, <2>release, <2>drop, <2>counted, <2>unlimited DEF Next
<1> QED
  BY <1>init, <1>step, ConcurrencyTypeOK, PTL DEF Spec

\* CountIsHeld for every set of keys, leases and limits: no slot leaks and
\* none is given back twice (concurrency.py 30-34, 61-66).
THEOREM ConcurrencyCount == Spec => []CountIsHeld
BY ConcurrencyInv, PTL DEF CountInv

\* A lease is only handed out below the limit its caller named (try_acquire).
THEOREM ConcurrencyGrants == Spec => GrantBelowLimit
<1> DEFINE Grant == \A k \in Keys : states'[k].current > states[k].current
                      => /\ states'[k].current = states[k].current + 1
                         /\ states'[k].current <= states'[k].maximum
<1>step. TypeOK /\ [Next]_vars => [Grant]_vars
  <2> SUFFICES ASSUME TypeOK, Next PROVE Grant
    OBVIOUS
  <2>quiet. ASSUME UNCHANGED states PROVE Grant
    BY <2>quiet DEF TypeOK
  <2>counted. ASSUME NEW l \in Leases, NEW k \in Keys, NEW m \in Limits, AcquireCounted(l, k, m)
        PROVE  Grant
    <3>1. m \in Int
      BY LimitsAssumption
    <3>2. CASE states[k].current >= m
      BY <2>counted, <3>1, <3>2 DEF AcquireCounted, TypeOK
    <3>3. CASE ~(states[k].current >= m)
      <4>1. states' = [states EXCEPT ![k] = [current |-> states[k].current + 1, maximum |-> m]]
        BY <2>counted, <3>3 DEF AcquireCounted
      <4>2. QED
        BY <3>1, <3>3, <4>1 DEF TypeOK
    <3>4. QED
      BY <3>2, <3>3
  <2>release. ASSUME NEW l \in Leases, Release(l)
        PROVE  Grant
    <3>1. CASE lease[l].state = "held" /\ lease[l].counted
      <4>1. states' = [states EXCEPT ![lease[l].key].current = Decremented(states[lease[l].key].current)]
        BY <2>release, <3>1 DEF Release
      <4>2. \A n \in Nat : Decremented(n) <= n
        BY DEF Decremented
      <4>3. \A k \in Keys : ~(states'[k].current > states[k].current)
        <5> SUFFICES ASSUME NEW k \in Keys PROVE ~(states'[k].current > states[k].current)
          OBVIOUS
        <5>1. CASE k = lease[l].key
          <6>1. states'[k].current = Decremented(states[k].current) /\ states[k].current \in Nat
            BY <4>1, <5>1 DEF TypeOK
          <6>2. Decremented(states[k].current) <= states[k].current /\ Decremented(states[k].current) \in Nat
            BY <4>2, <6>1 DEF Decremented
          <6>3. QED
            BY <6>1, <6>2
        <5>2. CASE k # lease[l].key
          <6>1. states'[k].current = states[k].current /\ states[k].current \in Nat
            BY <4>1, <5>2 DEF TypeOK
          <6>2. QED
            BY <6>1
        <5>3. QED
          BY <5>1, <5>2
      <4>4. QED
        BY <4>3
    <3>2. CASE ~(lease[l].state = "held" /\ lease[l].counted)
      BY <2>release, <3>2, <2>quiet DEF Release
    <3>3. QED
      BY <3>1, <3>2
  <2> QED
    BY <2>quiet, <2>counted, <2>release DEF Next, AcquireUnlimited, Drop
<1> QED
  BY <1>step, ConcurrencyTypeOK, PTL DEF Spec, GrantBelowLimit

\* The gate implements the semaphore of module Semaphore: its Lease objects
\* and counters only ever admit below the limit and leave once.
THEOREM ConcurrencyRefinement == Spec => ImplementsSemaphore
<1>init. Init => Sem!Init
  BY DEF Init, Sem!Init, CountedOn
<1>step. CountInv /\ [Next]_vars => [Sem!Next]_([k \in Keys |-> CountedOn(k)])
  <2> DEFINE H == [k \in Keys |-> CountedOn(k)]
  <2> SUFFICES ASSUME CountInv, [Next]_vars PROVE Sem!Next \/ H' = H
    OBVIOUS
  <2>inv. TypeOK /\ FiniteHolders /\ CountIsHeld
    BY DEF CountInv
  <2>quiet. ASSUME \A j \in Keys : CountedOn(j)' = CountedOn(j) PROVE H' = H
    BY <2>quiet
  <2>stutter. CASE UNCHANGED vars
    BY <2>stutter, <2>quiet DEF vars, CountedOn
  <2>unlimited. ASSUME NEW l \in Leases, NEW k \in Keys, NEW m \in Limits, AcquireUnlimited(l, k, m)
        PROVE  H' = H
    BY <2>unlimited, <2>inv, <2>quiet, QuietHolders DEF AcquireUnlimited
  <2>counted. ASSUME NEW l \in Leases, NEW k \in Keys, NEW m \in Limits, AcquireCounted(l, k, m)
        PROVE  Sem!Next \/ H' = H
    <3>1. CASE states[k].current >= m
      BY <2>counted, <3>1, <2>quiet DEF AcquireCounted, CountedOn
    <3>2. CASE ~(states[k].current >= m)
      <4>1. /\ lease[l].state = "free"
            /\ lease' = [lease EXCEPT ![l] = [state |-> "held", key |-> k, counted |-> TRUE]]
        BY <2>counted, <3>2 DEF AcquireCounted
      <4>2. \A j \in Keys : CountedOn(j)' = IF j = k THEN CountedOn(j) \cup {l} ELSE CountedOn(j)
        BY <4>1, <2>inv, GrantHolders
      <4>3. Cardinality(CountedOn(k)) < m
        <5>1. states[k].current = Cardinality(CountedOn(k)) /\ states[k].current \in Int /\ m \in Int
          BY <2>inv, LimitsAssumption DEF CountIsHeld, TypeOK
        <5>2. QED
          BY <3>2, <5>1
      <4>4. ~Sem!Inside(l)
        BY <4>1 DEF Sem!Inside, CountedOn
      <4>5. H' = [H EXCEPT ![k] = H[k] \cup {l}]
        BY <4>2
      <4>6. Sem!Admit(k, l, m)
        <5>1. Cardinality(H[k]) < m
          BY <4>3
        <5>2. QED
          BY <5>1, <4>4, <4>5 DEF Sem!Admit, Sem!Cardinality, Cardinality
      <4>7. QED
        BY <4>6 DEF Sem!Next
    <3>3. QED
      BY <3>1, <3>2
  <2>release. ASSUME NEW l \in Leases, Release(l)
        PROVE  Sem!Next \/ H' = H
    <3>1. CASE lease[l].state = "held" /\ lease[l].counted
      <4>0. lease[l].key \in Keys
        BY <2>inv, <3>1 DEF TypeOK
      <4>1. lease' = [lease EXCEPT ![l].state = "released"]
        BY <2>release DEF Release
      <4>2. /\ l \in CountedOn(lease[l].key)
            /\ \A j \in Keys : CountedOn(j)' =
                  IF j = lease[l].key THEN CountedOn(j) \ {l} ELSE CountedOn(j)
        BY <4>1, <2>inv, <3>1, ReleaseHolders
      <4>3. H' = [H EXCEPT ![lease[l].key] = H[lease[l].key] \ {l}]
        BY <4>0, <4>2
      <4>4. Sem!Leave(lease[l].key, l)
        BY <4>0, <4>2, <4>3 DEF Sem!Leave
      <4>5. QED
        BY <4>0, <4>4 DEF Sem!Next
    <3>2. CASE ~(lease[l].state = "held" /\ lease[l].counted)
      BY <2>release, <2>inv, <3>2, <2>quiet DEF Release, TypeOK, CountedOn
    <3>3. QED
      BY <3>1, <3>2
  <2>drop. ASSUME NEW l \in Leases, Drop(l)
        PROVE  H' = H
    BY <2>drop, <2>inv, <2>quiet DEF Drop, TypeOK, CountedOn
  <2> QED
    BY <2>stutter, <2>release, <2>drop, <2>counted, <2>unlimited DEF Next
<1> QED
  BY <1>init, <1>step, ConcurrencyInv, PTL DEF Spec, ImplementsSemaphore, Sem!Spec
-----------------------------------------------------------------------------
\* The rotation.

Pcs == {"idle", "query", "scan", "commit", "index"}

\* Column by column, what selections may make of a row: the usage is reset,
\* a hold or a used-up quota ends, a quota turns out to be used up.
Kin(old, row) ==
    /\ row.active = old.active
    /\ row.status \in {old.status, "active", "quota_exceeded"}
    /\ row.usage \in {old.usage, 0}

\* The distance of key f from the index i leaves room for n.
Room(f, n, i) == n + Offset(f, i) < NumKeys

\* Selection x of a thread, when the rows are `row' and key f is followed.
CallOK(x, row, f) ==
    /\ x.pc \in Pcs /\ x.now \in Nat /\ x.today \in Nat /\ x.chain \in Nat
    /\ x.pc \in {"scan", "commit"} =>
          /\ x.old \in [KeyIds -> KeyRow]
          /\ \A k \in KeyIds \ x.touched : Kin(x.old[k], row[k])
    /\ x.pc = "commit" =>
          /\ x.start \in 0..NumKeys /\ Room(f, x.chain, x.start)
          /\ Select(x.old, x.start, NoTtl, x.now, x.today).key # 0
    /\ x.pc = "index" => x.key \in KeyIds /\ Room(f, x.chain, x.key)

RotationType ==
    /\ rows \in [KeyIds -> KeyRow]
    /\ rr \in 0..NumKeys
    /\ now \in Nat /\ today \in Nat
    /\ followed \in KeyIds /\ chain \in Nat
    /\ call = [t \in Threads |-> call[t]]

Calls == \A t \in Threads : CallOK(call[t], rows, followed)

RotationInv == RotationType /\ Room(followed, chain, rr) /\ Calls
-----------------------------------------------------------------------------
\* Remainders of numbers at most one modulus away from 0 .. n - 1.
LEMMA SmallMod ==
    ASSUME NEW n \in Nat \ {0}, NEW x \in Int, -n <= x, x < n
    PROVE  x % n = IF x >= 0 THEN x ELSE x + n
  <1>1. CASE x >= 0
    BY <1>1, SMT
  <1>2. CASE x < 0
    BY <1>2, SMT
  <1> QED
    BY <1>1, <1>2

\* Offset, the position of a key in the scan of select(), without remainders.
LEMMA OffsetValue ==
    ASSUME NEW k \in KeyIds, NEW i \in 0..NumKeys
    PROVE  /\ Offset(k, i) = IF k > i THEN k - 1 - i ELSE k - 1 - i + NumKeys
           /\ Offset(k, i) \in 0..(NumKeys - 1)
  <1>1. /\ NumKeys \in Nat \ {0}
        /\ k - 1 - i \in Int /\ -NumKeys <= k - 1 - i /\ k - 1 - i < NumKeys
    BY KeyPoolAssumption DEF KeyIds
  <1>2. (k - 1 - i) % NumKeys = IF k - 1 - i >= 0 THEN k - 1 - i ELSE k - 1 - i + NumKeys
    BY <1>1, SmallMod
  <1> QED
    BY <1>1, <1>2 DEF Offset, KeyIds

\* A scan of n keys from i that stops at p before it comes to k leaves k
\* nearer to the start of the next scan.
LEMMA Nearer ==
    ASSUME NEW n \in Nat, NEW k \in 1..n, NEW p \in 1..n, k # p, NEW i \in 0..n,
           (IF p > i THEN p - 1 - i ELSE p - 1 - i + n)
               <= (IF k > i THEN k - 1 - i ELSE k - 1 - i + n)
    PROVE  (IF k > p THEN k - 1 - p ELSE k - 1 - p + n) + 1
               <= (IF k > i THEN k - 1 - i ELSE k - 1 - i + n)
  <1>1. CASE k > i /\ p > i
    BY <1>1
  <1>2. CASE k > i /\ p <= i
    BY <1>2
  <1>3. CASE k <= i /\ p > i
    BY <1>3
  <1>4. CASE k <= i /\ p <= i
    BY <1>4
  <1> QED
    BY <1>1, <1>2, <1>3, <1>4

\* The first usable key of a scan exists: Chosen's CHOOSE has a witness.
LEMMA ChosenIsFirst ==
    ASSUME NEW usable \in SUBSET KeyIds, usable # {}, NEW i \in 0..NumKeys
    PROVE  /\ Chosen(usable, i) \in usable
           /\ \A j \in usable : Offset(Chosen(usable, i), i) <= Offset(j, i)
  <1> DEFINE offsets == {Offset(k, i) : k \in usable}
  <1>1. /\ offsets \subseteq Nat
        /\ offsets # {}
    BY OffsetValue, KeyPoolAssumption
  <1>2. \E x \in offsets : \A y \in offsets : ~(<<y, x>> \in OpToRel(<, Nat))
    BY <1>1, NatLessThanWellFounded, WFMin
  <1>3. \E x \in offsets : \A y \in offsets : x <= y
    <2>1. PICK x \in offsets : \A y \in offsets : ~(<<y, x>> \in OpToRel(<, Nat))
      BY <1>2
    <2>2. ASSUME NEW y \in offsets
          PROVE  x <= y
      <3>1. x \in Nat /\ y \in Nat
        BY <1>1, <2>1, <2>2
      <3>2. ~(y < x)
        BY <2>1, <3>1 DEF OpToRel
      <3> QED
        BY <3>1, <3>2
    <2> QED
      BY <2>1, <2>2
  <1>4. \E k \in usable : \A j \in usable : Offset(k, i) <= Offset(j, i)
    BY <1>3
  <1> QED
    BY <1>4 DEF Chosen

\* Looking at a row keeps it a row.
LEMMA ExaminedType ==
    ASSUME NEW k \in KeyIds, NEW row \in KeyRow, NEW ttl, NEW t, NEW day \in Nat
    PROVE  /\ LazyReset(row, day) \in KeyRow
           /\ Examined(k, row, ttl, t, day) \in KeyRow
  <1>1. LazyReset(row, day) \in KeyRow
    BY DEF LazyReset, KeyRow, Statuses
  <1>2. Recovered(LazyReset(row, day)) \in KeyRow
    BY <1>1 DEF Recovered, KeyRow, Statuses
  <1>3. [Recovered(LazyReset(row, day)) EXCEPT !.status = "quota_exceeded"] \in KeyRow
    BY <1>2 DEF KeyRow, Statuses
  <1>4. Verdict(k, row, ttl, t, day) \in {"disabled", "waiting", "quota", "usable"}
    BY DEF Verdict
  <1> QED
    BY <1>1, <1>2, <1>3, <1>4 DEF Examined

\* What a selection that finds a key returns.
LEMMA Selected ==
    ASSUME NEW view \in [KeyIds -> KeyRow], NEW i \in 0..NumKeys, NEW c \in Nat, NEW day \in Nat,
           NEW s, s = Select(view, i, NoTtl, c, day), s.key # 0
    PROVE  /\ s.key \in KeyIds
           /\ Verdict(s.key, view[s.key], 0, c, day) = "usable"
           /\ \A j \in KeyIds : Verdict(j, view[j], 0, c, day) = "usable"
                                   => Offset(s.key, i) <= Offset(j, i)
           /\ \A j \in KeyIds : s.rows[j] \in {view[j], Examined(j, view[j], 0, c, day)}
           /\ s.rows[s.key] = Examined(s.key, view[s.key], 0, c, day)
  <1> DEFINE verdict == [k \in KeyIds |-> Verdict(k, view[k], NoTtl[k], c, day)]
             usable == {k \in KeyIds : verdict[k] = "usable"}
             pick == Chosen(usable, i)
             scanned == [k \in KeyIds |->
                           IF Offset(k, i) <= Offset(pick, i)
                             THEN Examined(k, view[k], NoTtl[k], c, day) ELSE view[k]]
  <1>1. s = IF usable = {} THEN [key |-> 0, rows |-> view, error |-> Refusal(verdict)]
            ELSE [key |-> pick, error |-> "none", rows |-> scanned]
    BY DEF Select
  <1>2. usable # {}
    BY <1>1
  <1>3. s.key = pick /\ s.rows = scanned
    BY <1>1, <1>2
  <1>4. usable \in SUBSET KeyIds
    OBVIOUS
  <1>5. /\ pick \in usable
        /\ \A j \in usable : Offset(pick, i) <= Offset(j, i)
    BY <1>2, <1>4, ChosenIsFirst
  <1>6. \A k \in KeyIds : NoTtl[k] = 0
    BY DEF NoTtl
  <1>7. Offset(pick, i) <= Offset(pick, i)
    BY <1>4, <1>5, OffsetValue
  <1>8. scanned[pick] = Examined(pick, view[pick], 0, c, day)
    BY <1>5, <1>6, <1>7
  <1>9. \A j \in KeyIds : scanned[j] \in {view[j], Examined(j, view[j], 0, c, day)}
    BY <1>6
  <1> QED
    BY <1>3, <1>5, <1>6, <1>8, <1>9

\* A selection that passes over the followed key leaves the next one room.
LEMMA RoomLeft ==
    ASSUME followed \in KeyIds, NEW n \in Nat, NEW i \in 0..NumKeys, Room(followed, n, i), NEW p \in KeyIds,
           NEW over \in BOOLEAN, over => p # followed /\ Offset(p, i) <= Offset(followed, i)
    PROVE  Room(followed, IF over THEN n + 1 ELSE 0, p)
  <1>1. NumKeys \in Nat /\ p \in 1..NumKeys /\ followed \in 1..NumKeys /\ p \in 0..NumKeys
    BY KeyPoolAssumption DEF KeyIds
  <1>2. /\ Offset(followed, i) = IF followed > i THEN followed - 1 - i ELSE followed - 1 - i + NumKeys
        /\ Offset(p, i) = IF p > i THEN p - 1 - i ELSE p - 1 - i + NumKeys
        /\ Offset(followed, i) \in 0..(NumKeys - 1)
    BY OffsetValue
  <1>3. /\ Offset(followed, p) = IF followed > p THEN followed - 1 - p ELSE followed - 1 - p + NumKeys
        /\ Offset(followed, p) \in 0..(NumKeys - 1)
    BY <1>1, OffsetValue
  <1>4. CASE over
    <2>1. Offset(followed, p) + 1 <= Offset(followed, i)
      BY <1>1, <1>2, <1>3, <1>4, Nearer
    <2> QED
      BY <1>1, <1>2, <1>3, <1>4, <2>1 DEF Room
  <1>5. CASE ~over
    BY <1>1, <1>3, <1>5 DEF Room
  <1> QED
    BY <1>4, <1>5

\* Looking at a row changes it in the ways of Kin.
LEMMA ExaminedKin ==
    ASSUME NEW k \in KeyIds, NEW row \in KeyRow, NEW ttl, NEW c, NEW day \in Nat
    PROVE  LET new == Examined(k, row, ttl, c, day) IN
             /\ new.active = row.active
             /\ new.status # row.status => new.status \in {"active", "quota_exceeded"}
             /\ new.usage # row.usage => new.usage = 0
  <1> DEFINE fresh == LazyReset(row, day)
             recovered == Recovered(fresh)
             over == [recovered EXCEPT !.status = "quota_exceeded"]
             like(new) == /\ new \in KeyRow /\ new.active = row.active
                          /\ new.status \in {row.status, "active", "quota_exceeded"}
                          /\ new.usage \in {row.usage, 0}
  <1>1. like(row) /\ like(fresh)
    BY DEF LazyReset, KeyRow, Statuses
  <1> HIDE DEF fresh
  <1>2. like(recovered)
    BY <1>1 DEF Recovered, KeyRow, Statuses
  <1> HIDE DEF recovered
  <1>3. like(over)
    BY <1>2 DEF KeyRow, Statuses
  <1>4. Verdict(k, row, ttl, c, day) \in {"disabled", "waiting", "quota", "usable"}
    BY DEF Verdict
  <1>5. Examined(k, row, ttl, c, day) \in {row, fresh, recovered, over}
    BY <1>4 DEF Examined, fresh, recovered
  <1>6. like(Examined(k, row, ttl, c, day))
    <2> HIDE DEF over, like
    <2> QED
      BY <1>1, <1>2, <1>3, <1>5
  <1> QED
    BY <1>6

\* So does committing what a selection made of an older copy.
LEMMA MergedKin ==
    ASSUME NEW k \in KeyIds, NEW row \in KeyRow, NEW old \in KeyRow, NEW c, NEW day \in Nat,
           NEW new, new \in {old, Examined(k, old, 0, c, day)}
    PROVE  Merge(row, old, new) \in KeyRow /\ Kin(row, Merge(row, old, new))
  <1>1. /\ new \in KeyRow /\ new.active = old.active
        /\ new.status # old.status => new.status \in {"active", "quota_exceeded"}
        /\ new.usage # old.usage => new.usage = 0
    BY ExaminedType, ExaminedKin
  <1>2. Merge(row, old, new) \in KeyRow
    BY <1>1 DEF Merge, KeyRow
  <1>3. /\ Merge(row, old, new).active = IF new.active # old.active THEN new.active ELSE row.active
        /\ Merge(row, old, new).status = IF new.status # old.status THEN new.status ELSE row.status
        /\ Merge(row, old, new).usage = IF new.usage # old.usage THEN new.usage ELSE row.usage
    BY DEF Merge, KeyRow
  <1> QED
    BY <1>1, <1>2, <1>3 DEF Kin

LEMMA KinTransitive ==
    ASSUME NEW a, NEW b, NEW c, Kin(a, b), Kin(b, c)
    PROVE  Kin(a, c)
BY DEF Kin
-----------------------------------------------------------------------------
LEMMA RotationStarts == RotationInit => RotationInv
  <1> SUFFICES ASSUME RotationInit PROVE RotationInv
    OBVIOUS
  <1>1. RotationType
    BY KeyPoolAssumption, RotationAssumption DEF RotationInit, RotationType
  <1>2. Room(followed, chain, rr)
    <2>1. Offset(followed, 0) \in 0..(NumKeys - 1) /\ NumKeys \in Nat
      BY <1>1, OffsetValue, KeyPoolAssumption DEF RotationInit, RotationType
    <2> QED
      BY <2>1 DEF RotationInit, Room
  <1>3. Calls
    BY DEF RotationInit, Idle, Calls, CallOK, Pcs
  <1> QED
    BY <1>1, <1>2, <1>3 DEF RotationInv

\* A step of thread t that leaves rows and index alone.
LEMMA ThreadStep ==
    ASSUME RotationInv, NEW t \in Threads, NEW x, call' = [call EXCEPT ![t] = x], CallOK(x, rows, followed),
           UNCHANGED <<rows, rr, now, today, followed, chain>>
    PROVE  RotationInv'
  <1>1. RotationType /\ \A u \in Threads : CallOK(call[u], rows, followed)
    BY DEF RotationInv, Calls
  <1>2. \A u \in Threads : call'[u] = IF u = t THEN x ELSE call[u]
    BY <1>1 DEF RotationType
  <1>3. \A u \in Threads : CallOK(call'[u], rows, followed)
    BY <1>1, <1>2
  <1>4. Calls'
    BY <1>3 DEF Calls
  <1>5. RotationType' /\ Room(followed, chain, rr)'
    BY <1>1 DEF RotationInv, RotationType, Room
  <1> QED
    BY <1>4, <1>5 DEF RotationInv

LEMMA CallIdle == \A row, f : CallOK(Idle, row, f)
BY DEF CallOK, Idle, Pcs

LEMMA QuietThreadSteps ==
    ASSUME RotationInv, NEW t \in Threads, ReadClocks(t) \/ QueryRows(t) \/ Scan(t) \/ CommitFails(t)
    PROVE  RotationInv'
  <1>0. RotationType /\ CallOK(call[t], rows, followed) /\ Room(followed, chain, rr)
    BY DEF RotationInv, Calls
  <1>1. CASE ReadClocks(t)
    <2> DEFINE x == [Idle EXCEPT !.pc = "query", !.now = now, !.today = today]
    <2>1. CallOK(x, rows, followed)
      BY <1>0 DEF CallOK, Idle, Pcs, RotationType
    <2> HIDE DEF x
    <2> QED
      BY <1>1, <2>1, ThreadStep DEF ReadClocks, x
  <1>2. CASE QueryRows(t)
    <2> DEFINE x == [call[t] EXCEPT !.pc = "scan", !.old = rows]
    <2>1. x.pc = "scan" /\ x.old = rows /\ x.now \in Nat /\ x.today \in Nat /\ x.chain \in Nat
      BY <1>0 DEF CallOK
    <2>2. call' = [call EXCEPT ![t] = x]
      BY <1>2 DEF QueryRows
    <2> HIDE DEF x
    <2>3. CallOK(x, rows, followed)
      BY <1>0, <2>1 DEF CallOK, Kin, Pcs, RotationType
    <2> QED
      BY <1>2, <2>2, <2>3, ThreadStep DEF QueryRows
  <1>3. CASE Scan(t)
    <2> DEFINE found == Select(call[t].old, rr, NoTtl, call[t].now, call[t].today).key
               x == [call[t] EXCEPT !.pc = "commit", !.start = rr, !.chain = chain]
    <2>1. /\ call[t].pc = "scan"
          /\ call' = [call EXCEPT ![t] = IF found = 0 THEN Idle ELSE x]
      BY <1>3 DEF Scan
    <2>2. CASE found = 0
      BY <1>3, <2>1, <2>2, CallIdle, ThreadStep DEF Scan
    <2>3. CASE found # 0
      <3>1. /\ x.pc = "commit" /\ x.start = rr /\ x.chain = chain /\ x.old = call[t].old
            /\ x.now = call[t].now /\ x.today = call[t].today /\ x.touched = call[t].touched
        BY <1>0 DEF CallOK
      <3> HIDE DEF x
      <3>2. CallOK(x, rows, followed)
        BY <1>0, <2>1, <2>3, <3>1 DEF CallOK, Pcs, RotationType
      <3>3. call' = [call EXCEPT ![t] = x]
        BY <2>1, <2>3
      <3> QED
        BY <1>3, <3>2, <3>3, ThreadStep DEF Scan
    <2> QED
      BY <2>2, <2>3
  <1>4. CASE CommitFails(t)
    BY <1>4, CallIdle, ThreadStep DEF CommitFails
  <1> QED
    BY <1>1, <1>2, <1>3, <1>4
\* The commit: the followed key has room for one selection less, or was just
\* handed out; the rows stay next of kin to every other session's copies.
LEMMA CommitScanKeeps ==
    ASSUME RotationInv, NEW t \in Threads, CommitScan(t) PROVE RotationInv'
  <1> DEFINE s == Scanned(t)
             n == PassedOver(t, s.key, call[t].chain)
             x == [Idle EXCEPT !.pc = "index", !.key = s.key, !.chain = n]
  <1>0. RotationType /\ CallOK(call[t], rows, followed) /\ Room(followed, chain, rr)
    BY DEF RotationInv, Calls
  <1>1. /\ call[t].pc = "commit"
        /\ rows' = [k \in KeyIds |-> Merge(rows[k], call[t].old[k], s.rows[k])]
        /\ call' = [call EXCEPT ![t] = x]
        /\ UNCHANGED <<rr, now, today, followed, chain>>
    BY DEF CommitScan
  <1>2. /\ call[t].old \in [KeyIds -> KeyRow] /\ call[t].start \in 0..NumKeys
        /\ call[t].now \in Nat /\ call[t].today \in Nat /\ call[t].chain \in Nat
        /\ Room(followed, call[t].chain, call[t].start) /\ s.key # 0
    BY <1>0, <1>1 DEF CallOK, Scanned
  <1>3. /\ s.key \in KeyIds
        /\ FoundUsable(t, followed) => Offset(s.key, call[t].start) <= Offset(followed, call[t].start)
        /\ \A j \in KeyIds : s.rows[j] \in {call[t].old[j],
                                  Examined(j, call[t].old[j], 0, call[t].now, call[t].today)}
    <2>1. s = Select(call[t].old, call[t].start, NoTtl, call[t].now, call[t].today)
      BY DEF Scanned
    <2> HIDE DEF s
    <2>2. /\ s.key \in KeyIds
          /\ \A j \in KeyIds : /\ Verdict(j, call[t].old[j], 0, call[t].now, call[t].today) = "usable"
                                   => Offset(s.key, call[t].start) <= Offset(j, call[t].start)
                              /\ s.rows[j] \in {call[t].old[j],
                                    Examined(j, call[t].old[j], 0, call[t].now, call[t].today)}
      BY <1>2, <2>1, Selected
    <2>3. followed \in KeyIds
      BY <1>0 DEF RotationType
    <2> QED
      BY <2>2, <2>3 DEF FoundUsable
  <1> HIDE DEF s
  <1>4. n \in Nat /\ Room(followed, n, s.key)
    <2> DEFINE over == s.key # followed /\ FoundUsable(t, followed)
    <2>1. n = IF over THEN call[t].chain + 1 ELSE 0
      BY DEF PassedOver
    <2>2. over \in BOOLEAN /\ followed \in KeyIds
      BY <1>0 DEF RotationType
    <2>3. over => s.key # followed /\ Offset(s.key, call[t].start) <= Offset(followed, call[t].start)
      BY <1>3
    <2> HIDE DEF over
    <2>4. Room(followed, IF over THEN call[t].chain + 1 ELSE 0, s.key)
      BY <1>2, <1>3, <2>2, <2>3, RoomLeft
    <2> QED
      BY <1>2, <2>1, <2>4
  <1> HIDE DEF n
  <1>5. CallOK(x, rows', followed)
    BY <1>3, <1>4 DEF CallOK, Idle, Pcs
  <1> HIDE DEF x
  <1>6. \A k \in KeyIds : rows'[k] \in KeyRow /\ Kin(rows[k], rows'[k])
    <2> SUFFICES ASSUME NEW k \in KeyIds PROVE rows'[k] \in KeyRow /\ Kin(rows[k], rows'[k])
      OBVIOUS
    <2>1. rows[k] \in KeyRow /\ call[t].old[k] \in KeyRow
      BY <1>0, <1>2 DEF RotationType
    <2>2. rows'[k] = Merge(rows[k], call[t].old[k], s.rows[k])
      BY <1>1
    <2> QED
      BY <1>2, <1>3, <2>1, <2>2, MergedKin
  <1>7. ASSUME NEW u \in Threads PROVE CallOK(call'[u], rows', followed)
    <2>1. call'[u] = IF u = t THEN x ELSE call[u]
      BY <1>0, <1>1 DEF RotationType
    <2>2. CallOK(call[u], rows, followed)
      BY DEF RotationInv, Calls
    <2>3. CallOK(call[u], rows', followed)
      BY <1>6, <2>2, KinTransitive DEF CallOK
    <2> QED
      BY <1>5, <2>1, <2>3
  <1>8. rows' \in [KeyIds -> KeyRow]
    BY <1>1, <1>6
  <1>9. RotationType' /\ Room(followed, chain, rr)'
    BY <1>0, <1>1, <1>8 DEF RotationType, Room
  <1>10. Calls'
    BY <1>1, <1>7 DEF Calls
  <1> QED
    BY <1>9, <1>10 DEF RotationInv

LEMMA WriteIndexKeeps ==
    ASSUME RotationInv, NEW t \in Threads, WriteIndex(t) PROVE RotationInv'
  <1>0. RotationType /\ CallOK(call[t], rows, followed)
    BY DEF RotationInv, Calls
  <1>1. /\ call[t].pc = "index" /\ rr' = call[t].key /\ chain' = call[t].chain
        /\ call' = [call EXCEPT ![t] = Idle]
        /\ UNCHANGED <<rows, now, today, followed>>
    BY DEF WriteIndex
  <1>2. call[t].key \in KeyIds /\ Room(followed, call[t].chain, call[t].key) /\ call[t].chain \in Nat
    BY <1>0, <1>1 DEF CallOK
  <1>3. call[t].key \in 0..NumKeys
    BY <1>2, KeyPoolAssumption DEF KeyIds
  <1>4. RotationType' /\ Room(followed, chain, rr)'
    BY <1>0, <1>1, <1>2, <1>3 DEF RotationType, Room
  <1>5. Calls'
    BY <1>0, <1>1, CallIdle DEF RotationInv, RotationType, Calls
  <1> QED
    BY <1>4, <1>5 DEF RotationInv

\* A row that another component writes is no longer next of kin, and touched.
LEMMA RewriteKeeps ==
    ASSUME RotationInv, NEW k \in KeyIds, Rewrite(k) PROVE RotationInv'
  <1> DEFINE touch(u) == IF call[u].pc \in {"scan", "commit"}
                           THEN [call[u] EXCEPT !.touched = @ \cup {k}] ELSE call[u]
  <1>0. RotationType /\ Room(followed, chain, rr) /\ \A u \in Threads : CallOK(call[u], rows, followed)
    BY DEF RotationInv, Calls
  <1>1. PICK row \in RowChoices : rows' = [rows EXCEPT ![k] = row]
    BY DEF Rewrite
  <1>2. /\ call' = [u \in Threads |-> touch(u)]
        /\ UNCHANGED <<rr, now, today, followed, chain>>
    BY DEF Rewrite
  <1>3. /\ rows' \in [KeyIds -> KeyRow]
        /\ \A j \in KeyIds : j # k => rows'[j] = rows[j]
    BY <1>0, <1>1, RotationAssumption DEF RotationType
  <1>4. ASSUME NEW u \in Threads PROVE CallOK(call'[u], rows', followed)
    <2>1. CallOK(call[u], rows, followed) /\ call'[u] = touch(u)
      BY <1>0, <1>2
    <2>2. CASE call[u].pc \in {"scan", "commit"}
      <3> DEFINE x == [call[u] EXCEPT !.touched = @ \cup {k}]
      <3>1. call'[u] = x
        BY <2>1, <2>2
      <3>2. /\ x.pc = call[u].pc /\ x.now = call[u].now /\ x.today = call[u].today /\ x.chain = call[u].chain
            /\ x.old = call[u].old /\ x.start = call[u].start /\ x.key = call[u].key
            /\ x.touched = call[u].touched \cup {k}
        BY <2>2
      <3> HIDE DEF x
      <3>3. \A j \in KeyIds \ x.touched : j # k /\ j \in KeyIds \ call[u].touched
        BY <3>2
      <3>4. CallOK(x, rows', followed)
        BY <1>3, <2>1, <2>2, <3>2, <3>3 DEF CallOK
      <3> QED
        BY <3>1, <3>4
    <2>3. CASE call[u].pc \notin {"scan", "commit"}
      BY <2>1, <2>3 DEF CallOK
    <2> QED
      BY <2>2, <2>3
  <1>5. RotationType' /\ Room(followed, chain, rr)'
    BY <1>0, <1>2, <1>3 DEF RotationType, Room
  <1>6. Calls'
    BY <1>2, <1>4 DEF Calls
  <1> QED
    BY <1>5, <1>6 DEF RotationInv

LEMMA RotationStep == RotationInv /\ [RotationNext]_rotationVars => RotationInv'
  <1> SUFFICES ASSUME RotationInv, [RotationNext]_rotationVars PROVE RotationInv'
    OBVIOUS
  <1>1. ASSUME NEW t \in Threads, ReadClocks(t) \/ QueryRows(t) \/ Scan(t) \/ CommitFails(t)
        PROVE  RotationInv'
    BY <1>1, QuietThreadSteps
  <1>2. ASSUME NEW t \in Threads, CommitScan(t) PROVE RotationInv'
    BY <1>2, CommitScanKeeps
  <1>3. ASSUME NEW t \in Threads, WriteIndex(t) PROVE RotationInv'
    BY <1>3, WriteIndexKeeps
  <1>4. ASSUME NEW k \in KeyIds, Rewrite(k) PROVE RotationInv'
    BY <1>4, RewriteKeeps
  <1>5. CASE Tick
    BY <1>5 DEF Tick, RotationInv, RotationType, Calls, Room
  <1>6. CASE UNCHANGED rotationVars
    BY <1>6 DEF rotationVars, RotationInv, RotationType, Calls, Room
  <1> QED
    BY <1>1, <1>2, <1>3, <1>4, <1>5, <1>6 DEF RotationNext

\* What is known of the index and of every selection under way holds in every
\* reachable state of concurrent calls of KeyPool.select().
THEOREM RotationProgress == RotationSpec => []RotationInv
  <1> QED
    BY RotationStarts, RotationStep, PTL DEF RotationSpec

\* Round-robin fairness of KeyPool.select(): along the chain of selections
\* that led to the index no usable key is passed over NumKeys times in a row,
\* for any number of keys and of concurrent threads.
THEOREM RotationFair == RotationSpec => []FairChain
  <1>1. RotationInv => FairChain
    <2> SUFFICES ASSUME RotationInv PROVE chain < NumKeys
      BY DEF FairChain
    <2>1. chain \in Nat /\ chain + Offset(followed, rr) < NumKeys /\ rr \in 0..NumKeys /\ followed \in KeyIds
      BY DEF RotationInv, RotationType, Room
    <2>2. Offset(followed, rr) \in 0..(NumKeys - 1) /\ NumKeys \in Nat
      BY <2>1, OffsetValue, KeyPoolAssumption
    <2> QED
      BY <2>1, <2>2
  <1> QED
    BY <1>1, RotationProgress, PTL

\* What a scan makes of a row that it finds usable is in service.
LEMMA UsableInService ==
    ASSUME NEW k \in KeyIds, NEW row \in KeyRow, NEW c, NEW day \in Nat,
           Verdict(k, row, 0, c, day) = "usable"
    PROVE  LET new == Examined(k, row, 0, c, day) IN
             /\ new \in KeyRow /\ ~Disabled(row)
             /\ ~Disabled(new) /\ ~OnHold(new) /\ new.day = day /\ ~OverQuota(k, new)
  <1> DEFINE fresh == LazyReset(row, day)
             new == Recovered(fresh)
  <1>1. ~Disabled(row) /\ ~OverQuota(k, fresh)
    BY DEF Verdict
  <1>2. Examined(k, row, 0, c, day) = new
    BY DEF Examined
  <1>3. fresh \in KeyRow
    BY ExaminedType
  <1>4. /\ fresh.active = row.active /\ fresh.day = day
        /\ fresh.status \in {row.status, "active"}
    BY DEF LazyReset, KeyRow
  <1> HIDE DEF fresh
  <1>5. /\ new.active = fresh.active /\ new.day = fresh.day /\ new.usage = fresh.usage
        /\ new.status = IF OnHold(fresh) THEN "active" ELSE fresh.status
        /\ new \in KeyRow
    BY <1>3 DEF Recovered, KeyRow, Statuses
  <1> HIDE DEF new
  <1>6. ~Disabled(new)
    BY <1>1, <1>4, <1>5 DEF Disabled
  <1>7. ~OnHold(new)
    BY <1>5 DEF OnHold
  <1>8. ~OverQuota(k, new)
    BY <1>1, <1>5 DEF OverQuota
  <1> QED
    BY <1>1, <1>2, <1>4, <1>5, <1>6, <1>7, <1>8

\* A row next of kin to the copy in which the scan found the key usable is in
\* service once the scan's changes are merged into it.
LEMMA MergedInService ==
    ASSUME NEW k \in KeyIds, NEW old \in KeyRow, NEW row \in KeyRow, Kin(old, row), NEW c, NEW day \in Nat,
           Verdict(k, old, 0, c, day) = "usable", NEW new, new = Examined(k, old, 0, c, day),
           NEW m, m = Merge(row, old, new)
    PROVE  /\ ~Disabled(m) /\ ~OnHold(m) /\ ~OverQuota(k, m)
           /\ row.day = old.day => m.day = day
  <1>1. /\ new \in KeyRow /\ ~Disabled(old)
        /\ ~Disabled(new) /\ ~OnHold(new) /\ new.day = day /\ ~OverQuota(k, new)
    BY UsableInService
  <1>2. /\ new.active = old.active
        /\ new.usage # old.usage => new.usage = 0
    BY ExaminedKin
  <1>3. /\ m.active = IF new.active # old.active THEN new.active ELSE row.active
        /\ m.status = IF new.status # old.status THEN new.status ELSE row.status
        /\ m.usage = IF new.usage # old.usage THEN new.usage ELSE row.usage
        /\ m.day = IF new.day # old.day THEN new.day ELSE row.day
    BY DEF Merge, KeyRow
  <1>4. /\ row.active = old.active
        /\ row.status \in {old.status, "active", "quota_exceeded"}
        /\ row.usage \in {old.usage, 0}
    BY DEF Kin
  <1>5. ~Disabled(m)
    BY <1>1, <1>2, <1>3, <1>4 DEF Disabled
  <1>6. ~OnHold(m)
    BY <1>1, <1>3, <1>4 DEF OnHold
  <1>7. ~OverQuota(k, m)
    <2>1. m.usage \in {new.usage, 0} /\ new.usage \in Nat
      BY <1>1, <1>3, <1>4 DEF KeyRow
    <2>2. DailyQuota[k] = None \/ (DailyQuota[k] \in Nat /\ new.usage < DailyQuota[k])
      BY <1>1, <2>1, KeyPoolAssumption DEF OverQuota, KeyIds, None
    <2> QED
      BY <2>1, <2>2 DEF OverQuota, None
  <1> QED
    BY <1>1, <1>3, <1>5, <1>6, <1>7

\* Every selection, however stale, commits a row in service for the key that
\* it hands out, unless another component wrote that row since the query.
THEOREM RotationInService == RotationSpec => HandedOutInService
  <1> DEFINE InService == \A t \in Threads : call[t].pc = "commit" /\ call'[t].pc = "index" =>
                LET k == Scanned(t).key IN
                k \notin call[t].touched =>
                   /\ ~Disabled(rows'[k]) /\ ~OnHold(rows'[k]) /\ ~OverQuota(k, rows'[k])
                   /\ rows[k].day = call[t].old[k].day => rows'[k].day = call[t].today
  <1>1. RotationInv /\ [RotationNext]_rotationVars => InService
    <2> SUFFICES ASSUME RotationInv, [RotationNext]_rotationVars, NEW t \in Threads,
                        call[t].pc = "commit", call'[t].pc = "index",
                        Scanned(t).key \notin call[t].touched
                 PROVE  LET k == Scanned(t).key IN
                           /\ ~Disabled(rows'[k]) /\ ~OnHold(rows'[k]) /\ ~OverQuota(k, rows'[k])
                           /\ rows[k].day = call[t].old[k].day => rows'[k].day = call[t].today
      OBVIOUS
    <2>0. RotationType /\ CallOK(call[t], rows, followed)
      BY DEF RotationInv, Calls
    <2>1. CommitScan(t)
      <3>1. call'[t] # call[t] /\ call' # call
        OBVIOUS
      <3>2. PICK u \in Threads : \/ ReadClocks(u) \/ QueryRows(u) \/ Scan(u)
                                 \/ CommitScan(u) \/ CommitFails(u) \/ WriteIndex(u)
                                 \/ \E k \in KeyIds : Rewrite(k)
        BY <3>1 DEF RotationNext, Tick, rotationVars
      <3>3. ~\E k \in KeyIds : Rewrite(k)
        <4>1. SUFFICES ASSUME NEW k \in KeyIds, Rewrite(k) PROVE FALSE
          OBVIOUS
        <4>2. call'[t] = [call[t] EXCEPT !.touched = @ \cup {k}]
          BY <4>1 DEF Rewrite
        <4>3. call'[t].pc = call[t].pc
          BY <4>2
        <4> QED
          BY <4>3
      <3>4. u = t
        BY <2>0, <3>1, <3>2, <3>3 DEF RotationType, ReadClocks, QueryRows, Scan, CommitScan, CommitFails, WriteIndex
      <3> QED
        BY <2>0, <3>2, <3>3, <3>4 DEF RotationType, ReadClocks, QueryRows, Scan, CommitFails, WriteIndex, Idle
    <2> DEFINE s == Scanned(t)
    <2>2. /\ call[t].old \in [KeyIds -> KeyRow] /\ call[t].start \in 0..NumKeys
          /\ call[t].now \in Nat /\ call[t].today \in Nat /\ s.key # 0
          /\ \A k \in KeyIds \ call[t].touched : Kin(call[t].old[k], rows[k])
      BY <2>0 DEF CallOK, Scanned
    <2>3. /\ s.key \in KeyIds
          /\ Verdict(s.key, call[t].old[s.key], 0, call[t].now, call[t].today) = "usable"
          /\ s.rows[s.key] = Examined(s.key, call[t].old[s.key], 0, call[t].now, call[t].today)
      BY <2>2, Selected DEF Scanned
    <2>4. rows' = [k \in KeyIds |-> Merge(rows[k], call[t].old[k], s.rows[k])]
      BY <2>1 DEF CommitScan
    <2>5. Kin(call[t].old[s.key], rows[s.key])
      BY <2>2, <2>3
    <2> HIDE DEF s
    <2>6. /\ rows'[s.key] = Merge(rows[s.key], call[t].old[s.key], s.rows[s.key])
          /\ rows[s.key] \in KeyRow /\ call[t].old[s.key] \in KeyRow
      BY <2>0, <2>2, <2>3, <2>4 DEF RotationType
    <2>7. /\ ~Disabled(rows'[s.key]) /\ ~OnHold(rows'[s.key]) /\ ~OverQuota(s.key, rows'[s.key])
          /\ rows[s.key].day = call[t].old[s.key].day => rows'[s.key].day = call[t].today
      BY <2>2, <2>3, <2>5, <2>6, MergedInService
    <2> QED
      BY <2>7 DEF s
  <1>2. RotationInv /\ [RotationNext]_rotationVars => [InService]_rotationVars
    BY <1>1
  <1> QED
    BY <1>2, RotationProgress, PTL DEF RotationSpec, HandedOutInService
=============================================================================
