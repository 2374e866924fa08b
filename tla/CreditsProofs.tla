--------------------------- MODULE CreditsProofs ---------------------------
(***************************************************************************)
(* The refresh loop keeps its retry delay for every number of keys, batch  *)
(* size and choice of intervals, whatever commits fail and whatever        *)
(* administrators do meanwhile.                                            *)
(*                                                                         *)
(* RetryDelayed speaks of the moment the loop calls.  Two facts carry it   *)
(* there: no key still to be fetched is owed a wait, and what a key is     *)
(* owed is covered by the next_refresh_at the session will have written,   *)
(* which is the uncommitted one if there is one.                           *)
(***************************************************************************)
EXTENDS Credits, TLAPS

Statuses == {"active", "cooling", "disabled", "failed", "decrypt_failed"}
FullRows == [active : BOOLEAN, status : Statuses]
Dues == 0..MaxDue
Passes == [pc : {"sleep", "next", "call"}, todo : SUBSET KeyIds, rows : [KeyIds -> Rows],
           key : KeyIds \cup {None}, copy : Rows,
           pend : [KeyIds -> Dues \cup {None}], age : 0..RetryTicks, count : 0..BatchSize]
Refreshes == [key : KeyIds \cup {None}, copy : Rows]

\* The state of the loop: asleep it holds nothing; in a call it holds a key
\* that is not to be fetched again, and the batch has room for it.
InStep(p) ==
    /\ p.pc = "sleep" => p.todo = {} /\ p.pend = Unsaved
    /\ p.pc = "call" => p.key \in KeyIds /\ p.key \notin p.todo /\ p.count < BatchSize

\* The next_refresh_at of k, once the loop's session p has been committed.
Coming(p, d, k) == IF p.pend[k] # None THEN p.pend[k] ELSE d[k]

\* The waits w that keys are owed.
Owed(p, rows, d, w) ==
    /\ \A k \in p.todo : w[k] = 0
    /\ \A k \in KeyIds : rows[k] = Absent \/ w[k] <= Coming(p, d, k)

\* The inductive invariant.
CreditsInv ==
    /\ row \in [KeyIds -> Rows] /\ due \in [KeyIds -> Dues] /\ fresh \in [KeyIds -> 0..MinTicks]
    /\ loop \in Passes /\ manual \in Refreshes /\ acts \in 0..MaxActs /\ wait \in [KeyIds -> 0..RetryTicks]
    /\ InStep(loop) /\ Owed(loop, row, due, wait)
-----------------------------------------------------------------------------
\* The constants.

LEMMA Constants ==
    /\ NumKeys \in Nat /\ BatchSize \in Nat \ {0} /\ MinTicks \in Nat \ {0} /\ RetryTicks \in Nat \ {0}
    /\ HighTicks \in Nat /\ LowTicks \in Nat /\ SpentTicks \in Nat /\ MaxActs \in Nat
    /\ None \notin KeyIds /\ None = -1
<1>1. {NumKeys, BatchSize, RetryTicks, HighTicks, LowTicks, SpentTicks, MinTicks} \subseteq Nat \ {0}
  BY CreditsAssumption
<1>2. MaxActs \in Nat
  BY CreditsAssumption
<1> QED
  BY <1>1, <1>2 DEF None, KeyIds

\* Every interval the loop writes is within the bound.
LEMMA Intervals ==
    /\ MaxDue \in Nat /\ 0 \in Dues /\ 0..RetryTicks \subseteq Dues /\ None \notin Dues
    /\ \A level : NextRefresh(level) \in Dues
<1> DEFINE All == {RetryTicks, HighTicks, LowTicks, SpentTicks}
<1>1. \E d \in All : \A e \in All : e <= d
  <2>1. \A a, b \in Nat : a <= b \/ b <= a
    OBVIOUS
  <2>2. QED
    BY <2>1, Constants
<1>2. MaxDue \in All /\ \A e \in All : e <= MaxDue
  BY <1>1 DEF MaxDue
<1>3. MaxDue \in Nat /\ RetryTicks <= MaxDue /\ HighTicks <= MaxDue /\ LowTicks <= MaxDue /\ SpentTicks <= MaxDue
  BY <1>2, Constants
<1> QED
  BY <1>3, Constants DEF Dues, NextRefresh

LEMMA Asleep ==
    /\ Sleeping \in Passes /\ Sleeping.pc = "sleep" /\ Sleeping.todo = {} /\ Sleeping.pend = Unsaved
    /\ InStep(Sleeping) /\ NoManual \in Refreshes
    /\ Unsaved \in [KeyIds -> Dues \cup {None}] /\ Expired \in [KeyIds -> Rows]
<1>1. Unsaved \in [KeyIds -> Dues \cup {None}] /\ Expired \in [KeyIds -> Rows]
  BY Constants DEF Unsaved, Expired, Rows
<1>2. Sleeping.pend = Unsaved /\ Sleeping.pc = "sleep" /\ Sleeping.todo = {}
  BY DEF Sleeping, Unsaved
<1>3. Absent \in Rows
  BY DEF Rows
<1>4. 0 \in 0..RetryTicks /\ 0 \in 0..BatchSize
  BY Constants
<1>5. Sleeping = [pc |-> "sleep", todo |-> {}, rows |-> Expired, key |-> None, copy |-> Absent, pend |-> Unsaved,
                  age |-> 0, count |-> 0]
  BY DEF Sleeping, Unsaved, Expired
<1>6. Sleeping \in Passes
  BY <1>1, <1>3, <1>4, <1>5 DEF Passes
<1>7. NoManual \in Refreshes
  BY <1>3 DEF NoManual, Refreshes
<1> QED
  BY <1>1, <1>2, <1>6, <1>7 DEF InStep
-----------------------------------------------------------------------------
\* Rows.

LEMMA RowKinds ==
    /\ Rows = FullRows \cup {Absent} /\ Absent \notin FullRows
    /\ Absent.active = FALSE
BY DEF Rows, FullRows, Statuses, Absent

\* The write of a failure keeps a row a row and a purged row purged.
LEMMA MergedRow ==
    ASSUME NEW cur \in Rows, NEW copy \in Rows, NEW failure
    PROVE  LET new == Merged(cur, copy, AfterFailure(copy, failure))
           IN  new \in Rows /\ (cur = Absent => new = Absent)
<1> DEFINE after == AfterFailure(copy, failure)
<1>1. CASE cur = Absent
  BY <1>1, RowKinds DEF Merged
<1>2. CASE cur # Absent
  <2>1. cur \in FullRows
    BY <1>2, RowKinds
  <2>2. CASE after = copy
    <3> HIDE DEF after
    <3>1. Merged(cur, copy, after) = [c \in DOMAIN cur |-> cur[c]]
      BY <1>2, <2>2 DEF Merged
    <3>2. Merged(cur, copy, after) = cur
      BY <2>1, <3>1 DEF FullRows
    <3>3. QED
      BY <1>2, <3>2 DEF after
  <2>3. CASE after # copy
    <3>1. copy.active \in BOOLEAN /\ DOMAIN copy = {"active", "status"}
      BY RowKinds DEF FullRows, Absent
    <3>2. after \in FullRows
      BY <2>3, <3>1, RowKinds DEF AfterFailure, FullRows, Statuses, Absent
    <3> HIDE DEF after
    <3>3. Merged(cur, copy, after) = [c \in DOMAIN cur |-> IF after[c] # copy[c] THEN after[c] ELSE cur[c]]
      BY <1>2 DEF Merged
    <3>4. Merged(cur, copy, after) \in FullRows
      BY <2>1, <3>2, <3>3 DEF FullRows
    <3>5. QED
      BY <1>2, <3>4, RowKinds DEF after
  <2>4. QED
    BY <2>2, <2>3
<1> QED
  BY <1>1, <1>2
-----------------------------------------------------------------------------
\* The loop's session.

LEMMA FlushedTyped ==
    ASSUME CreditsInv
    PROVE  Flushed \in [KeyIds -> Dues]
<1>1. \A k \in KeyIds : loop.pend[k] \in Dues \cup {None} /\ due[k] \in Dues
  BY DEF CreditsInv, Passes
<1> QED
  BY <1>1 DEF Flushed

\* A commit fails or not; a failed one is all there is for a purged row.
LEMMA OutcomesBoolean == LoopOutcomes \subseteq BOOLEAN /\ Outcomes \subseteq BOOLEAN
BY DEF LoopOutcomes, Outcomes

\* A commit writes what was coming; what is then held back is nothing.
LEMMA FlushedOwed ==
    ASSUME CreditsInv, NEW p, p.todo \subseteq loop.todo, p.pend = Unsaved
    PROVE  Owed(p, row, Flushed, wait)
<1>1. \A k \in KeyIds : Flushed[k] = Coming(loop, due, k)
  BY DEF Flushed, Coming
<1>2. \A k \in KeyIds : Coming(p, Flushed, k) = Flushed[k]
  BY DEF Coming, Unsaved
<1> QED
  BY <1>1, <1>2 DEF CreditsInv, Owed

\* With nothing promised nothing is owed.
LEMMA NothingOwed ==
    ASSUME NEW p, NEW rows, NEW d \in [KeyIds -> Dues], NEW w, \A k \in KeyIds : w[k] = 0,
           p.todo \subseteq KeyIds, p.pend \in [KeyIds -> Dues \cup {None}]
    PROVE  Owed(p, rows, d, w)
<1>1. \A k \in KeyIds : w[k] = 0
  OBVIOUS
<1>2. \A k \in KeyIds : Coming(p, d, k) \in Dues
  BY DEF Coming
<1>3. \A n \in Dues : 0 <= n
  BY Intervals DEF Dues
<1> QED
  BY <1>1, <1>2, <1>3 DEF Owed

\* What a rollback does not make the loop forget was committed.
LEMMA ForgottenOwed ==
    ASSUME CreditsInv
    PROVE  /\ Forgotten \in [KeyIds -> 0..RetryTicks]
           /\ \A k \in loop.todo : Forgotten[k] = 0
           /\ \A k \in KeyIds : row[k] = Absent \/ (Forgotten[k] <= due[k] /\ Forgotten[k] <= Flushed[k])
<1>1. \A k \in KeyIds : wait[k] \in 0..RetryTicks /\ due[k] \in Dues /\ loop.pend[k] \in Dues \cup {None}
  BY DEF CreditsInv, Passes
<1>2. 0 \in 0..RetryTicks /\ \A n \in Dues : 0 <= n
  BY Constants, Intervals DEF Dues
<1>3. loop.todo \subseteq KeyIds
  BY DEF CreditsInv, Passes
<1>4. \A k \in KeyIds : Forgotten[k] = (IF loop.pend[k] # None THEN 0 ELSE wait[k])
  BY DEF Forgotten
<1>5. Forgotten \in [KeyIds -> 0..RetryTicks]
  BY <1>1, <1>2 DEF Forgotten
<1>6. \A k \in loop.todo : Forgotten[k] = 0
  BY <1>3, <1>4 DEF CreditsInv, Owed
<1>7. ASSUME NEW k \in KeyIds, row[k] # Absent PROVE Forgotten[k] <= due[k] /\ Forgotten[k] <= Flushed[k]
  <2>1. wait[k] <= Coming(loop, due, k)
    BY <1>7 DEF CreditsInv, Owed
  <2>2. QED
    BY <1>1, <1>2, <1>4, <2>1 DEF Coming, Flushed
<1> QED
  BY <1>5, <1>6, <1>7

\* The session may have been committed before it is closed.
LEMMA AbortKeeps ==
    ASSUME CreditsInv, Abort, UNCHANGED <<row, fresh>>, due' \in {due, Flushed},
           manual' \in Refreshes, acts' \in 0..MaxActs
    PROVE  CreditsInv'
<1>1. due' \in [KeyIds -> Dues]
  BY FlushedTyped DEF CreditsInv
<1>2. \A k \in KeyIds : Coming(Sleeping, due', k) = due'[k]
  BY Asleep DEF Coming, Unsaved
<1>3. Owed(Sleeping, row, due', Forgotten)
  BY <1>2, Asleep, ForgottenOwed DEF Owed
<1> QED
  BY <1>1, <1>3, Asleep, ForgottenOwed DEF Abort, CreditsInv

\* After a key was handled.
LEMMA HandledOK ==
    ASSUME CreditsInv, loop.pc = "call", NEW rows \in [KeyIds -> Rows], NEW pend \in [KeyIds -> Dues \cup {None}]
    PROVE  /\ Handled(rows, pend) \in Passes /\ InStep(Handled(rows, pend))
           /\ Handled(rows, pend).todo = loop.todo /\ Handled(rows, pend).pend = pend
<1>1. loop \in Passes /\ loop.count < BatchSize
  BY DEF CreditsInv, InStep
<1>2. loop.count + 1 \in 0..BatchSize
  BY <1>1, Constants DEF Passes
<1>3. Absent \in Rows
  BY RowKinds
<1>4. /\ Handled(rows, pend) \in Passes /\ Handled(rows, pend).pc = "next"
      /\ Handled(rows, pend).todo = loop.todo /\ Handled(rows, pend).pend = pend
  BY <1>1, <1>2, <1>3 DEF Handled, Passes
<1> QED
  BY <1>4 DEF InStep

\* What is left of the retry delay.
LEMMA DelayLeft ==
    ASSUME CreditsInv
    PROVE  RetryTicks - loop.age \in 0..RetryTicks /\ RetryTicks - loop.age \in Dues
<1>1. loop.age \in 0..RetryTicks
  BY DEF CreditsInv, Passes
<1>2. RetryTicks - loop.age \in 0..RetryTicks
  BY <1>1, Constants
<1> QED
  BY <1>2, Intervals
-----------------------------------------------------------------------------
\* The steps of the loop.

\* A key that is due is owed nothing: what it was owed has been committed.
LEMMA LoopStartKeeps ==
    ASSUME CreditsInv, LoopStart
    PROVE  CreditsInv'
<1> DEFINE rows == [k \in KeyIds |-> IF k \in DueKeys THEN row[k] ELSE Absent]
           p == [Sleeping EXCEPT !.pc = "next", !.todo = DueKeys, !.rows = rows]
<1>1. DueKeys \subseteq KeyIds /\ rows \in [KeyIds -> Rows]
  BY RowKinds DEF DueKeys, CreditsInv
<1> HIDE DEF rows
<1>2. p \in Passes /\ p.pc = "next" /\ p.todo = DueKeys /\ p.pend = Unsaved
  BY <1>1, Asleep DEF Passes
<1>3. loop.pend = Unsaved
  BY DEF CreditsInv, InStep, LoopStart
<1>4. \A k \in KeyIds : Coming(loop, due, k) = due[k] /\ Coming(p, due, k) = due[k]
  BY <1>2, <1>3 DEF Coming, Unsaved
<1>5. ASSUME NEW k \in DueKeys PROVE wait[k] = 0
  <2>1. k \in KeyIds /\ due[k] = 0 /\ row[k] # Absent
    BY RowKinds DEF DueKeys, Eligible
  <2>2. wait[k] <= 0 /\ wait[k] \in 0..RetryTicks
    BY <1>4, <2>1 DEF CreditsInv, Owed
  <2>3. QED
    BY <2>2, Constants
<1> HIDE DEF p
<1>6. Owed(p, row, due, wait)
  BY <1>2, <1>4, <1>5 DEF CreditsInv, Owed
<1>7. loop' = p
  BY DEF LoopStart, p, rows
<1> QED
  BY <1>2, <1>6, <1>7 DEF LoopStart, CreditsInv, InStep

LEMMA LoopCallKeeps ==
    ASSUME CreditsInv, LoopCall
    PROVE  CreditsInv' /\ (loop'.pc = "call" => wait[loop'.key] = 0)
<1>1. PICK k \in loop.todo :
        LET held == IF loop.rows[k] # Absent THEN loop.rows[k] ELSE row[k]
        IN  IF held = Absent
              THEN Abort
              ELSE /\ loop' = [loop EXCEPT !.pc = "call", !.key = k, !.copy = held,
                                           !.todo = loop.todo \ {k}, !.rows[k] = Absent]
                   /\ UNCHANGED wait
  BY DEF LoopCall
<1> DEFINE held == IF loop.rows[k] # Absent THEN loop.rows[k] ELSE row[k]
<1>2. CASE held = Absent
  BY <1>1, <1>2, AbortKeeps, Asleep DEF LoopCall, CreditsInv, Abort
<1>3. CASE held # Absent
  <2> DEFINE p == [loop EXCEPT !.pc = "call", !.key = k, !.copy = held, !.todo = loop.todo \ {k}, !.rows[k] = Absent]
  <2>1. loop \in Passes /\ k \in KeyIds /\ held \in Rows /\ Absent \in Rows
    BY RowKinds DEF CreditsInv, Passes
  <2> HIDE DEF held
  <2>2. /\ p \in Passes /\ p.pc = "call" /\ p.key = k /\ p.todo = loop.todo \ {k} /\ p.pend = loop.pend
        /\ p.count = loop.count
    BY <2>1 DEF Passes
  <2>3. loop' = p /\ UNCHANGED wait
    BY <1>1, <1>3 DEF held
  <2> HIDE DEF p
  <2>4. InStep(p)
    <3>1. loop.count \in 0..BatchSize /\ loop.count # BatchSize
      BY <2>1 DEF Passes, LoopCall, BatchFull
    <3>2. loop.count < BatchSize
      BY <3>1, Constants
    <3>3. QED
      BY <2>1, <2>2, <3>2 DEF InStep
  <2>5. Owed(p, row, due, wait)
    BY <2>2 DEF CreditsInv, Owed, Coming
  <2>6. wait[k] = 0
    BY DEF CreditsInv, Owed
  <2>7. QED
    BY <2>2, <2>3, <2>4, <2>5, <2>6 DEF LoopCall, CreditsInv
<1> QED
  BY <1>2, <1>3

\* The wait of the key in hand is set to what is held back for it.
LEMMA RetryOwed ==
    ASSUME CreditsInv, loop.pc = "call", NEW rows, NEW d \in [KeyIds -> Dues],
           NEW pend \in [KeyIds -> Dues \cup {None}], NEW w \in [KeyIds -> 0..RetryTicks],
           NEW seen \in [KeyIds -> Rows],
           \A k \in loop.todo : w[k] = 0,
           \A k \in KeyIds : rows[k] = Absent \/ w[k] <= (IF pend[k] # None THEN pend[k] ELSE d[k])
    PROVE  /\ Retry(loop.key, pend) \in [KeyIds -> Dues \cup {None}]
           /\ [w EXCEPT ![loop.key] = RetryTicks - loop.age] \in [KeyIds -> 0..RetryTicks]
           /\ Owed(Handled(seen, Retry(loop.key, pend)), rows, d, [w EXCEPT ![loop.key] = RetryTicks - loop.age])
<1> DEFINE left == RetryTicks - loop.age
           held == Retry(loop.key, pend)
           p == Handled(seen, held)
           v == [w EXCEPT ![loop.key] = left]
<1>1. left \in 0..RetryTicks /\ left \in Dues /\ left # None /\ left <= left
  <2>1. left \in 0..RetryTicks /\ left \in Dues
    BY DelayLeft
  <2>2. QED
    BY <2>1, Constants, Intervals
<1>2. loop.key \in KeyIds /\ loop.key \notin loop.todo /\ loop.todo \subseteq KeyIds
  BY DEF CreditsInv, InStep, Passes
<1>3. held = [pend EXCEPT ![loop.key] = left]
  BY DEF Retry
<1> HIDE DEF left, held
<1>4. held \in [KeyIds -> Dues \cup {None}] /\ v \in [KeyIds -> 0..RetryTicks]
  BY <1>1, <1>3
<1>5. p.todo = loop.todo /\ p.pend = held
  BY <1>4, HandledOK
<1> HIDE DEF p
<1>6. \A k \in p.todo : v[k] = 0
  BY <1>2, <1>5
<1>7. ASSUME NEW k \in KeyIds PROVE rows[k] = Absent \/ v[k] <= Coming(p, d, k)
  <2>1. CASE k = loop.key
    BY <1>1, <1>3, <1>5, <2>1 DEF Coming
  <2>2. CASE k # loop.key
    BY <1>3, <1>5, <2>2 DEF Coming
  <2>3. QED
    BY <2>1, <2>2
<1>8. Owed(p, rows, d, v)
  BY <1>6, <1>7 DEF Owed
<1> QED
  BY <1>4, <1>8 DEF p, held, left

LEMMA LoopFetchedKeeps ==
    ASSUME CreditsInv, NEW level, NEW ok \in BOOLEAN, LoopFetched(level, ok)
    PROVE  CreditsInv'
<1> DEFINE k == loop.key
<1>1. loop.pc = "call" /\ k \in KeyIds /\ k \notin loop.todo /\ loop.todo \subseteq KeyIds
  BY DEF LoopFetched, CreditsInv, InStep, Passes
<1>2. CASE ok
  <2> DEFINE n == NextRefresh(level)
             held == [Unsaved EXCEPT ![k] = n]
             p == Handled(Expired, held)
  <2>1. n \in Dues /\ n # None
    BY Intervals
  <2>2. /\ due' = [Flushed EXCEPT ![k] = n] /\ fresh' = [fresh EXCEPT ![k] = MinTicks]
        /\ loop' = p /\ wait' = [wait EXCEPT ![k] = 0]
    BY <1>2 DEF LoopFetched
  <2>3. held \in [KeyIds -> Dues \cup {None}]
    BY <2>1, Asleep
  <2> HIDE DEF held
  <2>4. p \in Passes /\ InStep(p) /\ p.todo = loop.todo /\ p.pend = held
    <3>1. Expired \in [KeyIds -> Rows]
      BY Asleep
    <3>2. QED
      BY <1>1, <2>3, <3>1, HandledOK
  <2> USE DEF held
  <2> HIDE DEF n, p, k
  <2>5. due' \in [KeyIds -> Dues] /\ fresh' \in [KeyIds -> 0..MinTicks] /\ wait' \in [KeyIds -> 0..RetryTicks]
    <3>1. MinTicks \in 0..MinTicks /\ 0 \in 0..RetryTicks
      BY Constants
    <3>2. QED
      BY <2>1, <2>2, <3>1, FlushedTyped DEF CreditsInv
  <2>6. ASSUME NEW j \in KeyIds PROVE row[j] = Absent \/ wait'[j] <= Coming(p, due', j)
    <3>1. CASE j = k
      <4>1. wait'[j] = 0 /\ Coming(p, due', j) = n
        BY <2>1, <2>2, <2>4, <3>1, Asleep DEF CreditsInv, Coming
      <4>2. QED
        BY <2>1, <4>1, Intervals DEF Dues
    <3>2. CASE j # k
      <4>1. wait'[j] = wait[j] /\ p.pend[j] = None /\ due'[j] = Flushed[j]
        BY <2>2, <2>4, <3>2, FlushedTyped DEF CreditsInv, Unsaved
      <4>2. row[j] = Absent \/ Flushed[j] = Coming(loop, due, j)
        BY DEF Flushed, Coming
      <4>3. QED
        BY <4>1, <4>2 DEF CreditsInv, Owed, Coming
    <3>3. QED
      BY <3>1, <3>2
  <2>7. \A j \in p.todo : wait'[j] = 0
    BY <1>1, <2>2, <2>4 DEF CreditsInv, Owed
  <2>8. QED
    BY <2>2, <2>4, <2>5, <2>6, <2>7 DEF LoopFetched, CreditsInv, Owed
<1>3. CASE ~ok
  <2>1. /\ loop' = Handled(Expired, Retry(k, Unsaved)) /\ wait' = [Forgotten EXCEPT ![k] = RetryTicks - loop.age]
        /\ UNCHANGED <<row, due, fresh, manual, acts>>
    BY <1>3 DEF LoopFetched
  <2>2. /\ \A j \in loop.todo : Forgotten[j] = 0
        /\ \A j \in KeyIds : row[j] = Absent \/ Forgotten[j] <= (IF Unsaved[j] # None THEN Unsaved[j] ELSE due[j])
    BY ForgottenOwed DEF Unsaved
  <2>3. /\ Retry(k, Unsaved) \in [KeyIds -> Dues \cup {None}] /\ wait' \in [KeyIds -> 0..RetryTicks]
        /\ Owed(Handled(Expired, Retry(k, Unsaved)), row, due, wait')
    <3>1. /\ due \in [KeyIds -> Dues] /\ Forgotten \in [KeyIds -> 0..RetryTicks]
          /\ Unsaved \in [KeyIds -> Dues \cup {None}] /\ Expired \in [KeyIds -> Rows]
      BY Asleep, ForgottenOwed DEF CreditsInv
    <3>2. /\ Retry(loop.key, Unsaved) \in [KeyIds -> Dues \cup {None}]
          /\ [Forgotten EXCEPT ![loop.key] = RetryTicks - loop.age] \in [KeyIds -> 0..RetryTicks]
          /\ Owed(Handled(Expired, Retry(loop.key, Unsaved)), row, due,
                  [Forgotten EXCEPT ![loop.key] = RetryTicks - loop.age])
      BY ONLY CreditsInv, <1>1, <2>2, <3>1, RetryOwed
    <3>3. QED
      BY <2>1, <3>2
  <2>4. Handled(Expired, Retry(k, Unsaved)) \in Passes /\ InStep(Handled(Expired, Retry(k, Unsaved)))
    <3>1. Expired \in [KeyIds -> Rows]
      BY Asleep
    <3>2. QED
      BY <1>1, <2>3, <3>1, HandledOK
  <2>5. QED
    BY <2>1, <2>3, <2>4 DEF CreditsInv
<1> QED
  BY <1>2, <1>3

LEMMA LoopFailedKeeps ==
    ASSUME CreditsInv, NEW failure, NEW ok \in BOOLEAN, LoopFailed(failure, ok)
    PROVE  CreditsInv'
<1> DEFINE k == loop.key
           unsent == failure = "unsent"
           pend == IF unsent THEN loop.pend ELSE Unsaved
           seen == IF unsent THEN loop.rows ELSE Expired
           w == IF ok \/ unsent THEN wait ELSE Forgotten
           d == IF ok /\ ~unsent THEN Flushed ELSE due
           new == Merged(row[k], loop.copy, AfterFailure(loop.copy, failure))
<1>1. /\ loop.pc = "call" /\ k \in KeyIds /\ k \notin loop.todo /\ loop.todo \subseteq KeyIds
      /\ row[k] \in Rows /\ loop.copy \in Rows
  BY DEF LoopFailed, CreditsInv, InStep, Passes
<1>2. /\ row' = IF ok THEN [row EXCEPT ![k] = new] ELSE row
      /\ due' = d /\ loop' = Handled(seen, Retry(k, pend))
      /\ wait' = [w EXCEPT ![k] = RetryTicks - loop.age] /\ UNCHANGED <<fresh, manual, acts>>
  BY DEF LoopFailed
<1>3. new \in Rows /\ (row[k] = Absent => new = Absent)
  BY <1>1, MergedRow
<1>4. /\ pend \in [KeyIds -> Dues \cup {None}] /\ w \in [KeyIds -> 0..RetryTicks]
      /\ d \in [KeyIds -> Dues] /\ seen \in [KeyIds -> Rows]
  BY Asleep, FlushedTyped, ForgottenOwed DEF CreditsInv, Passes
<1>5. \A j \in loop.todo : w[j] = 0
  BY ForgottenOwed DEF CreditsInv, Owed
<1>6. ASSUME NEW j \in KeyIds
      PROVE  row[j] = Absent \/ w[j] <= (IF pend[j] # None THEN pend[j] ELSE d[j])
  <2>1. row[j] = Absent \/ wait[j] <= Coming(loop, due, j)
    BY DEF CreditsInv, Owed
  <2>2. CASE unsent
    BY <2>1, <2>2 DEF Coming
  <2>3. CASE ~unsent /\ ok
    <3>1. Flushed[j] = Coming(loop, due, j)
      BY DEF Flushed, Coming
    <3>2. QED
      BY <2>1, <2>3, <3>1 DEF Unsaved
  <2>4. CASE ~unsent /\ ~ok
    BY <2>4, ForgottenOwed DEF Unsaved
  <2>5. QED
    BY <2>2, <2>3, <2>4
<1> HIDE DEF pend, w, d, new, unsent, seen
<1>7. ASSUME NEW j \in KeyIds
      PROVE  row'[j] = Absent \/ [w EXCEPT ![k] = 0][j] <= (IF pend[j] # None THEN pend[j] ELSE d[j])
  <2>1. CASE j = k
    <3>1. (IF pend[j] # None THEN pend[j] ELSE d[j]) \in Dues
      BY <1>4
    <3>2. [w EXCEPT ![k] = 0][j] = 0
      BY <1>1, <1>4, <2>1
    <3>3. QED
      BY <3>1, <3>2, Intervals DEF Dues
  <2>2. CASE j # k
    <3>1. row'[j] = row[j] /\ [w EXCEPT ![k] = 0][j] = w[j]
      BY <1>2, <1>4, <2>2 DEF CreditsInv
    <3>2. QED
      BY <1>6, <3>1
  <2>3. QED
    BY <2>1, <2>2
<1>8. /\ Retry(k, pend) \in [KeyIds -> Dues \cup {None}] /\ wait' \in [KeyIds -> 0..RetryTicks]
      /\ Owed(Handled(seen, Retry(k, pend)), row', d, wait')
  <2> DEFINE u == [w EXCEPT ![k] = 0]
  <2>1. u \in [KeyIds -> 0..RetryTicks] /\ (\A j \in loop.todo : u[j] = 0)
    <3>1. 0 \in 0..RetryTicks
      BY Constants
    <3>2. QED
      BY <1>1, <1>4, <1>5, <3>1
  <2>2. [u EXCEPT ![k] = RetryTicks - loop.age] = [w EXCEPT ![k] = RetryTicks - loop.age]
    BY <1>4
  <2>3. \A j \in KeyIds : row'[j] = Absent \/ u[j] <= (IF pend[j] # None THEN pend[j] ELSE d[j])
    BY <1>7
  <2> HIDE DEF u
  <2>4. /\ Retry(k, pend) \in [KeyIds -> Dues \cup {None}]
        /\ [u EXCEPT ![k] = RetryTicks - loop.age] \in [KeyIds -> 0..RetryTicks]
        /\ Owed(Handled(seen, Retry(k, pend)), row', d, [u EXCEPT ![k] = RetryTicks - loop.age])
    BY <1>1, <1>4, <2>1, <2>3, RetryOwed
  <2>5. QED
    BY <1>2, <2>2, <2>4
<1>9. Handled(seen, Retry(k, pend)) \in Passes /\ InStep(Handled(seen, Retry(k, pend)))
  BY <1>1, <1>4, <1>8, HandledOK
<1>10. row' \in [KeyIds -> Rows]
  BY <1>2, <1>3 DEF CreditsInv
<1> QED
  BY <1>2, <1>4, <1>8, <1>9, <1>10 DEF CreditsInv

LEMMA LoopLostKeeps ==
    ASSUME CreditsInv, NEW ok \in BOOLEAN, LoopLost(ok)
    PROVE  CreditsInv'
BY AbortKeeps DEF LoopLost, CreditsInv

LEMMA BatchCommitKeeps ==
    ASSUME CreditsInv, NEW ok \in BOOLEAN, BatchCommit(ok)
    PROVE  CreditsInv' /\ (loop'.pc = "call" => loop.pc = "call")
<1> DEFINE p == IF loop.todo = {} THEN Sleeping ELSE [loop EXCEPT !.rows = Expired, !.pend = Unsaved, !.count = 0]
<1>1. loop \in Passes /\ loop.pc = "next" /\ loop.todo \subseteq KeyIds
  BY DEF BatchCommit, CreditsInv, Passes
<1>2. /\ due' = (IF ok THEN Flushed ELSE due) /\ wait' = (IF ok THEN wait ELSE Forgotten) /\ loop' = p
      /\ UNCHANGED <<row, fresh, manual, acts>>
  BY DEF BatchCommit
<1>3. p \in Passes /\ p.pc \in {"sleep", "next"} /\ p.todo = loop.todo /\ p.pend = Unsaved /\ InStep(p)
  <2>1. CASE loop.todo = {}
    BY <2>1, Asleep
  <2>2. CASE loop.todo # {}
    <3> DEFINE q == [loop EXCEPT !.rows = Expired, !.pend = Unsaved, !.count = 0]
    <3>1. 0 \in 0..BatchSize
      BY Constants
    <3>2. q \in Passes /\ q.pc = "next" /\ q.todo = loop.todo /\ q.pend = Unsaved
      BY <1>1, <3>1, Asleep DEF Passes
    <3> HIDE DEF q
    <3>3. InStep(q)
      BY <3>2 DEF InStep
    <3>4. p = q
      BY <2>2 DEF q
    <3>5. QED
      BY <3>2, <3>3, <3>4
  <2>3. QED
    BY <2>1, <2>2
<1> HIDE DEF p
<1>4. Owed(p, row, due', wait')
  <2>1. CASE ok
    BY <1>2, <1>3, <2>1, FlushedOwed
  <2>2. CASE ~ok
    BY <1>2, <1>3, <2>2, ForgottenOwed DEF Owed, Coming, Unsaved
  <2>3. QED
    BY <2>1, <2>2
<1>5. due' \in [KeyIds -> Dues] /\ wait' \in [KeyIds -> 0..RetryTicks]
  BY <1>2, FlushedTyped, ForgottenOwed DEF CreditsInv
<1>6. CreditsInv'
  BY <1>2, <1>3, <1>4, <1>5 DEF CreditsInv
<1> QED
  BY <1>2, <1>3, <1>6
-----------------------------------------------------------------------------
\* Manual refreshes and the environment.

\* A row that changes while it is there, and a purged row that stays purged,
\* leave what is owed alone.
LEMMA RowsOwed ==
    ASSUME NEW p, NEW rows, NEW now, NEW d, NEW w, Owed(p, rows, d, w),
           \A k \in KeyIds : rows[k] = Absent => now[k] = Absent
    PROVE  Owed(p, now, d, w)
BY DEF Owed

LEMMA ManualStartKeeps ==
    ASSUME CreditsInv, NEW k \in KeyIds, ManualStart(k)
    PROVE  CreditsInv'
<1>1. row[k] \in Rows
  BY DEF CreditsInv
<1>2. manual' \in Refreshes
  BY <1>1 DEF ManualStart, Refreshes
<1>3. acts' \in 0..MaxActs
  BY Constants DEF ManualStart, CreditsInv
<1> QED
  BY <1>2, <1>3 DEF ManualStart, CreditsInv

\* A manual refresh gives a new time; the loop then owes the key nothing.
LEMMA ManualFetchedKeeps ==
    ASSUME CreditsInv, NEW level, NEW ok \in BOOLEAN, ManualFetched(level, ok)
    PROVE  CreditsInv'
<1> DEFINE k == manual.key
           n == NextRefresh(level)
<1>1. k \in KeyIds
  BY DEF ManualFetched, CreditsInv, Refreshes
<1>2. CASE due' = due /\ fresh' = fresh /\ wait' = wait
  BY <1>2, Asleep DEF ManualFetched, CreditsInv
<1>3. CASE /\ due' = [due EXCEPT ![k] = n] /\ fresh' = [fresh EXCEPT ![k] = MinTicks]
           /\ wait' = [wait EXCEPT ![k] = 0]
  <2>1. n \in Dues /\ MinTicks \in 0..MinTicks /\ 0 \in 0..RetryTicks
    BY Intervals, Constants
  <2> HIDE DEF n
  <2>2. due' \in [KeyIds -> Dues] /\ fresh' \in [KeyIds -> 0..MinTicks] /\ wait' \in [KeyIds -> 0..RetryTicks]
    BY <1>3, <2>1 DEF CreditsInv
  <2>3. loop.todo \subseteq KeyIds /\ loop.pend \in [KeyIds -> Dues \cup {None}]
    BY DEF CreditsInv, Passes
  <2> HIDE DEF k
  <2>4. \A j \in loop.todo : wait'[j] = 0
    BY <1>3, <2>3 DEF CreditsInv, Owed
  <2>5. ASSUME NEW j \in KeyIds PROVE row[j] = Absent \/ wait'[j] <= Coming(loop, due', j)
    <3>1. CASE j = k
      <4>1. wait'[j] = 0 /\ Coming(loop, due', j) \in Dues
        BY <1>3, <2>2, <2>3, <3>1 DEF CreditsInv, Coming
      <4>2. QED
        BY <4>1, Intervals DEF Dues
    <3>2. CASE j # k
      <4>1. wait'[j] = wait[j] /\ due'[j] = due[j]
        BY <1>3, <3>2 DEF CreditsInv
      <4>2. QED
        BY <4>1 DEF CreditsInv, Owed, Coming
    <3>3. QED
      BY <3>1, <3>2
  <2>6. UNCHANGED <<row, loop, acts>> /\ manual' \in Refreshes
    BY Asleep DEF ManualFetched
  <2>7. QED
    BY <2>2, <2>4, <2>5, <2>6 DEF CreditsInv, Owed
<1> QED
  BY <1>2, <1>3 DEF ManualFetched

LEMMA ManualFailedKeeps ==
    ASSUME CreditsInv, NEW failure, NEW ok \in BOOLEAN, ManualFailed(failure, ok)
    PROVE  CreditsInv'
<1> DEFINE k == manual.key
           new == Merged(row[k], manual.copy, AfterFailure(manual.copy, failure))
<1>1. k \in KeyIds /\ manual.copy \in Rows /\ row[k] \in Rows
  BY DEF ManualFailed, CreditsInv, Refreshes
<1>2. new \in Rows /\ (row[k] = Absent => new = Absent)
  BY <1>1, MergedRow
<1>3. row' = (IF ok THEN [row EXCEPT ![k] = new] ELSE row) /\ UNCHANGED <<due, fresh, loop, acts, wait>>
  BY DEF ManualFailed
<1> HIDE DEF k, new
<1>4. row' \in [KeyIds -> Rows] /\ \A j \in KeyIds : row[j] = Absent => row'[j] = Absent
  BY <1>2, <1>3 DEF CreditsInv
<1>5. Owed(loop, row', due, wait)
  BY <1>4, RowsOwed DEF CreditsInv
<1>6. manual' \in Refreshes
  BY Asleep DEF ManualFailed
<1> QED
  BY <1>3, <1>4, <1>5, <1>6 DEF CreditsInv

LEMMA AdministerKeeps ==
    ASSUME CreditsInv, NEW k \in KeyIds, Administer(k)
    PROVE  CreditsInv'
<1>1. PICK r \in {Absent, [active |-> FALSE, status |-> "disabled"], [active |-> TRUE, status |-> "active"]} :
        row' = [row EXCEPT ![k] = r]
  BY DEF Administer
<1>2. r \in Rows
  <2>1. [active |-> FALSE, status |-> "disabled"] \in FullRows /\ [active |-> TRUE, status |-> "active"] \in FullRows
    BY DEF FullRows, Statuses
  <2>2. QED
    BY <2>1, RowKinds
<1>3. row' \in [KeyIds -> Rows] /\ \A j \in KeyIds : row[j] = Absent => row'[j] = Absent
  BY <1>1, <1>2 DEF CreditsInv, Administer
<1>4. Owed(loop, row', due, wait)
  BY <1>3, RowsOwed DEF CreditsInv
<1>5. acts' \in 0..MaxActs
  BY Constants DEF Administer, CreditsInv
<1> QED
  BY <1>3, <1>4, <1>5 DEF Administer, CreditsInv

LEMMA RestartKeeps ==
    ASSUME CreditsInv, Restart
    PROVE  CreditsInv'
<1>1. acts' \in 0..MaxActs
  BY Constants DEF Restart, CreditsInv
<1> QED
  BY <1>1, AbortKeeps, Asleep DEF Restart

\* Time runs alike for what is owed and for what covers it.
LEMMA TickKeeps ==
    ASSUME CreditsInv, Tick
    PROVE  CreditsInv' /\ loop'.pc = loop.pc
<1> DEFINE age == IF loop.pc # "sleep" /\ loop.age < RetryTicks THEN loop.age + 1 ELSE loop.age
           p == [loop EXCEPT !.pend = Less(loop.pend), !.age = age]
<1>1. /\ due \in [KeyIds -> Dues] /\ fresh \in [KeyIds -> 0..MinTicks] /\ wait \in [KeyIds -> 0..RetryTicks]
      /\ loop \in Passes /\ loop.pend \in [KeyIds -> Dues \cup {None}] /\ loop.todo \subseteq KeyIds
  BY DEF CreditsInv, Passes
<1>2. ASSUME NEW n \in Nat, NEW f \in [KeyIds -> 0..n \cup {None}]
      PROVE  /\ Less(f) \in [KeyIds -> 0..n \cup {None}]
             /\ \A k \in KeyIds : Less(f)[k] = IF f[k] > 0 THEN f[k] - 1 ELSE f[k]
             /\ f \in [KeyIds -> 0..n] => Less(f) \in [KeyIds -> 0..n]
  BY Constants DEF Less
<1>3. /\ Less(due) \in [KeyIds -> Dues] /\ Less(fresh) \in [KeyIds -> 0..MinTicks]
      /\ Less(wait) \in [KeyIds -> 0..RetryTicks] /\ Less(loop.pend) \in [KeyIds -> Dues \cup {None}]
  <2>1. MaxDue \in Nat /\ MinTicks \in Nat /\ RetryTicks \in Nat
    BY Constants, Intervals
  <2>2. \A n : [KeyIds -> 0..n] \subseteq [KeyIds -> 0..n \cup {None}]
    OBVIOUS
  <2>3. QED
    BY <1>1, <1>2, <2>1, <2>2 DEF Dues
<1>4. age \in 0..RetryTicks
  BY <1>1, Constants DEF Passes
<1> HIDE DEF age
<1>5. /\ p \in Passes /\ p.pc = loop.pc /\ p.todo = loop.todo /\ p.pend = Less(loop.pend)
      /\ p.key = loop.key /\ p.count = loop.count
  BY <1>1, <1>3, <1>4 DEF Passes
<1>6. loop' = p /\ due' = Less(due) /\ fresh' = Less(fresh) /\ wait' = Less(wait) /\ UNCHANGED <<row, manual, acts>>
  BY DEF Tick, age
<1> HIDE DEF p
<1>7. Less(Unsaved) = Unsaved
  BY Constants DEF Less, Unsaved
<1>8. InStep(p)
  BY <1>5, <1>7 DEF CreditsInv, InStep
<1>9. \A k \in p.todo : Less(wait)[k] = 0
  BY <1>1, <1>5 DEF Less, CreditsInv, Owed
<1>10. ASSUME NEW k \in KeyIds, row[k] # Absent
       PROVE  Less(wait)[k] <= Coming(p, Less(due), k)
  <2>1. /\ wait[k] \in 0..RetryTicks /\ due[k] \in 0..MaxDue /\ loop.pend[k] \in 0..MaxDue \cup {None}
        /\ MaxDue \in Nat
    BY <1>1, Intervals DEF Dues
  <2>2. /\ Less(wait)[k] = IF wait[k] > 0 THEN wait[k] - 1 ELSE wait[k]
        /\ Less(due)[k] = IF due[k] > 0 THEN due[k] - 1 ELSE due[k]
        /\ p.pend[k] = IF loop.pend[k] > 0 THEN loop.pend[k] - 1 ELSE loop.pend[k]
    BY <1>1, <1>5 DEF Less
  <2>3. wait[k] <= (IF loop.pend[k] # None THEN loop.pend[k] ELSE due[k])
    BY <1>10 DEF CreditsInv, Owed, Coming
  <2>4. Less(wait)[k] <= (IF p.pend[k] # None THEN p.pend[k] ELSE Less(due)[k])
    BY <2>1, <2>2, <2>3, Constants
  <2>5. QED
    BY <2>4 DEF Coming
<1>11. Owed(p, row, Less(due), Less(wait))
  BY <1>9, <1>10 DEF Owed
<1>12. CreditsInv'
  BY <1>3, <1>5, <1>6, <1>8, <1>11 DEF CreditsInv
<1> QED
  BY <1>5, <1>6, <1>12
-----------------------------------------------------------------------------
\* Theorems.

\* Every step keeps the invariant, and a call that begins is owed no wait.
LEMMA CreditsStep ==
    ASSUME CreditsInv, [Next]_vars
    PROVE  CreditsInv' /\ (loop'.pc = "call" /\ loop.pc # "call" => wait[loop'.key] = 0)
<1> DEFINE Good == CreditsInv' /\ (loop'.pc = "call" /\ loop.pc # "call" => wait[loop'.key] = 0)
<1>1. LoopOutcomes \subseteq BOOLEAN /\ Outcomes \subseteq BOOLEAN
  BY OutcomesBoolean
<1>2. ASSUME LoopStep PROVE Good
  <2>1. CASE LoopStart
    <3>1. loop'.pc = "next"
      BY <2>1, Asleep DEF LoopStart, Passes
    <3>2. QED
      BY <2>1, <3>1, LoopStartKeeps
  <2>2. CASE LoopCall
    BY <2>2, LoopCallKeeps
  <2>3. ASSUME NEW ok \in LoopOutcomes, LoopLost(ok) PROVE Good
    BY <1>1, <2>3, LoopLostKeeps DEF LoopLost
  <2>4. ASSUME NEW ok \in LoopOutcomes, BatchCommit(ok) PROVE Good
    BY <1>1, <2>4, BatchCommitKeeps
  <2>5. ASSUME NEW ok \in LoopOutcomes, NEW level \in {"high", "low", "spent"}, LoopFetched(level, ok) PROVE Good
    <3>1. loop.pc = "call"
      BY <2>5 DEF LoopFetched
    <3>2. QED
      BY <1>1, <2>5, <3>1, LoopFetchedKeeps
  <2>6. ASSUME NEW ok \in LoopOutcomes, NEW failure \in {"decrypt", "401", "429", "unsent", "other"},
               LoopFailed(failure, ok)
        PROVE  Good
    <3>1. loop.pc = "call"
      BY <2>6 DEF LoopFailed
    <3>2. QED
      BY <1>1, <2>6, <3>1, LoopFailedKeeps
  <2> HIDE DEF Good
  <2>7. QED
    BY <1>2, <2>1, <2>2, <2>3, <2>4, <2>5, <2>6, Zenon DEF LoopStep
<1>3. ASSUME ManualStep PROVE Good
  <2>1. loop' = loop
    BY <1>3 DEF ManualStep, ManualStart, ManualFetched, ManualFailed
  <2>2. CreditsInv'
    BY <1>1, <1>3, ManualStartKeeps, ManualFetchedKeeps, ManualFailedKeeps, Zenon DEF ManualStep
  <2>3. QED
    BY <2>1, <2>2
<1>4. CASE Tick
  BY <1>4, TickKeeps
<1>5. CASE Restart
  <2>1. loop'.pc = "sleep"
    BY <1>5, Asleep DEF Restart, Abort
  <2>2. QED
    BY <1>5, <2>1, RestartKeeps
<1>6. ASSUME NEW k \in KeyIds, Administer(k) PROVE Good
  <2>1. loop' = loop
    BY <1>6 DEF Administer
  <2>2. QED
    BY <1>6, <2>1, AdministerKeeps
<1>7. CASE UNCHANGED vars
  BY <1>7 DEF vars, CreditsInv
<1> QED
  BY <1>2, <1>3, <1>4, <1>5, <1>6, <1>7 DEF Next

\* No key still to be fetched is owed a wait, and what a key is owed is
\* covered by its next_refresh_at, committed or held back in the session
\* (credit_refresh.py 92-147).
THEOREM CreditsInvariant == Spec => []CreditsInv
<1>1. Init => CreditsInv
  <2> SUFFICES ASSUME Init PROVE CreditsInv
    OBVIOUS
  <2>1. [active |-> TRUE, status |-> "active"] \in Rows
    BY RowKinds DEF FullRows, Statuses
  <2>2. [k \in KeyIds |-> 0] \in [KeyIds -> Dues]
    BY Intervals
  <2>3. \A k \in KeyIds : wait[k] = 0
    BY DEF Init
  <2>4. Owed(Sleeping, row, due, wait)
    BY <2>2, <2>3, Asleep, NothingOwed DEF Init
  <2>5. /\ [k \in KeyIds |-> 0] \in [KeyIds -> 0..MinTicks] /\ [k \in KeyIds |-> 0] \in [KeyIds -> 0..RetryTicks]
        /\ 0 \in 0..MaxActs
    BY Constants
  <2>6. QED
    BY <2>1, <2>2, <2>4, <2>5, Asleep DEF Init, CreditsInv
<1>2. CreditsInv /\ [Next]_vars => CreditsInv'
  BY CreditsStep
<1> QED
  BY <1>1, <1>2, PTL DEF Spec

\* Rows, times and the pass keep their form: no countdown and no retry delay
\* goes below zero, and a batch never exceeds its size.
THEOREM CreditsTypeOK == Spec => []TypeOK
<1>1. CreditsInv => TypeOK
  BY DEF CreditsInv, TypeOK, Passes, Refreshes, Dues
<1> QED
  BY <1>1, CreditsInvariant, PTL

\* A key whose call failed is not called again before the retry delay is over,
\* which counts from the start of the pass in which the call failed; a rollback
\* forgets the delays of its own session that were not committed yet, never a
\* committed one (credit_refresh.py 98, 117-147).
THEOREM CreditsRetryDelayed == Spec => RetryDelayed
<1>1. CreditsInv /\ [Next]_vars => [loop'.pc = "call" /\ loop.pc # "call" => wait[loop'.key] = 0]_vars
  BY CreditsStep
<1> QED
  BY <1>1, CreditsInvariant, PTL DEF Spec, RetryDelayed
=============================================================================
