-------------------------- MODULE GovernanceProofs -------------------------
(***************************************************************************)
(* Client governance is correct for every set of requests, finite or not,  *)
(* every limit, quota, lease lifetime and number of days, with either      *)
(* state backend and whatever fails.                                       *)
(***************************************************************************)
EXTENDS Governance, FiniteSetTheorems, TLAPS

\* The states of a request.
ReqStates == [pc : {"idle", "gate", "limiter", "quota", "handler", "account", "exit", "done"},
              result : Results, usage : Nat, day : 0..MaxDay]

\* The ways out that leave everything but the request as it is.
Ends(r) ==
    /\ req' = [req EXCEPT ![r] = Over]
    /\ UNCHANGED <<redis, client, lease, today, leaked, served, late>>

\* The steps within a request that change nothing else, and where they lead.
Moves(r) ==
    /\ \E pc \in {"quota", "exit"} : req' = [req EXCEPT ![r].pc = pc]
    /\ UNCHANGED <<redis, client, lease, today, leaked, served, late>>

LEMMA QuietSteps ==
    ASSUME NEW r
    PROVE  /\ LimitsRefuse(r) \/ ClientRefused(r) => At(r, "idle") /\ Ends(r)
           /\ AcquireRaises(r) => At(r, "gate") /\ Ends(r)
           /\ LimiterAllows(r) => At(r, "limiter") /\ Moves(r)
           /\ NotServed(r) => At(r, "handler") /\ Moves(r)
BY DEF LimitsRefuse, ClientRefused, AcquireRaises, LimiterAllows, NotServed, Ends, Moves, Goes

\* The assumptions on the constants, one by one.
LEMMA Constants ==
    /\ RedisModes \subseteq BOOLEAN
    /\ MaxConcurrent \in Nat \ {0} /\ LeaseTtl \in Nat \ {0}
    /\ Quota \in Nat /\ MaxDay \in Nat /\ InitUsage \in 0..Quota
BY GovernanceAssumption

LEMMA OverTyped ==
    /\ Blank \in ReqStates
    /\ Over \in ReqStates /\ Over.pc = "done" /\ Over.result = "over" /\ Over.usage = 0 /\ Over.day = 0
<1>1. 0 \in 0..MaxDay
  BY Constants
<1>2. Blank \in ReqStates
  BY <1>1 DEF Blank, ReqStates, Results
<1>3. Over \in ReqStates /\ Over.pc = "done" /\ Over.result = "over"
        /\ Over.usage = Blank.usage /\ Over.day = Blank.day
  BY <1>2 DEF Over, ReqStates, Results
<1>4. QED
  BY <1>2, <1>3 DEF Blank

\* What the release of a slot does to the types.
LEMMA ReturnedTyped ==
    ASSUME TypeOK, NEW r \in Requests, NEW ok, Returned(r, ok)
    PROVE  lease' \in [Requests -> 0..LeaseTtl] /\ leaked' \subseteq Requests
<1>1. 0 \in 0..LeaseTtl
  BY Constants
<1>2. QED
  BY <1>1 DEF TypeOK, Returned, Live

\* Type correctness: leases never outlive LeaseTtl, the history counter of
\* the day never passes the quota, and sessions hold usages that are counts
\* (deps.py 83-165).
THEOREM GovernanceTypeOK == Spec => []TypeOK
<1>init. Init => TypeOK
  <2>1. 0 \in 0..MaxDay /\ 0 \in 0..LeaseTtl /\ InitUsage \in Nat /\ InitUsage \in 0..Quota
    BY Constants
  <2> SUFFICES ASSUME Init PROVE TypeOK
    OBVIOUS
  <2>2. client \in [usage : Nat, day : 0..MaxDay] /\ lease \in [Requests -> 0..LeaseTtl]
    BY <2>1 DEF Init
  <2>3. req \in [Requests -> ReqStates]
    BY OverTyped DEF Init
  <2>4. QED
    BY <2>1, <2>2, <2>3 DEF Init, TypeOK, ReqStates
<1>step. TypeOK /\ [Next]_vars => TypeOK'
  <2> SUFFICES ASSUME TypeOK, [Next]_vars PROVE TypeOK'
    OBVIOUS
  <2>typed. /\ redis \in RedisModes /\ client \in [usage : Nat, day : 0..MaxDay]
            /\ lease \in [Requests -> 0..LeaseTtl] /\ req \in [Requests -> ReqStates]
            /\ today \in 0..MaxDay /\ leaked \subseteq Requests
            /\ served \in 0..Quota /\ late \in BOOLEAN
    BY DEF TypeOK, ReqStates
  <2>goal. ASSUME redis' = redis, client' \in [usage : Nat, day : 0..MaxDay],
                  lease' \in [Requests -> 0..LeaseTtl], req' \in [Requests -> ReqStates],
                  today' \in 0..MaxDay, leaked' \subseteq Requests,
                  served' \in 0..Quota, late' \in BOOLEAN
           PROVE  TypeOK'
    BY <2>goal, <2>typed DEF TypeOK, ReqStates
  <2>over. ASSUME NEW r \in Requests, req' = [req EXCEPT ![r] = Over]
           PROVE  req' \in [Requests -> ReqStates]
    BY <2>over, <2>typed, OverTyped
  <2>consts. MaxDay \in Nat /\ Quota \in Nat /\ LeaseTtl \in Nat \ {0}
    BY Constants
  <2>stutter. CASE UNCHANGED vars
    BY <2>stutter, <2>typed, <2>goal DEF vars
  <2>ends. ASSUME NEW r \in Requests, Ends(r)
        PROVE  TypeOK'
    BY <2>ends, <2>over, <2>typed, <2>goal DEF Ends
  <2>moves. ASSUME NEW r \in Requests, Moves(r)
        PROVE  TypeOK'
    <3>1. req' \in [Requests -> ReqStates]
      BY <2>moves, <2>typed DEF Moves, ReqStates
    <3>2. QED
      BY <3>1, <2>moves, <2>typed, <2>goal DEF Moves
  <2>found. ASSUME NEW r \in Requests, ClientFound(r)
        PROVE  TypeOK'
    <3>1. [Blank EXCEPT !.pc = "gate", !.usage = client.usage, !.day = client.day] \in ReqStates
      BY <2>typed DEF Blank, ReqStates, Results
    <3>2. QED
      BY <3>1, <2>found, <2>typed, <2>goal DEF ClientFound
  <2>acquire. ASSUME NEW r \in Requests, Acquire(r)
        PROVE  TypeOK'
    <3>1. CASE Cardinality(Live) >= MaxConcurrent
      BY <3>1, <2>acquire, <2>over, <2>typed, <2>goal DEF Acquire
    <3>2. CASE ~(Cardinality(Live) >= MaxConcurrent)
      <4>1. lease' \in [Requests -> 0..LeaseTtl]
        BY <3>2, <2>acquire, <2>typed, <2>consts DEF Acquire
      <4>2. req' \in [Requests -> ReqStates]
        BY <3>2, <2>acquire, <2>typed DEF Acquire, Goes, ReqStates
      <4>3. QED
        BY <4>1, <4>2, <2>acquire, <2>typed, <2>goal DEF Acquire
    <3>3. QED
      BY <3>1, <3>2
  <2>refuses. ASSUME NEW r \in Requests, NEW ok \in Outcomes, LimiterRefuses(r, ok)
        PROVE  TypeOK'
    BY <2>refuses, <2>over, <2>typed, <2>goal, ReturnedTyped DEF LimiterRefuses
  <2>raises. ASSUME NEW r \in Requests, LimiterRaises(r) \/ Crash(r)
        PROVE  TypeOK'
    BY <2>raises, <2>over, <2>typed, <2>goal DEF LimiterRaises, Crash
  <2>quota. ASSUME NEW r \in Requests, NEW ok \in Outcomes, CheckQuota(r, ok)
        PROVE  TypeOK'
    <3> DEFINE stale == req[r].day # today
               now == IF stale THEN ClientReset(r) ELSE client
               used == IF stale THEN now.usage ELSE req[r].usage
    <3>1. now \in [usage : Nat, day : 0..MaxDay] /\ used \in Nat
      BY <2>typed DEF ClientReset, ReqStates
    <3>2. client' = now /\ redis' = redis /\ today' = today /\ served' = served /\ late' = late
      BY <2>quota DEF CheckQuota
    <3>3. CASE used >= Quota
      <4>1. Returned(r, ok) /\ req' = [req EXCEPT ![r] = [Over EXCEPT !.result = "CLIENT_QUOTA_EXCEEDED", !.day = today]]
        BY <3>3, <2>quota DEF CheckQuota
      <4>2. [Over EXCEPT !.result = "CLIENT_QUOTA_EXCEEDED", !.day = today] \in ReqStates
        BY <2>typed, OverTyped DEF ReqStates, Results
      <4>3. QED
        BY <3>1, <3>2, <4>1, <4>2, <2>typed, <2>goal, ReturnedTyped
    <3>4. CASE ~(used >= Quota)
      <4>1. req' = [req EXCEPT ![r].pc = "handler", ![r].usage = used, ![r].day = today]
            /\ lease' = lease /\ leaked' = leaked
        BY <3>4, <2>quota DEF CheckQuota
      <4>2. [req[r] EXCEPT !.pc = "handler", !.usage = used, !.day = today] \in ReqStates
        BY <3>1, <2>typed DEF ReqStates
      <4>3. req' = [req EXCEPT ![r] = [req[r] EXCEPT !.pc = "handler", !.usage = used, !.day = today]]
        BY <4>1, <2>typed
      <4>4. req' \in [Requests -> ReqStates]
        BY <4>2, <4>3, <2>typed
      <4>5. QED
        BY <3>1, <3>2, <4>1, <4>4, <2>typed, <2>goal
    <3>5. QED
      BY <3>3, <3>4
  <2>quotaFails. ASSUME NEW r \in Requests, NEW ok \in Outcomes, CheckQuotaFails(r, ok)
        PROVE  TypeOK'
    BY <2>quotaFails, <2>over, <2>typed, <2>goal, ReturnedTyped DEF CheckQuotaFails
  <2>answered. ASSUME NEW r \in Requests, Answered(r)
        PROVE  TypeOK'
    <3>1. PICK used \in {req[r].usage, client.usage} :
             req' = [req EXCEPT ![r].pc = "account", ![r].usage = used]
      BY <2>answered DEF Answered
    <3>2. req' \in [Requests -> ReqStates]
      BY <3>1, <2>typed DEF ReqStates
    <3>3. QED
      BY <3>2, <2>answered, <2>typed, <2>goal DEF Answered
  <2>account. ASSUME NEW r \in Requests, NEW ok \in Outcomes, Account(r, ok)
        PROVE  TypeOK'
    <3>1. client' \in [usage : Nat, day : 0..MaxDay]
      BY <2>account, <2>typed DEF Account, ReqStates
    <3>2. req' \in [Requests -> ReqStates]
      BY <2>account, <2>typed DEF Account, Goes, ReqStates
    <3>3. served' \in 0..Quota
      BY <2>account, <2>typed, <2>consts DEF Account
    <3>4. QED
      BY <3>1, <3>2, <3>3, <2>account, <2>typed, <2>goal DEF Account
  <2>leave. ASSUME NEW r \in Requests, NEW ok \in Outcomes, Leave(r, ok)
        PROVE  TypeOK'
    BY <2>leave, <2>over, <2>typed, <2>goal, ReturnedTyped DEF Leave
  <2>tick. CASE Tick
    <3>1. lease' \in [Requests -> 0..LeaseTtl]
      BY <2>tick, <2>typed, <2>consts DEF Tick
    <3>2. QED
      BY <3>1, <2>tick, <2>typed, <2>goal DEF Tick
  <2>newday. CASE NewDay
    BY <2>newday, <2>typed, <2>consts, <2>goal DEF NewDay
  <2>quiet. CASE Quiet
    BY <2>quiet, <2>stutter DEF Quiet
  <2> QED
    BY <2>stutter, <2>ends, <2>moves, <2>found, <2>acquire, <2>refuses, <2>raises, <2>quota,
       <2>quotaFails, <2>answered, <2>account, <2>leave, <2>tick, <2>newday, <2>quiet, QuietSteps
       DEF Next, Step
<1> QED
  BY <1>init, <1>step, PTL DEF Spec
-----------------------------------------------------------------------------
\* What the release of r's slot, followed by the end of r, leaves of the live
\* slots: r's own is gone, or it stays in Redis and is known to be leaked.
LEMMA ReturnedSlots ==
    ASSUME TypeOK, NEW r \in Requests, NEW ok, Returned(r, ok), redis' = redis
    PROVE  /\ Live' \subseteq Live
           /\ leaked \subseteq leaked'
           /\ r \in Live' => redis' /\ r \in leaked'
BY DEF TypeOK, Returned, Live

\* A slot that outlives its request was left in Redis by a failed release, a
\* limiter that raised or a process that died: the refusals of the limiter
\* and of the quota, the errors and the answers all give it back, and the
\* in-process gate never loses one (deps.py 95-164, concurrency.py 74-150).
THEOREM GovernanceLeakExplained == Spec => []LeakExplained
<1>init. Init => LeakExplained
  BY DEF Init, LeakExplained, Live
<1>step. TypeOK /\ LeakExplained /\ [Next]_vars => LeakExplained'
  <2> SUFFICES ASSUME TypeOK, LeakExplained, [Next]_vars PROVE LeakExplained'
    OBVIOUS
  <2>typed. lease \in [Requests -> 0..LeaseTtl] /\ req \in [Requests -> ReqStates] /\ leaked \subseteq Requests
    BY DEF TypeOK, ReqStates
  <2>over. ASSUME NEW r \in Requests, req' = [req EXCEPT ![r] = Over], redis' = redis,
                  Live' \subseteq Live, leaked \subseteq leaked',
                  r \in Live' => redis' /\ r \in leaked'
           PROVE  LeakExplained'
    BY <2>over, <2>typed DEF LeakExplained, Running, Live
  <2>unslotted. ASSUME NEW r \in Requests, At(r, "idle") \/ At(r, "gate")
           PROVE  r \in Live => redis /\ r \in leaked
    BY <2>unslotted DEF LeakExplained, Running, At
  <2>stutter. CASE UNCHANGED vars
    BY <2>stutter DEF vars, LeakExplained, Live, Running
  <2>ends. ASSUME NEW r \in Requests, At(r, "idle") \/ At(r, "gate"), Ends(r)
        PROVE  LeakExplained'
    BY <2>ends, <2>over, <2>unslotted DEF Ends, Live
  <2>moves. ASSUME NEW r \in Requests, Moves(r)
        PROVE  LeakExplained'
    BY <2>moves, <2>typed DEF Moves, LeakExplained, Live, Running, ReqStates
  <2>found. ASSUME NEW r \in Requests, ClientFound(r)
        PROVE  LeakExplained'
    BY <2>found, <2>typed, <2>unslotted DEF ClientFound, LeakExplained, Live, Running
  <2>acquire. ASSUME NEW r \in Requests, Acquire(r)
        PROVE  LeakExplained'
    <3>1. CASE Cardinality(Live) >= MaxConcurrent
      BY <3>1, <2>acquire, <2>over, <2>unslotted DEF Acquire, Live
    <3>2. CASE ~(Cardinality(Live) >= MaxConcurrent)
      <4>1. /\ lease' = [lease EXCEPT ![r] = LeaseTtl] /\ req' = [req EXCEPT ![r].pc = "limiter"]
            /\ redis' = redis /\ leaked' = leaked
        BY <3>2, <2>acquire DEF Acquire, Goes
      <4>2. QED
        BY <4>1, <2>typed DEF LeakExplained, Live, Running, ReqStates
    <3>3. QED
      BY <3>1, <3>2
  <2>refuses. ASSUME NEW r \in Requests, NEW ok \in Outcomes, LimiterRefuses(r, ok)
        PROVE  LeakExplained'
    BY <2>refuses, <2>over, ReturnedSlots DEF LimiterRefuses
  <2>raises. ASSUME NEW r \in Requests, LimiterRaises(r) \/ Crash(r)
        PROVE  LeakExplained'
    BY <2>raises, <2>over DEF LimiterRaises, Crash, Live
  <2>quota. ASSUME NEW r \in Requests, NEW ok \in Outcomes, CheckQuota(r, ok)
        PROVE  LeakExplained'
    <3>1. redis' = redis
      BY <2>quota DEF CheckQuota
    <3>2. CASE /\ Returned(r, ok)
               /\ req' = [req EXCEPT ![r] = [Over EXCEPT !.result = "CLIENT_QUOTA_EXCEEDED", !.day = today]]
      BY <3>1, <3>2, <2>typed, ReturnedSlots DEF LeakExplained, Live, Running
    <3>3. CASE /\ \E used : req' = [req EXCEPT ![r].pc = "handler", ![r].usage = used, ![r].day = today]
               /\ lease' = lease /\ leaked' = leaked
      BY <3>1, <3>3, <2>typed DEF LeakExplained, Live, Running, ReqStates
    <3>4. QED
      BY <2>quota, <3>2, <3>3 DEF CheckQuota
  <2>quotaFails. ASSUME NEW r \in Requests, NEW ok \in Outcomes, CheckQuotaFails(r, ok)
        PROVE  LeakExplained'
    BY <2>quotaFails, <2>over, ReturnedSlots DEF CheckQuotaFails
  <2>answered. ASSUME NEW r \in Requests, Answered(r)
        PROVE  LeakExplained'
    BY <2>answered, <2>typed DEF Answered, LeakExplained, Live, Running, ReqStates
  <2>account. ASSUME NEW r \in Requests, NEW ok \in Outcomes, Account(r, ok)
        PROVE  LeakExplained'
    BY <2>account, <2>typed DEF Account, Goes, LeakExplained, Live, Running, ReqStates
  <2>leave. ASSUME NEW r \in Requests, NEW ok \in Outcomes, Leave(r, ok)
        PROVE  LeakExplained'
    BY <2>leave, <2>over, ReturnedSlots DEF Leave
  <2>tick. CASE Tick
    BY <2>tick, <2>typed DEF Tick, LeakExplained, Live, Running
  <2>newday. CASE NewDay
    BY <2>newday DEF NewDay, LeakExplained, Live, Running
  <2>quiet. CASE Quiet
    BY <2>quiet, <2>stutter DEF Quiet
  <2> QED
    BY <2>stutter, <2>ends, <2>moves, <2>found, <2>acquire, <2>refuses, <2>raises, <2>quota,
       <2>quotaFails, <2>answered, <2>account, <2>leave, <2>tick, <2>newday, <2>quiet, QuietSteps
       DEF Next, Step
<1> QED
  BY <1>init, <1>step, GovernanceTypeOK, PTL DEF Spec
-----------------------------------------------------------------------------
\* The slots of the client, leaked ones included, are never more than
\* max_concurrent.
SlotsWithinLimit == IsFiniteSet(Live) /\ Cardinality(Live) <= MaxConcurrent

\* How a step changes the slots: it takes one that is free, or none.
LEMMA SlotSteps ==
    ASSUME TypeOK, [Next]_vars
    PROVE  \/ Live' \subseteq Live
           \/ ~(Cardinality(Live) >= MaxConcurrent) /\ \E r \in Requests : Live' = Live \cup {r}
<1>typed. lease \in [Requests -> 0..LeaseTtl] /\ LeaseTtl \in Nat \ {0}
  BY Constants DEF TypeOK
<1>same. CASE UNCHANGED lease
  BY <1>same DEF Live
<1>acquire. ASSUME NEW r \in Requests, lease' = [lease EXCEPT ![r] = LeaseTtl]
      PROVE  Live' = Live \cup {r}
  BY <1>acquire, <1>typed DEF Live
<1>return. ASSUME NEW r \in Requests, NEW ok, Returned(r, ok)
      PROVE  Live' \subseteq Live
  BY <1>return, <1>typed DEF Returned, Live
<1>tick. CASE Tick
  BY <1>tick, <1>typed DEF Tick, Live
<1>step. ASSUME NEW r \in Requests, Step(r) \/ Crash(r)
      PROVE  \/ UNCHANGED lease \/ \E ok : Returned(r, ok)
             \/ ~(Cardinality(Live) >= MaxConcurrent) /\ lease' = [lease EXCEPT ![r] = LeaseTtl]
  BY <1>step DEF Step, Crash, LimitsRefuse, ClientRefused, ClientFound, Acquire, AcquireRaises, LimiterAllows,
       LimiterRaises, Answered, NotServed, LimiterRefuses, CheckQuota, CheckQuotaFails, Account, Leave
<1> QED
  BY <1>same, <1>acquire, <1>return, <1>tick, <1>step DEF Next, NewDay, Quiet, vars

\* However requests end, expire and are leaked, and whoever acquires in
\* between, the gate lets no more than max_concurrent slots be taken
\* (concurrency.py 33-48 and 96-131).
THEOREM GovernanceSlots == Spec => []SlotsWithinLimit
<1>init. Init => SlotsWithinLimit
  <2> SUFFICES ASSUME Init PROVE SlotsWithinLimit
    OBVIOUS
  <2>1. Live = {}
    BY DEF Init, Live
  <2>2. QED
    BY <2>1, FS_EmptySet, Constants DEF SlotsWithinLimit
<1>step. TypeOK /\ SlotsWithinLimit /\ [Next]_vars => SlotsWithinLimit'
  <2> SUFFICES ASSUME TypeOK, SlotsWithinLimit, [Next]_vars PROVE SlotsWithinLimit'
    OBVIOUS
  <2>fin. IsFiniteSet(Live) /\ Cardinality(Live) \in Nat /\ Cardinality(Live) <= MaxConcurrent /\ MaxConcurrent \in Nat
    BY FS_CardinalityType, Constants DEF SlotsWithinLimit
  <2>fewer. CASE Live' \subseteq Live
    <3>1. IsFiniteSet(Live') /\ Cardinality(Live') <= Cardinality(Live)
      BY <2>fewer, <2>fin, FS_Subset
    <3>2. Cardinality(Live') \in Nat
      BY <3>1, FS_CardinalityType
    <3>3. QED
      BY <3>1, <3>2, <2>fin DEF SlotsWithinLimit
  <2>more. ASSUME NEW r \in Requests, Live' = Live \cup {r}, ~(Cardinality(Live) >= MaxConcurrent)
        PROVE  SlotsWithinLimit'
    <3>1. IsFiniteSet(Live') /\ Cardinality(Live') = IF r \in Live THEN Cardinality(Live) ELSE Cardinality(Live) + 1
      BY <2>more, <2>fin, FS_AddElement
    <3>2. QED
      BY <3>1, <2>more, <2>fin DEF SlotsWithinLimit
  <2> QED
    BY <2>fewer, <2>more, SlotSteps
<1> QED
  BY <1>init, <1>step, GovernanceTypeOK, PTL DEF Spec
-----------------------------------------------------------------------------
\* The refusals for the daily quota.  The row may say more than was counted
\* only when the quota is reached anyway.
Counted(n) == n <= served \/ served = Quota

\* The row, once it is dated today.
RowCounted == client.day <= today /\ (client.day = today => Counted(client.usage))

\* A request before the check of the quota holds a usage of today, or an older
\* one that nobody has changed since.
WaiterCounted(r) ==
    req[r].pc \in {"gate", "limiter", "quota"} =>
        IF req[r].day = today THEN client.day = today /\ Counted(req[r].usage)
        ELSE client.day # today => req[r].usage = client.usage

\* A request past it has found or made a row of today.
AdmittedCounted(r) ==
    req[r].pc \in {"handler", "account"} => req[r].day = today /\ client.day = today /\ Counted(req[r].usage)

RefusedCounted(r) ==
    /\ req[r].day <= today
    /\ req[r].result = "CLIENT_QUOTA_EXCEEDED" => req[r].pc = "done" /\ (req[r].day = today => served = Quota)

ReqCounted(r) == WaiterCounted(r) /\ AdmittedCounted(r) /\ RefusedCounted(r)

\* While no request has been under way at midnight.
UsageInv == ~late => RowCounted /\ \A r \in Requests : ReqCounted(r)

\* The counts, if no request was under way at midnight, are what the refusals
\* go by: two requests that overwrite each other's usage only lose counts, and
\* the reset of a new day neither keeps yesterday's nor loses today's
\* (deps.py 127-146, forwarder.py 1029-1034).
THEOREM GovernanceUsage == Spec => []UsageInv
<1> USE DEF Counted
<1>init. Init => UsageInv
  <2> SUFFICES ASSUME Init PROVE UsageInv
    OBVIOUS
  <2>1. client.usage = InitUsage /\ client.day = 0 /\ today = 0 /\ served = InitUsage /\ InitUsage \in Nat
    BY Constants DEF Init
  <2>2. ASSUME NEW r \in Requests PROVE req[r].pc = "idle" /\ req[r].day = 0 /\ req[r].result = "pending"
    BY DEF Init, Blank
  <2>3. RowCounted
    BY <2>1 DEF RowCounted
  <2>4. ASSUME NEW r \in Requests PROVE ReqCounted(r)
    BY <2>1, <2>2 DEF ReqCounted, WaiterCounted, AdmittedCounted, RefusedCounted
  <2>5. QED
    BY <2>3, <2>4 DEF UsageInv
<1>step. TypeOK /\ TypeOK' /\ UsageInv /\ [Next]_vars => UsageInv'
  <2> SUFFICES ASSUME TypeOK, TypeOK', UsageInv, [Next]_vars, ~late'
               PROVE  (RowCounted /\ \A q \in Requests : ReqCounted(q))'
    BY DEF UsageInv
  <2>typed. /\ client.usage \in Nat /\ client.day \in Nat /\ req \in [Requests -> ReqStates]
            /\ today \in Nat /\ served \in 0..Quota /\ Quota \in Nat
            /\ \A q \in Requests : req[q].usage \in Nat /\ req[q].day \in Nat
    BY Constants DEF TypeOK, ReqStates
  <2>inv. late \/ (RowCounted /\ \A q \in Requests : ReqCounted(q))
    BY DEF UsageInv
  <2>frame. ASSUME NEW r \in Requests, UNCHANGED <<client, today, served, late>>, NEW x,
                   req' = [req EXCEPT ![r] = x], ReqCounted(r)'
        PROVE  (RowCounted /\ \A q \in Requests : ReqCounted(q))'
    <3>1. ASSUME NEW q \in Requests, q # r PROVE ReqCounted(q)'
      BY <3>1, <2>frame, <2>typed, <2>inv DEF ReqCounted, WaiterCounted, AdmittedCounted, RefusedCounted
    <3>2. RowCounted'
      BY <2>frame, <2>inv DEF RowCounted
    <3>3. QED
      BY <3>1, <3>2, <2>frame
  <2>over. ASSUME NEW r \in Requests, UNCHANGED <<client, today, served, late>>, req' = [req EXCEPT ![r] = Over]
        PROVE  (RowCounted /\ \A q \in Requests : ReqCounted(q))'
    <3>1. req'[r] = Over
      BY <2>over, <2>typed
    <3>2. ReqCounted(r)'
      BY <3>1, <2>over, <2>typed, OverTyped DEF ReqCounted, WaiterCounted, AdmittedCounted, RefusedCounted
    <3>3. QED
      BY <3>2, <2>over, <2>frame
  <2>stutter. CASE UNCHANGED vars
    BY <2>stutter, <2>inv DEF vars, RowCounted, ReqCounted, WaiterCounted, AdmittedCounted, RefusedCounted
  <2>ends. ASSUME NEW r \in Requests, Ends(r)
        PROVE  (RowCounted /\ \A q \in Requests : ReqCounted(q))'
    BY <2>ends, <2>over DEF Ends
  <2>moves. ASSUME NEW r \in Requests, LimiterAllows(r) \/ NotServed(r)
        PROVE  (RowCounted /\ \A q \in Requests : ReqCounted(q))'
    <3>1. \E pc : /\ req' = [req EXCEPT ![r] = [req[r] EXCEPT !.pc = pc]]
                  /\ (pc = "exit" /\ At(r, "handler")) \/ (pc = "quota" /\ At(r, "limiter"))
      BY <2>moves, <2>typed DEF LimiterAllows, NotServed, Goes
    <3>2. /\ req'[r].usage = req[r].usage /\ req'[r].day = req[r].day /\ req'[r].result = req[r].result
          /\ (req'[r].pc = "exit" /\ req[r].pc = "handler") \/ (req'[r].pc = "quota" /\ req[r].pc = "limiter")
      BY <3>1, <2>typed DEF ReqStates, At
    <3>3. UNCHANGED <<client, today, served, late>>
      BY <2>moves DEF LimiterAllows, NotServed
    <3>4. ReqCounted(r)'
      BY <3>2, <3>3, <2>inv DEF ReqCounted, WaiterCounted, AdmittedCounted, RefusedCounted
    <3>5. QED
      BY <3>1, <3>3, <3>4, <2>frame
  <2>found. ASSUME NEW r \in Requests, ClientFound(r)
        PROVE  (RowCounted /\ \A q \in Requests : ReqCounted(q))'
    <3> DEFINE x == [Blank EXCEPT !.pc = "gate", !.usage = client.usage, !.day = client.day]
    <3>1. req' = [req EXCEPT ![r] = x] /\ UNCHANGED <<client, today, served, late>>
      BY <2>found DEF ClientFound
    <3>2. x.pc = "gate" /\ x.usage = client.usage /\ x.day = client.day /\ x.result = "pending"
      BY DEF Blank
    <3>3. req'[r] = x
      BY <3>1, <2>typed
    <3>4. ReqCounted(r)'
      BY <3>1, <3>2, <3>3, <2>inv DEF ReqCounted, WaiterCounted, AdmittedCounted, RefusedCounted, RowCounted
    <3>5. QED
      BY <3>1, <3>4, <2>frame
  <2>acquire. ASSUME NEW r \in Requests, Acquire(r)
        PROVE  (RowCounted /\ \A q \in Requests : ReqCounted(q))'
    <3>1. UNCHANGED <<client, today, served, late>>
      BY <2>acquire DEF Acquire
    <3>2. CASE req' = [req EXCEPT ![r] = Over]
      BY <3>1, <3>2, <2>over
    <3>3. CASE Goes(r, "limiter")
      <4>1. req' = [req EXCEPT ![r] = [req[r] EXCEPT !.pc = "limiter"]]
        BY <3>3, <2>typed DEF Goes
      <4>2. /\ req'[r].usage = req[r].usage /\ req'[r].day = req[r].day /\ req'[r].result = req[r].result
            /\ req'[r].pc = "limiter" /\ req[r].pc = "gate"
        BY <4>1, <2>acquire, <2>typed DEF ReqStates, Acquire, At
      <4>3. ReqCounted(r)'
        BY <3>1, <4>2, <2>inv DEF ReqCounted, WaiterCounted, AdmittedCounted, RefusedCounted
      <4>4. QED
        BY <3>1, <4>1, <4>3, <2>frame
    <3>4. QED
      BY <2>acquire, <3>2, <3>3 DEF Acquire
  <2>returns. ASSUME NEW r \in Requests, NEW ok \in Outcomes,
                     LimiterRefuses(r, ok) \/ CheckQuotaFails(r, ok) \/ Leave(r, ok)
        PROVE  (RowCounted /\ \A q \in Requests : ReqCounted(q))'
    BY <2>returns, <2>over DEF LimiterRefuses, CheckQuotaFails, Leave
  <2>raises. ASSUME NEW r \in Requests, LimiterRaises(r) \/ Crash(r)
        PROVE  (RowCounted /\ \A q \in Requests : ReqCounted(q))'
    BY <2>raises, <2>over DEF LimiterRaises, Crash
  <2>quota. ASSUME NEW r \in Requests, NEW ok \in Outcomes, CheckQuota(r, ok)
        PROVE  (RowCounted /\ \A q \in Requests : ReqCounted(q))'
    <3> DEFINE stale == req[r].day # today
               now == IF stale THEN ClientReset(r) ELSE client
               used == IF stale THEN now.usage ELSE req[r].usage
    <3>1. client' = now /\ today' = today /\ served' = served /\ late' = late /\ req[r].pc = "quota"
      BY <2>quota DEF CheckQuota, At
    <3>2. RowCounted /\ ReqCounted(r)
      BY <3>1, <2>inv
    <3>3. now.day = today /\ now.usage \in Nat /\ Counted(now.usage) /\ used \in Nat /\ Counted(used)
      <4>1. CASE stale
        BY <4>1, <3>1, <3>2, <2>typed DEF ClientReset, RowCounted, ReqCounted, WaiterCounted
      <4>2. CASE ~stale
        BY <4>2, <3>1, <3>2, <2>typed DEF RowCounted, ReqCounted, WaiterCounted
      <4>3. QED
        BY <4>1, <4>2
    <3>4. RowCounted'
      BY <3>1, <3>3, <2>typed DEF RowCounted
    <3>5. PICK x : /\ req' = [req EXCEPT ![r] = x]
                   /\ \/ /\ x.pc = "done" /\ x.day = today /\ used >= Quota
                      \/ /\ x.pc = "handler" /\ x.day = today /\ x.usage = used /\ x.result = req[r].result
      <4>1. CASE /\ used >= Quota
                 /\ req' = [req EXCEPT ![r] = [Over EXCEPT !.result = "CLIENT_QUOTA_EXCEEDED", !.day = today]]
        <5> DEFINE y == [Over EXCEPT !.result = "CLIENT_QUOTA_EXCEEDED", !.day = today]
        <5>1. y.pc = "done" /\ y.day = today
          BY OverTyped DEF ReqStates
        <5>2. QED
          BY <4>1, <5>1
      <4>2. CASE req' = [req EXCEPT ![r].pc = "handler", ![r].usage = used, ![r].day = today]
        <5> DEFINE y == [req[r] EXCEPT !.pc = "handler", !.usage = used, !.day = today]
        <5>1. y.pc = "handler" /\ y.usage = used /\ y.day = today /\ y.result = req[r].result
          BY <2>typed DEF ReqStates
        <5>2. req' = [req EXCEPT ![r] = y]
          BY <4>2, <2>typed
        <5>3. QED
          BY <5>1, <5>2
      <4>3. QED
        BY <4>1, <4>2, <2>quota DEF CheckQuota
    <3>6. req'[r] = x
      BY <3>5, <2>typed
    <3>7. ReqCounted(r)'
      <4>1. client'.day = today /\ RefusedCounted(r)
        BY <3>1, <3>2, <3>3 DEF ReqCounted
      <4>2. CASE x.pc = "done" /\ x.day = today /\ used >= Quota
        <5>1. served = Quota
          BY <4>2, <3>3, <2>typed
        <5>2. QED
          BY <5>1, <4>2, <3>1, <3>6, <2>typed DEF ReqCounted, WaiterCounted, AdmittedCounted, RefusedCounted
      <4>3. CASE x.pc = "handler" /\ x.day = today /\ x.usage = used /\ x.result = req[r].result
        <5>1. x.result # "CLIENT_QUOTA_EXCEEDED"
          BY <4>1, <4>3, <3>1 DEF RefusedCounted
        <5>2. QED
          BY <5>1, <4>1, <4>3, <3>1, <3>3, <3>6, <2>typed DEF ReqCounted, WaiterCounted, AdmittedCounted, RefusedCounted
      <4>4. QED
        BY <4>2, <4>3, <3>5
    <3>8. ASSUME NEW q \in Requests, q # r PROVE ReqCounted(q)'
      <4>1. req'[q] = req[q] /\ ReqCounted(q)
        BY <3>1, <3>5, <3>8, <2>typed, <2>inv
      <4>2. QED
        BY <4>1, <3>1, <3>3 DEF ReqCounted, WaiterCounted, AdmittedCounted, RefusedCounted
    <3>9. QED
      BY <3>4, <3>7, <3>8
  <2>answered. ASSUME NEW r \in Requests, Answered(r)
        PROVE  (RowCounted /\ \A q \in Requests : ReqCounted(q))'
    <3>1. PICK used \in {req[r].usage, client.usage} :
             req' = [req EXCEPT ![r].pc = "account", ![r].usage = used]
      BY <2>answered DEF Answered
    <3>2. req' = [req EXCEPT ![r] = [req[r] EXCEPT !.pc = "account", !.usage = used]]
      BY <3>1, <2>typed
    <3>3. req'[r].pc = "account" /\ req'[r].usage = used /\ req'[r].day = req[r].day /\ req'[r].result = req[r].result
      BY <3>2, <2>typed DEF ReqStates
    <3>4. UNCHANGED <<client, today, served, late>> /\ req[r].pc = "handler"
      BY <2>answered DEF Answered, At
    <3>5. ReqCounted(r)'
      BY <3>3, <3>4, <2>inv, <2>typed DEF ReqCounted, WaiterCounted, AdmittedCounted, RefusedCounted, RowCounted
    <3>6. QED
      BY <3>2, <3>4, <3>5, <2>frame
  <2>account. ASSUME NEW r \in Requests, NEW ok \in Outcomes, Account(r, ok)
        PROVE  (RowCounted /\ \A q \in Requests : ReqCounted(q))'
    <3>1. req' = [req EXCEPT ![r] = [req[r] EXCEPT !.pc = "exit"]]
      BY <2>account, <2>typed DEF Account, Goes
    <3>2. req'[r].pc = "exit" /\ req'[r].day = req[r].day /\ req'[r].result = req[r].result
      BY <3>1, <2>typed DEF ReqStates
    <3>3. today' = today /\ late' = late /\ req[r].pc = "account"
      BY <2>account DEF Account, At
    <3>4. client.day = today /\ Counted(req[r].usage)
      BY <3>3, <2>inv DEF ReqCounted, AdmittedCounted
    <3>5. CASE UNCHANGED <<client, served>>
      <4>1. ReqCounted(r)'
        BY <3>2, <3>3, <3>5, <2>inv DEF ReqCounted, WaiterCounted, AdmittedCounted, RefusedCounted
      <4>2. QED
        BY <3>1, <3>3, <3>5, <4>1, <2>frame
    <3>6. CASE ok
      <4>1. client'.usage = req[r].usage + 1 /\ client'.day = client.day
        BY <3>6, <2>account DEF Account, TypeOK
      <4>2. served' = IF served < Quota THEN served + 1 ELSE served
        BY <3>6, <2>account DEF Account
      <4>3. RowCounted'
        BY <3>3, <3>4, <4>1, <4>2, <2>typed DEF RowCounted
      <4>4. ASSUME NEW q \in Requests PROVE ReqCounted(q)'
        <5>1. ReqCounted(q) /\ q # r => req'[q] = req[q]
          BY <3>1, <3>3, <2>inv, <2>typed
        <5>2. ReqCounted(q)
          BY <3>3, <2>inv
        <5>3. CASE q = r
          BY <5>2, <5>3, <3>2, <3>3, <4>2, <2>typed DEF ReqCounted, WaiterCounted, AdmittedCounted, RefusedCounted
        <5>4. CASE q # r
          BY <5>1, <5>2, <5>4, <3>3, <3>4, <4>1, <4>2, <2>typed
             DEF ReqCounted, WaiterCounted, AdmittedCounted, RefusedCounted
        <5>5. QED
          BY <5>3, <5>4
      <4>5. QED
        BY <4>3, <4>4
    <3>7. QED
      BY <3>5, <3>6, <2>account DEF Account
  <2>tick. CASE Tick
    BY <2>tick, <2>inv DEF Tick, RowCounted, ReqCounted, WaiterCounted, AdmittedCounted, RefusedCounted
  <2>newday. CASE NewDay
    <3>1. /\ today' = today + 1 /\ ~late /\ UNCHANGED <<client, req>>
          /\ \A q \in Requests : req[q].pc \in {"idle", "done"}
      BY <2>newday DEF NewDay, At
    <3>2. RowCounted'
      BY <3>1, <2>inv, <2>typed DEF RowCounted
    <3>3. ASSUME NEW q \in Requests PROVE ReqCounted(q)'
      BY <3>1, <2>inv, <2>typed DEF ReqCounted, WaiterCounted, AdmittedCounted, RefusedCounted
    <3>4. QED
      BY <3>2, <3>3
  <2>quiet. CASE Quiet
    BY <2>quiet, <2>stutter DEF Quiet
  <2> QED
    BY <2>stutter, <2>ends, <2>moves, <2>found, <2>acquire, <2>returns, <2>raises, <2>quota,
       <2>answered, <2>account, <2>tick, <2>newday, <2>quiet, QuietSteps
       DEF Next, Step
<1> QED
  BY <1>init, <1>step, GovernanceTypeOK, PTL DEF Spec

\* A client is told CLIENT_QUOTA_EXCEEDED only when that many of its calls were
\* counted that day, unless a request was under way at midnight.
THEOREM GovernanceRefusalJustified == Spec => []RefusalJustified
<1>1. UsageInv => RefusalJustified
  BY DEF UsageInv, ReqCounted, RefusedCounted, RefusalJustified
<1> QED
  BY <1>1, GovernanceUsage, PTL
=============================================================================
