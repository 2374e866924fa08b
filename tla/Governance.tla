---------------------------- MODULE Governance -----------------------------
(***************************************************************************)
(* What every request of a client passes before and after its handler:     *)
(* the request limits (app/middleware.py), require_client and              *)
(* enforce_client_governance (app/api/deps.py), on top of the client's     *)
(* concurrency gate, its rate limiter and its daily quota.                 *)
(*                                                                         *)
(* The client's slots are counted by the in-process gate, where they end   *)
(* when they are released, or are members of a Redis sorted set            *)
(* (RedisConcurrencyManager), where they also end by themselves.  The      *)
(* handler is reduced to what governance sees of it: it ends, and a 2xx    *)
(* answer is added to the client's usage by the session that loaded the    *)
(* client's row when the request came in.                                  *)
(***************************************************************************)
EXTENDS Integers, FiniteSets

CONSTANTS Requests,
          RedisModes,    \* subset of BOOLEAN: config.state.mode is "redis"
          MaxConcurrent, \* client.max_concurrent, more than 0
          LeaseTtl,      \* lifetime of a Redis lease, in ticks
          Quota,         \* client.daily_quota
          InitUsage,     \* client.daily_usage at the start
          Faults,        \* TRUE: the database and Redis may fail, processes may die
          MaxDay         \* bound on the days

ASSUME GovernanceAssumption ==
    /\ RedisModes \subseteq BOOLEAN /\ RedisModes # {}
    /\ {MaxConcurrent, LeaseTtl} \subseteq Nat \ {0}
    /\ {Quota, MaxDay} \subseteq Nat /\ InitUsage \in 0..Quota
    /\ Faults \in BOOLEAN

VARIABLES redis,  \* the state backend chosen at start-up
          client, \* daily_usage and quota_reset_at of the client's row
          lease,  \* lease[r]: what is left of the life of r's slot, 0: none
          req,    \* req[r]: where r is, and the client's row in its session
          today,
          leaked, \* history: slots that a fault left behind
          served, \* history: 2xx answers counted today, up to Quota
          late    \* history: a request was under way at midnight

vars == <<redis, client, lease, req, today, leaked, served, late>>

\* How a request is over.  All refusals but one, answers and errors are alike
\* to the properties: "over".
Results == {"pending", "over", "CLIENT_QUOTA_EXCEEDED"}

Blank == [pc |-> "idle", result |-> "pending", usage |-> 0, day |-> 0]

TypeOK ==
    /\ redis \in RedisModes
    /\ client \in [usage : Nat, day : 0..MaxDay]
    /\ lease \in [Requests -> 0..LeaseTtl]
    /\ req \in [Requests ->
                  [pc : {"idle", "gate", "limiter", "quota", "handler", "account", "exit", "done"},
                   result : Results, usage : Nat, day : 0..MaxDay]]
    /\ today \in 0..MaxDay
    /\ leaked \subseteq Requests
    /\ served \in 0..Quota
    /\ late \in BOOLEAN

Init ==
    /\ redis \in RedisModes
    /\ client = [usage |-> InitUsage, day |-> 0]
    /\ lease = [r \in Requests |-> 0]
    /\ req = [r \in Requests |-> Blank]
    /\ today = 0
    /\ leaked = {} /\ served = InitUsage /\ late = FALSE
-----------------------------------------------------------------------------
At(r, pc) == req[r].pc = pc
Goes(r, pc) == req' = [req EXCEPT ![r].pc = pc]

\* The request leaves through the middleware, which logs it.
Over == [Blank EXCEPT !.pc = "done", !.result = "over"]

\* Whether a database or Redis operation succeeds.
Outcomes == IF Faults THEN BOOLEAN ELSE {TRUE}

\* The slots that count against the limit.
Live == {r \in Requests : lease[r] > 0}

\* Lease.release: the counter of the in-process gate goes down; ZREM from the
\* sorted set may fail, which is only logged.
Returned(r, ok) ==
    /\ lease' = IF ok \/ ~redis THEN [lease EXCEPT ![r] = 0] ELSE lease
    /\ leaked' = IF ok \/ ~redis THEN leaked ELSE leaked \cup ({r} \cap Live)

\* RequestLimitsMiddleware: a path that is not allowed, a body that is too
\* large or of another type.
LimitsRefuse(r) ==
    /\ At(r, "idle")
    /\ req' = [req EXCEPT ![r] = Over]
    /\ UNCHANGED <<redis, client, lease, today, leaked, served, late>>

\* require_client: a token nobody has, a client an administrator disabled or
\* deleted, or no database.
ClientRefused(r) ==
    /\ At(r, "idle")
    /\ req' = [req EXCEPT ![r] = Over]
    /\ UNCHANGED <<redis, client, lease, today, leaked, served, late>>

\* The client's row is loaded into the request's session.
ClientFound(r) ==
    /\ At(r, "idle")
    /\ req' = [req EXCEPT ![r] = [Blank EXCEPT !.pc = "gate", !.usage = client.usage, !.day = client.day]]
    /\ UNCHANGED <<redis, client, lease, today, leaked, served, late>>

\* try_acquire: expired members are purged, the others counted, and the
\* request is added if there is room.
Acquire(r) ==
    /\ At(r, "gate")
    /\ IF Cardinality(Live) >= MaxConcurrent
         THEN /\ req' = [req EXCEPT ![r] = Over]
              /\ UNCHANGED lease
         ELSE /\ lease' = [lease EXCEPT ![r] = LeaseTtl]
              /\ Goes(r, "limiter")
    /\ UNCHANGED <<redis, client, today, leaked, served, late>>

\* Redis does not answer, or the WATCH loop loses five races.
AcquireRaises(r) ==
    /\ At(r, "gate") /\ redis /\ Faults
    /\ req' = [req EXCEPT ![r] = Over]
    /\ UNCHANGED <<redis, client, lease, today, leaked, served, late>>

LimiterAllows(r) ==
    /\ At(r, "limiter")
    /\ Goes(r, "quota")
    /\ UNCHANGED <<redis, client, lease, today, leaked, served, late>>

\* Mutant of LimiterRefuses: the lease is forgotten.
LimiterRefusesOnly(r, ok) ==
    /\ At(r, "limiter")
    /\ req' = [req EXCEPT ![r] = Over]
    /\ UNCHANGED <<redis, client, lease, today, leaked, served, late>>

\* The lease is released before the error is raised.
LimiterRefuses(r, ok) ==
    /\ At(r, "limiter")
    /\ Returned(r, ok)
    /\ req' = [req EXCEPT ![r] = Over]
    /\ UNCHANGED <<redis, client, today, served, late>>

\* The Redis limiter raises: nothing in the dependency releases the lease.
LimiterRaises(r) ==
    /\ At(r, "limiter") /\ redis /\ Faults
    /\ req' = [req EXCEPT ![r] = Over]
    /\ leaked' = leaked \cup ({r} \cap Live)
    /\ UNCHANGED <<redis, client, lease, today, served, late>>

\* Mutant of ClientReset: the row is dated today and keeps its usage.
ClientResetDate(r) == [usage |-> client.usage, day |-> today]

\* Mutant of ClientReset: the row is dated with the next reset.
ClientResetTomorrow(r) == [usage |-> 0, day |-> today + 1]

\* The first request of the day, as far as its session knows, resets the
\* usage; only the columns that differ from the loaded row are written.
ClientReset(r) == [usage |-> IF req[r].usage # 0 THEN 0 ELSE client.usage, day |-> today]

CheckQuota(r, ok) ==
    LET stale == req[r].day # today
        now   == IF stale THEN ClientReset(r) ELSE client
        used  == IF stale THEN now.usage ELSE req[r].usage
    IN  /\ At(r, "quota")
        /\ client' = now
        /\ IF used >= Quota
             THEN /\ Returned(r, ok)
                  /\ req' = [req EXCEPT ![r] = [Over EXCEPT !.result = "CLIENT_QUOTA_EXCEEDED", !.day = today]]
             ELSE /\ req' = [req EXCEPT ![r].pc = "handler", ![r].usage = used, ![r].day = today]
                  /\ UNCHANGED <<lease, leaked>>
        /\ UNCHANGED <<redis, today, served, late>>

\* The commit of the reset fails.
CheckQuotaFails(r, ok) ==
    /\ At(r, "quota") /\ Faults /\ req[r].day # today
    /\ Returned(r, ok)
    /\ req' = [req EXCEPT ![r] = Over]
    /\ UNCHANGED <<redis, client, today, served, late>>
-----------------------------------------------------------------------------
\* The handler.

\* A 2xx answer.  On a pinned key nothing was committed since the client's row
\* was loaded; otherwise a commit made the session read it again.
Answered(r) ==
    /\ At(r, "handler")
    /\ \E used \in {req[r].usage, client.usage} :
          req' = [req EXCEPT ![r].pc = "account", ![r].usage = used]
    /\ UNCHANGED <<redis, client, lease, today, leaked, served, late>>

\* Any other answer, a replay, or an exception on its way out.
NotServed(r) ==
    /\ At(r, "handler")
    /\ Goes(r, "exit")
    /\ UNCHANGED <<redis, client, lease, today, leaked, served, late>>

\* _consume_quota_on_success: one more than the session holds.
Account(r, ok) ==
    /\ At(r, "account")
    /\ client' = IF ok THEN [client EXCEPT !.usage = req[r].usage + 1] ELSE client
    /\ served' = IF ok /\ served < Quota THEN served + 1 ELSE served
    /\ Goes(r, "exit")
    /\ UNCHANGED <<redis, lease, today, leaked, late>>

\* The finally of enforce_client_governance.
Leave(r, ok) ==
    /\ At(r, "exit")
    /\ Returned(r, ok)
    /\ req' = [req EXCEPT ![r] = Over]
    /\ UNCHANGED <<redis, client, today, served, late>>
-----------------------------------------------------------------------------
\* The environment.

\* The process dies: its members of the sorted set stay.
Crash(r) ==
    /\ redis /\ Faults /\ ~At(r, "idle") /\ ~At(r, "done")
    /\ req' = [req EXCEPT ![r] = Over]
    /\ leaked' = leaked \cup ({r} \cap Live)
    /\ UNCHANGED <<redis, client, lease, today, served, late>>

\* Mutant of Tick: a member lives as long as the set, which every new member
\* renews.
TickSet ==
    /\ redis /\ Live # {}
    /\ lease' = [r \in Requests |-> IF Cardinality(Live) = 1 /\ lease[r] > 0 THEN lease[r] - 1 ELSE lease[r]]
    /\ leaked' = leaked \ {r \in Requests : lease'[r] = 0}
    /\ UNCHANGED <<redis, client, req, today, served, late>>

\* Members of the sorted set grow old; slots of the in-process gate do not.
Tick ==
    /\ redis /\ Live # {}
    /\ lease' = [r \in Requests |-> IF lease[r] > 0 THEN lease[r] - 1 ELSE 0]
    /\ leaked' = leaked \ {r \in Requests : lease[r] <= 1}
    /\ UNCHANGED <<redis, client, req, today, served, late>>

NewDay ==
    /\ today < MaxDay
    /\ today' = today + 1 /\ served' = 0
    /\ late' = (late \/ \E r \in Requests : ~At(r, "idle") /\ ~At(r, "done"))
    /\ UNCHANGED <<redis, client, lease, req, leaked>>

\* Every request has ended.
Quiet == (\A r \in Requests : At(r, "done")) /\ UNCHANGED vars

Step(r) ==
    \/ LimitsRefuse(r) \/ ClientRefused(r) \/ ClientFound(r)
    \/ Acquire(r) \/ AcquireRaises(r) \/ LimiterAllows(r) \/ LimiterRaises(r)
    \/ Answered(r) \/ NotServed(r)
    \/ \E ok \in Outcomes :
          \/ LimiterRefuses(r, ok) \/ CheckQuota(r, ok) \/ CheckQuotaFails(r, ok)
          \/ Account(r, ok) \/ Leave(r, ok)

Next ==
    \/ \E r \in Requests : Step(r) \/ Crash(r)
    \/ Tick \/ NewDay \/ Quiet

Spec == Init /\ [][Next]_vars

\* Time passes, and a request goes on: no step of it waits for another one,
\* and forward() ends by its timeouts (AllEnd of module Forwarder).
FairSpec == Spec /\ WF_vars(Tick) /\ \A r \in Requests : WF_vars(Step(r))
-----------------------------------------------------------------------------
\* Properties.

Running(r) == req[r].pc \notin {"idle", "gate", "done"}

\* A slot that counts against the client although its request is over was
\* left behind by a fault of the backend or a crash; every other way out of
\* governance and the handler gives it back (deps.py 95-164).
LeakExplained == \A r \in Live : Running(r) \/ (redis /\ r \in leaked)

\* Whatever fails, in the end every request is over and the client has all its
\* slots again: those that a fault left in Redis expire (concurrency.py 74-150).
Settles == <>[](Live = {} /\ \A r \in Requests : ~Running(r))

\* A client is refused for its daily quota only when that many of its calls
\* were counted on that day, if no request was under way at midnight (deps.py
\* 127-146, forwarder.py 1029-1034); one that was writes yesterday's usage
\* plus one over the row that the first request of the day has reset.
RefusalJustified ==
    \A r \in Requests :
        (req[r].result = "CLIENT_QUOTA_EXCEEDED" /\ req[r].day = today /\ ~late) => served = Quota
=============================================================================
