# A TLA+ development of the Firecrawl API Manager (FCAM)

FCAM is a FastAPI gateway in front of the Firecrawl and Exa APIs. It keeps a pool
of upstream API keys per client and, for every request of a client, picks a key,
respects that key's limits, calls the upstream, and takes the key out of service
when the answer says so. This directory models its request path, its administration and
its background credit refresh: TLA+ modules translated from `src/app/`, TLC
configurations, and TLAPS proofs.

`PROJECT.json` lists components, runs, mutants, hazards, findings and theorems and
maps each definition to its source lines. This file explains the whole.

## 1. Inventory

Endpoints are synchronous functions that FastAPI runs in a thread pool: requests
are threads of one process. Each has its own SQLAlchemy session (`autoflush` off,
`expire_on_commit` on) on a shared SQLite or PostgreSQL database, and shares the
in-process objects that `main.py` builds. Nothing in the request path takes a row
lock; only the in-process objects have locks.

| Component | State | Operations | What makes it correct | Hard behaviour |
|---|---|---|---|---|
| Concurrency gate `core/concurrency.py` | counter per key or client | `try_acquire`, `Lease.release`, `__exit__` | a counter is exactly the leases held; none handed out at the limit | double release, limits changed while leases are out; Redis: leases that time out |
| Rate limiter `core/rate_limit.py` | bucket per key or client | `allow` | bounded burst, bounded long-run rate, honest `retry_after` | clock is read outside the lock; the rate may change; Redis variant |
| Key pool `core/key_pool.py` | round-robin index, `api_keys` rows | `select` | returns a key in service, starves none | clocks, rows and index read at three moments, the commit and the index written at two more; lazy day reset and recovery written by any request |
| Cooldown store `core/cooldown.py` | expiry per key in Redis | `set_cooldown`, `remaining_seconds` | holds a key as long as the upstream asked | second source of truth beside `cooldown_until` |
| Forwarder `core/forwarder.py` | `_failures`, sessions, rows | `forward`, `test_key`, the key status updates, quota and credit accounting | slots given back on every path, bounded attempts, no key revived by accident, nobody overcharged | stale rows after an upstream call, lost updates, commits that fail, administrators at work |
| Idempotency `core/idempotency.py`, `db/cleanup.py` | `idempotency_records` | `start_or_replay`, `complete`, retention | one request works for a key, its answer is final and replayed to the same request only | record expires under its owner, deletion between failed insert and lookup, id reuse |
| Data plane `api/data_plane.py` and the compat routers | none of its own | one handler per endpoint | idempotency around the forward; bindings written for created resources | a forward that raises leaves the record in progress |
| Client governance `api/deps.py` | `clients` rows, client gate and limiter | `enforce_client_governance` | lease returned on every path; client quota | quota checked before and counted after the call |
| Resource bindings `core/resource_binding.py` | `upstream_resource_bindings` | `bind_resource`, `lookup_bound_key_id` | a `/v2` status request goes to the key that created the resource | `/api` and `/v1` bind nothing; key purged, disabled or moved meanwhile |
| Key and client administration `api/control_plane.py`, `core/key_import.py`, `core/batch_clients.py` | rows | create, import, patch, batch, rotate, test, delete, purge, reset quota | what is out of service comes back only on request; a key is written by its own commit only, and what is not reported as failed was written | sessions that overlap; partial batches; foreign keys |
| Credit monitoring `core/credit_*.py` | credit columns and snapshots | refresh loop, fetch, aggregate, estimate | a failed key is left alone for the retry delay of its pass, no key is starved | one session for all keys: a rollback for one drops the others' changes; keys change during a call |
| Middleware and errors `middleware.py`, `errors.py` | request logs | limits on path, size and type; error rendering | every request ends in one answer | |
| Security, metrics, logging, configuration, migrations, tools, web console | none that decides anything | | | |

**Interactions.** A data-plane handler calls governance (client gate and limiter),
then idempotency, then `Forwarder.forward`, which calls `KeyPool.select` and, per
chosen key, the key's limiter, the key's gate and the upstream. The answer changes the
key's row (cooling, disabled, failed, quota exceeded), the failure counters and the
cooldown store. Administrators change the same rows. The retention job deletes
records that handlers are still working for.

**Hazards** are listed in `PROJECT.json` at the line where each bites. Most come
from one of two facts: a session keeps the row of the key in hand as it was loaded
*before* the upstream call, and check and update of a quota, an index, a record are
separate transactions.

## 2. Modules

| Module | Models | State and actions |
|---|---|---|
| `Semaphore` | what a gate promises | `holders`; acquire below the limit named, release |
| `Concurrency` | `ConcurrencyManager`, `Lease` | `current` per key, the leases with their `released` flag; `AcquireUnlimited`, `AcquireCounted`, `Release`, `Drop` |
| `RateLimiter` | `TokenBucketRateLimiter` | buckets, a clock, and per thread the clock reading it carries into the lock; `ReadClock`, `Allow`, `AllowUnlimited` |
| `KeyPool` | `KeyPool.select` as operators | the row, the verdict on each row, the changes the scan makes, the key chosen or the refusal |
| `Rotation` | concurrent `select` over a changing pool | rows, index, clocks, per thread the selection it is in; `ReadClocks`, `QueryRows`, `Scan`, `CommitScan`, `CommitFails`, `WriteIndex`; `Rewrite` by other components at any moment, `Tick` |
| `Forwarder` | `forward`, `test_key`, accounting, administrators | rows, failure counters, cooldown store, gate counters, and per request its thread *and its session* |
| `Idempotency` | `start_or_replay`, `complete`, retention | the records and, per request, where its thread is between transactions |
| `Governance` | `RequestLimitsMiddleware`, `require_client`, `enforce_client_governance`, in-process and Redis gate | the client's row, the life left of each slot, per request where it is and its copy of the row; one action per way in and out, `Crash`, `Tick`, `NewDay` |
| `DataPlane` | every route of the data plane, `bind_resource`, `lookup_bound_key_id`, version fallback | the upstream's tasks and their keys, the bindings, the idempotency record, per request its handler; `StartRecord`, `Lookup`, the outcomes of `forward()`, `Fallback`, `Bind`, `Complete` |
| `Admin` | key and client operations of the control plane | rows, and per administrator a session with loaded and changed copies; load, save, savepoint, commit, rollback and the refresh after a commit |
| `Credits` | refresh loop, credit fetch, manual refresh, scheduler | rows, `next_refresh_at` as a countdown, the loop's pass with the rows it has read and its uncommitted changes |
| `*Proofs` | theorems: `PoolProofs` about `Concurrency` and `Rotation`, the others about the module they are named after | |
| `MC*` | finite instances for TLC | |

`Forwarder` extends `KeyPool`, so every selection of a request is the same operator
that `Rotation` is about; its use of the gate is shown to implement the same
`Semaphore` that `Concurrency` implements. The others abstract what another module holds:
`Governance` reduces the handler to its end and its accounting, `DataPlane` reduces
`forward()` to the key it calls, how often, and what comes of it (whose details are
`Forwarder`'s) and the record to one key (`Idempotency` has several and their lifetimes),
and `Credits` reduces administrators to changed and purged rows (`Admin` has their sessions).

**How sessions are modelled.** `req[r].row` is the row of the key in hand as the
session last loaded it. A query returns that copy for the key in hand and fresh rows
for the others (`View`: SQLAlchemy's identity map does not refresh a loaded row). A
commit writes only the columns that differ from the loaded ones (`Merge`) and
expires the session. Below the failure threshold `_record_failure` commits nothing,
so the copy stays old: that is where the stale selection of section 6 comes from.
Commits may fail (`DbFaults`), each with the code's reaction: roll back and go on, or
`DB_UNAVAILABLE`.

**What is atomic.** One transaction, one critical section, or one upstream call.
`select` is five steps in `Rotation`: the clocks, the query, the index with the scan, the
commit, and the new index. In `Forwarder` it is two (query and scan; commit with the new index),
the upstream call is two (call; handling of its answer), accounting is two (client's row loaded; commit).
An administrator's request is one step in `Forwarder`; in `Admin` its load, its commit and the refresh of
the row are three, with other sessions in between.

**Abstractions.** Headers, URLs, bodies, metrics and logs are left out. Key plaintexts are
reduced to whether they decrypt. 401 and 403 are one answer, `4xx` stands for any other
answer below 500 that is not 2xx, and one provider is modelled. The key limiter in
`Forwarder` may refuse at any time (its own rules are `RateLimiter`'s). The cost of a call is
a constant. Times are ticks, `TicksPerSec` to a second, so that `int()` truncation
and Redis rounding are modelled. `retry_after` in a pool refusal is left out.
In `Rotation` the number of keys in the scope is fixed and the cooldown store knows nothing. `Forwarder` has both the
store and the pinned requests.
`test_key`'s second candidate path after a 404 or 405 is part of its one call. `Governance` has
one client with a quota and a limit above zero; its limiter may refuse at any time, which covers
the in-process bucket and the Redis script. In `DataPlane` the requests that keep a record are all crawls or
all agents, since those of the same kind share their record on `/api`, `/v1` and `/v2`. It assumes that the upstream knows a task
by the key that created it only, and that it knows the path of a route without fallback; no
caller gives a binding a lifetime, and a key keeps its secret (a replaced secret may belong
to another account, whose tasks the bindings then do not reach). In `Admin` a key's
usage against its quota is one bit, and an insertion waits for a transaction that inserted the same
key. In `Credits` the intervals of `calculate_next_refresh_time` are three, and of a refresh of all keys
each key is a refresh of its own.

## 3. Runs

All run with two workers; `rotation` and `plane` take a little more than two minutes, the others less.

| Run | Instance | Shows |
|---|---|---|
| `gate` | four leases, two keys, limits 0 to 2 that change | counter = leases held, grants below the limit, refinement of `Semaphore` |
| `bucket` | two threads, rates that change, five ticks | no negative bucket, burst and long-run bounds although readings arrive out of order, exact `retry_after` |
| `rotation` | two threads, three keys (two with a quota of one), one write of another component, failing commits, one tick with or without midnight | along the index a usable key is passed over fewer than three times in a row, in all at most seven times; what is handed out is in service unless it was written under the scan |
| `forward` | a pool and a pinned request, two keys (one undecryptable) with a quota of two, two attempts, three tries, limit 1, all answers, failing commits, three days, two ticks | slots, calls per key, giving up, refinement of `Semaphore`; a day's usage, and the credits of all days, are never charged more than was served |
| `live` | one pinned, one test and one pool request on one key, administrator, refusing limiter | every request ends; a disabled key is never revived by a request |
| `once` | three requests of one key (one with another body), one without key, records that live one tick, failing commits, retention | exclusive work within the lifetime, faithful replay, final answers, every request ends |
| `govern` | three requests, two slots, both gates, leases of one tick, faults, dying processes, two days | no slot is lost but to a fault, and those come back; a refusal for the quota is justified |
| `plane` | two requests that create under one idempotency key, one of them on `/v2` or `/api`, one that asks on either, deletes or does neither, two keys, two tasks, two attempts | a task that `/v2` created and whose id the client was given is found on `/v2`, unless its key has left or a binding could not be written or read |
| `admin` | two administrators, any of twenty operations each, three keys (one bound to a task), two clients, PostgreSQL | a key is written by its own commit only, and committed unless reported as failed; nothing comes back into service unasked |
| `credits` | three keys (one undecryptable), batches of two, one act of an administrator, manual refresh or restart | a failed key is left alone for the retry delay, counted from the start of its pass, and a rollback loses no committed delay; no key is starved |
| `v_reuse`, `v_deleted` | two requests; two administrators | the disagreements of section 6 |

**Bounds.** `MaxNow` and `MaxDay` bound the clocks: one change of day and one expiry are
enough for every order of a request's steps around them. Two attempts give one retry.
`SelectionTries` is 2 or 3 where the code has at least 50: the model's requests run out
of tries, the behaviour of the bound itself is the same. Two or three requests are enough
for the lost updates and stale rows, which need a request under way and one that changes
what it has read; the same holds for two administrators. `MaxTasks` is two: a task that is
asked about and one that a retry leaves behind. `LeaseTtl` is one tick, so a lease may end at any
step of its request. In `rotation` one write of another component is enough to change a row between a query and its
commit; the scans themselves change rows too. `MaxActs` is one: what a pass of the refresh loop meets while it waits for a call
is one change of the key in hand, of another, or a restart. Requests and administrators are
symmetric where they have the same job and no liveness is checked.

**Fairness.** `live` and `once` assume weak fairness of each request's next step, not of
the clock, the administrators or the retention job. The code justifies it: handlers run in
threads, upstream calls end by their timeout, and neither gate nor limiter waits.
Fairness does not choose outcomes: an upstream may fail for ever and a limiter refuse for ever.
`govern` adds that time passes, without which a lease in Redis would not expire. `credits` assumes weak
fairness of the loop (its call has a timeout, and `credit_refresh_loop` catches what a pass raises)
and of time; administrators and restarts are not fair, and `MaxActs` keeps them from going on for ever,
as endless restarts could indeed starve a key.

**Mutants.** Each property has a mutant in the module of the definition it breaks (a dropped
guard, a bound off by one, a row written back whole, a lookup by the wrong column);
`PROJECT.json` names them.

## 4. Proofs

TLAPS checks these for every value of the constants that satisfies the named assumptions: the
sets of requests, keys and sessions may have any size, and where cardinalities are not involved need not
be finite. Every invariant and every action property of a passing run but one, `NoStarvation`, and both refinements, are theorems.

* **`PoolProofs`**. For any keys and leases and integer limits (`LimitsAssumption`): the inductive
  invariant of the gate is the type invariant with `CountIsHeld`, the counter of a key equals the
  cardinality of its counted, unreleased leases. The counter alone is not inductive, because
  `_release` clamps at zero: only the equation shows that the clamp never acts. From it follow
  `ConcurrencyGrants` (an action property) and `ConcurrencyRefinement` (every step is a step of
  `Semaphore` or a stutter). From `KeyPoolAssumption` and `RotationAssumption`: the invariant of the rotation relates
  history to index. One key is followed, any key; `chain` counts, along the selections that led to the index,
  those that found it usable and passed over it, and `chain + Offset(followed, rr) < NumKeys`, where `Offset` is the
  distance of the key in the scan. A selection carries the count and the index it read to its commit, and the new count
  and the key handed out to `WriteIndex`, and the same inequality holds for what it carries, whatever other threads
  write meanwhile. `FairChain` follows. `HandedOutInService` needs that a row changes, between the query and the
  commit of a scan, only by the commits of other scans or by a write of another component, which the history
  `touched` notes: a row that nobody else wrote still has the `is_active` the query saw, its usage unchanged
  or reset to 0, and its status unchanged, `active` or `quota_exceeded`.
* **`RateLimiterProofs`**, from `RateAssumption`. The invariant adds to the type invariant that every stored
  reading was taken at a rate the limiter has seen, that a bucket never used has granted
  nothing, `BurstBounded`, and `GrantBound`: tokens granted plus tokens left are at most one
  burst plus the refill of the elapsed time and of the time by which out-of-order readings
  moved `last_refill` back. The rewound time has to be in the invariant: without it the
  bound is false for this code. `LimiterRetry` is an action property about the ceiling.
* **`ForwarderProofs`**, from `KeyPoolAssumption` and `ForwarderAssumption`. `ForwarderInv` has four parts.
  `Typed`. `Controlled`: what the place of a request says about its locals, above all that it
  has an attempt left where it may call, keeps its slot until its call is over, and that
  the changes of a scan put no key into service. `Charged`: not only the rows but every copy of a row in every
  session is charged for no more calls than its key served; a merge takes each column from the row or
  from a copy, so the rows alone would not be inductive. What is charged by the day needs more, `DayInv`: no row or copy is dated
  later than today; a row or copy of today whose key is not `blurred` is charged for at most what was served today; since a
  session read a usage of such a key only calls of today were added to it, so the row's usage is at most what was read or
  at most what was served today; and a selection that dates a row in its commit resets the usage with it. `SlotsCounted`: the counter of a key is
  the cardinality of its holders and within the limit. All six invariants of the runs, `NeverReactivated`
  and the refinement of `Semaphore` follow.
* **`IdempotencyProofs`**, from `IdempotencyAssumption`. `OwnInv`: keys of records are unique, and a request
  in flight within its lifetime owns the record of its key; so two requests cannot both be in flight
  (`ExclusiveWithinTtl`, with either way of giving ids). `AnswerInv`, under the hypothesis `~ReuseIds`: the id
  in a request's context finds its own record or none, a record has the key and body of its owner, and a
  stored answer is its owner's, who is done. `ReplayFaithful` and the action property `StoredAnswerFinal` follow.
  The hypothesis is needed: `v_reuse` shows `ReplayFaithful` violated without it.
* **`GovernanceProofs`**, from `GovernanceAssumption`. `LeakExplained` is inductive with the type invariant.
  `GovernanceSlots` bounds the live slots of either gate by `max_concurrent`. `UsageInv` is about the daily quota: while
  no request was under way at midnight, the row and every copy of it that is of today say at most what was counted
  today, or the quota is used up anyway; a copy of another day is the row's as long as nobody reset it.
  `RefusalJustified` follows. Requests that overwrite each other's usage only lose counts, which is why an inequality is
  what can be kept.
* **`DataPlaneProofs`**, from `DataPlaneAssumption`. `ToldIsFound` speaks of the end of a request. `DataPlaneInv` carries it
  there: a binding is absent or leads to the key that created the task; the tasks of a key out of service are excused;
  a task the client was told of, or that the record may yet replay, is bound or excused; a request about a task
  carries the task's key from the lookup to the call; a request that created one carries the creating key to `Bind`. A task of `/api` or `/v1`
  (`unbound`) is owed nothing.
  That other requests go on meanwhile is one lemma: tasks keep their keys, good bindings stay, and
  nothing is forgotten (`Grows`). What is used of the route table is that a route that asks about a
  task looks its binding up and keeps no record, and that a route with a binding creates or asks (`RouteFacts`).
* **`AdminProofs`**, from `AdminAssumption`. `AdminInv` says of every session that a key of its operation is to do, in hand, reported as failed
  or committed; that the session has written no key but by the key's commit, because whatever else its copies hold is
  unchanged (a rollback and a commit both see to that); and that a copy is put into service only if the request asks for it.
  `OwnCommitOnly` follows, and with what a merge can do to a row so does the action property `OnlyEnablingRevives`.
* **`CreditsProofs`**, from `CreditsAssumption`. `CreditsInv` adds to the types that no key still to be fetched is owed a wait and that
  what a key is owed is covered by the `next_refresh_at` that is coming: the uncommitted one if the session holds
  one, the row's otherwise. A rollback drops the uncommitted times together with their promises and leaves the
  committed ones alone, a commit turns the first into the second, and the clock runs alike for both. `RetryDelayed`, an action property, follows.

The invariants of `Forwarder`, `DataPlane` and `Credits` were checked by TLC on the instances of the runs before they were proved.

**Only model-checked:** `NoStarvation`, whose bound is a binomial coefficient in the number of threads and keys (`FairChain` is the
part that is proved); the liveness properties `AllEnd`, `Settles` and `NoKeyForgotten`, since fairness is out of the
prover's reach. `ReplayFaithful` with reused ids and `DeletedIsInactive` are false of the code (section 6).

## 5. Hazards and their properties

| Hazard | Properties |
|---|---|
| slots on every exit path, double release, limits lowered | `SlotsHeld`, `CallsWithinLimit`, `CountIsHeld`, `GrantBelowLimit`, `ImplementsSemaphore` |
| clock read outside the lock, rounding | `GrantBound`, `BurstBounded`, `RetrySound` |
| index and rows of overlapping selections | `FairChain`, `NoStarvation`, `HandedOutInService` |
| stale copies of a row, overlapping administrators | `NeverReactivated`, `OnlyEnablingRevives`, `DeletedIsInactive` |
| lost updates of usage and credits, failing commits, change of day | `NoOvercharge`, `CreditsNotOvercharged`, `RefusalJustified` |
| two counters bound one loop | `GivesUpWhenSpent`, `AllEnd` |
| records that expire or vanish under their owner, reused ids | `ExclusiveWithinTtl`, `ReplayFaithful`, `StoredAnswerFinal`, `AllEnd` |
| a client's slots under faults of Redis, crashes and every way out | `LeakExplained`, `Settles` |
| bindings that are missing, stale or of the second path | `ToldIsFound` |
| a failure in the middle of a batch, an import or a pass | `OwnCommitOnly`, `RetryDelayed`, `NoKeyForgotten` |

Some hazards have no property, because what could be asked does not hold in this code: the duplicate creation after a
timeout, the record left in progress, the limit on running requests in Redis mode, the quota that is overrun, the
stale choice of a retry, the shortened hold. `PROJECT.json` says so at each; section 6 lists the disagreements.

## 6. Where code and documents disagree

Shown by a run:

* `v_reuse`: `complete` finds its record by id alone. On SQLite the id of a deleted record is
  given to the next one, so a request that outlives its record can store its answer
  under another key, and that answer is replayed. With ids from a sequence (run `once`) it
  cannot happen.
* `v_deleted`: `delete_client` sets `is_active` and `status` on its own copy of the row, and a
  commit writes only what differs from the row as loaded. If the client was disabled when it was loaded and
  `update_client` enables it before the commit, the client ends deleted and active: its token is
  accepted, it is not listed, and `update_client` no longer finds it. The API contract (line 410)
  promises `is_active=false`.

Met while modelling, visible in the definitions named, not made into runs:

* Quotas can be overrun: `select` checks `daily_usage` on a copy of the row, `_consume_quota_on_success`
  adds to a copy (`Consume`); `docs/agent.md` 406 asks for a conditional update.
* A retry can choose a key that was taken out of service during the failed call, because the
  session still holds the old row (`View`); and any selection hands out a key that is disabled between its query
  and its commit (`Rotation.Rewrite`). `docs/agent.md` 345 says such keys are skipped.
* A selection that finds a hold over writes its end, `status` and `cooldown_until`, over a 429 that was recorded
  since its query (`Merge` of `CommitScan`); `docs/agent.md` 431.
* `count_mode: attempt` counts nothing (`SaveCredits`); `docs/agent.md` 353.
* A retry may come back to the key that failed, as the index is shared (`SelectQuery`); PRD 113.
* A failure recorded during a cooldown replaces it, and the cooldown store is asked about
  `cooling` keys only, so a `Retry-After` can be cut short (`RecordFailure`, `Remaining`); PRD 107.
* A hold ends up to a second early (`CooldownRemaining`); `docs/agent.md` 431.
* A successful test leaves the failure counter (`TestOk`); `docs/agent.md` 443.
* A key disabled during a call gets the status `cooling` or `failed`, though it stays inactive
  (`TooMany`, `RecordFailure`); `docs/agent.md` 429 and 437.
* A call that straddles midnight can be counted on the new day, or undo its reset (`Consume`); `docs/agent.md` 433.
  `NoOvercharge` excepts such a key for the rest of the day, and one that a pinned request charges from a copy
  nobody has reset. (Two requests cannot reach the second exception in the run; the theorem covers it.)
* A selection that reads its clock before midnight and the rows after another one has reset them dates a row back to
  yesterday (`ReadClocks`, `QueryRows`), and the next one resets it again; a reset from an old copy likewise drops the calls
  counted since. Both lose counts of the new day; `docs/agent.md` 433.
  For the client it is worse: yesterday's usage plus one is written over the reset row, and the
  client may be refused with nothing used today (`Account`; `RefusalJustified` excuses such a day).
* Creation requests are retried after a timeout without an idempotency key
  (`CallFails`); PRD 158.
* A second path doubles the time of a request, which may outlive its lease in Redis (`Tick`); so
  `max_concurrent` bounds the running requests in the in-process mode only.
* Tasks created on `/api` and `/v1` are bound to no key, and a question about a task there goes to any key of the pool
  (`ApiStatus`, `V1Status`), which may not know it; nor is a task found on `/v2` when its creation there replays an answer
  of `/api`. `docs/API-Usage.md` 206 and 262 and `docs/handbook.md` 61 list these routes as the way to ask.
* A key of a batch, an update or a creation is reported as failed although it was written, when the refresh after the commit
  fails, and in a batch also when its test fails (`Refresh`, `TestLoad`, `TestSave`).
* The retry delay of the credit refresh counts from the start of the pass (`Retry`), so after a slow pass a failed key is
  due at once; `docs/handbook.md` 181 says five minutes after the failure. A commit that fails also drops the
  delays of other keys that the session had not committed yet (`Forgotten`).
* On PostgreSQL a key or client that a binding refers to cannot be purged (`Accepted`, `ClientSave`).
* Legal patches reach keys that are inactive with status `quota_exceeded`, or active with
  `decrypt_failed` (`Patched`).

## 7. Plan

Done: the request path from the middleware to the accounting, the administration of keys and
clients, the credit refresh, and a theorem for every safety property that a run checks. What is left,
most important first:

1. Composition: `DataPlane` reduces `forward()` to an operation with a few outcomes. That `Forwarder` implements
   this view (the key it calls is the pinned one if usable; at most `TotalAttempts` calls) is argued in section 2, not
   shown.
2. The same for the record of `DataPlane`, which is one key of `Idempotency` without its inner steps.
3. The safety part of the liveness properties: that a request which has not ended always has a step to take.

## 8. Not modelled

Cryptography and redaction, metrics, logging, configuration and database migrations hold no shared
state that decides anything. The SQLite-to-PostgreSQL copy runs once with the service stopped. The web
console is a client of the control plane. Of the control plane the lists, statistics and logs only read, and
`rotate_client_token` changes a column nothing else depends on; credit aggregation only reads. The
text format of key imports and the rendering of errors are data no property is about.
