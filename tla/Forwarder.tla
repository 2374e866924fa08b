----------------------------- MODULE Forwarder -----------------------------
(***************************************************************************)
(* The forwarding of requests to the upstream API (app/core/forwarder.py)  *)
(* by concurrent threads that share the api_keys rows, the key concurrency *)
(* gate, the failure counters and the round-robin index.                   *)
(*                                                                         *)
(* Each request owns a database session.  The session keeps the row of the *)
(* key in hand as it was when it was last loaded; a query does not refresh *)
(* a row the session already holds, only a commit or a rollback does; and  *)
(* a commit writes only the columns that differ from the loaded values.    *)
(* So a request works with rows that others may have changed during its    *)
(* upstream call, and its writes are merged column by column.              *)
(*                                                                         *)
(* A request is one of three jobs: "pool" (forward with a key from the     *)
(* pool), "pinned" (forward with the key a resource is bound to) and       *)
(* "test" (test_key of the control plane).                                 *)
(***************************************************************************)
EXTENDS KeyPool

CONSTANTS Requests,
          Job,              \* Job[r]: [mode, key], key 0 for "pool"
          TotalAttempts,    \* max(max_retries, 0) + 1
          SelectionTries,   \* max_selection_tries; max(20 * TotalAttempts, 50) in the code
          MaxConcurrent,    \* max_concurrent of every key; 0 or less: no limit
          RateLimited,      \* TRUE: the key rate limiter may refuse
          BadKeys,          \* keys whose ciphertext does not decrypt
          Answers,          \* what the upstream may do with a call
          RetryAfters,      \* parsed Retry-After of a 429; None when absent
          CooldownSeconds,  \* rate_limit.cooldown_seconds
          FailedCooldownSeconds,
          FailureThreshold,
          FailureWindowSeconds,
          CountMode,        \* quota.count_mode
          ClientCounted,    \* TRUE: the client has a daily quota
          CreditCost,       \* estimated cost of a call, 0: not estimated
          InitCredits,      \* cached_remaining_credits at the start
          SharedStore,      \* TRUE: cooldowns are also kept in Redis
          DbFaults,         \* TRUE: a commit may fail
          AdminActs,        \* TRUE: an administrator toggles keys
          MaxNow, MaxDay    \* bounds on the clocks

Modes == {"pool", "pinned", "test"}
AnswerKinds == {"ok", "429", "401", "4xx", "5xx", "timeout", "http_error"}

ASSUME ForwarderAssumption ==
    /\ Job \in [Requests -> [mode : Modes, key : 0..NumKeys]]
    /\ \A r \in Requests : Job[r].mode # "pool" => Job[r].key \in KeyIds
    /\ TotalAttempts \in Nat \ {0} /\ SelectionTries \in Nat \ {0}
    /\ MaxConcurrent \in Int
    /\ BadKeys \subseteq KeyIds
    /\ Answers \subseteq AnswerKinds
    /\ RetryAfters \subseteq Nat \cup {None}
    /\ CooldownSeconds \in Nat /\ FailedCooldownSeconds \in Int
    /\ FailureThreshold \in Int /\ FailureWindowSeconds \in Nat
    /\ CreditCost \in Nat /\ InitCredits \in Nat \cup {None}
    /\ {RateLimited, ClientCounted, SharedStore, DbFaults, AdminActs} \subseteq BOOLEAN
    /\ MaxNow \in Nat /\ MaxDay \in Nat

VARIABLES keys,     \* the api_keys rows
          client,   \* daily_usage of the client's row
          rr,       \* _rr_index_by_scope of the scope
          failures, \* _failures: [count, first] per key, first None when absent
          store,    \* expiry of the key's entry in the shared cooldown store
          inUse,    \* current of the key's entry in the concurrency gate
          req,      \* per request: thread, session and local variables
          now, today,
          served,   \* history: 2xx answers accounted for, per key
          servedToday, \* history: the same since midnight
          blurred   \* history: keys in use at midnight, or charged since for
                    \* a call with a copy of the row dated another day

vars == <<keys, client, rr, failures, store, inUse, req, now, today,
          served, servedToday, blurred>>

history == <<served, servedToday, blurred>>

\* Codes a request can end with.  "answered": an upstream answer is returned.
Results == {"pending", "answered", "NO_KEY_CONFIGURED", "ALL_KEYS_DISABLED",
            "ALL_KEYS_QUOTA_EXCEEDED", "ALL_KEYS_COOLING", "NO_KEY_AVAILABLE",
            "ALL_KEYS_BUSY", "KEY_DECRYPT_FAILED", "UPSTREAM_TIMEOUT",
            "UPSTREAM_UNAVAILABLE", "DB_UNAVAILABLE", "tested"}

BlankRow == [active |-> FALSE, status |-> "active", until |-> None, usage |-> 0,
             day |-> 0, credits |-> None]

InitRow == [BlankRow EXCEPT !.active = TRUE, !.credits = InitCredits]

BlankRows == [k \in KeyIds |-> BlankRow]

Blank == [pc |-> "idle",      \* where the thread is
          mode |-> "pool",    \* "pinned" only while the pinned key is in use
          key |-> 0,          \* the key in hand, 0: none
          row |-> BlankRow,   \* its row as loaded by the session
          lease |-> FALSE,
          attempts |-> 0,     \* upstream_attempts
          tries |-> 0,        \* selection_tries
          decryptFailed |-> FALSE,
          answer |-> "ok",    \* what the upstream did
          retryAfter |-> None,
          old |-> BlankRows, new |-> BlankRows, \* rows loaded and changed by select()
          cview |-> None,     \* client.daily_usage as loaded, None when expired
          result |-> "pending"]

TypeOK ==
    /\ keys \in [KeyIds -> KeyRow]
    /\ client \in Nat
    /\ rr \in Nat
    /\ failures \in [KeyIds -> [count : Nat, first : Nat \cup {None}]]
    /\ store \in [KeyIds -> Nat]
    /\ inUse \in [KeyIds -> Nat]
    /\ req \in [Requests ->
                  [pc : {"idle", "select", "commit", "gate", "leased", "handle", "consume", "done"},
                   mode : Modes, key : 0..NumKeys, row : KeyRow, lease : BOOLEAN,
                   attempts : 0..TotalAttempts, tries : 0..SelectionTries,
                   decryptFailed : BOOLEAN, answer : AnswerKinds,
                   retryAfter : Nat \cup {None},
                   old : [KeyIds -> KeyRow], new : [KeyIds -> KeyRow],
                   cview : Nat \cup {None}, result : Results]]
    /\ now \in Nat /\ today \in Nat
    /\ served \in [KeyIds -> Nat] /\ servedToday \in [KeyIds -> Nat]
    /\ blurred \subseteq KeyIds

Init ==
    /\ keys = [k \in KeyIds |-> InitRow]
    /\ client = 0
    /\ rr = 0
    /\ failures = [k \in KeyIds |-> [count |-> 0, first |-> None]]
    /\ store = [k \in KeyIds |-> 0]
    /\ inUse = [k \in KeyIds |-> 0]
    /\ req = [r \in Requests |-> Blank]
    /\ now = 0 /\ today = 0
    /\ served = [k \in KeyIds |-> 0] /\ servedToday = served /\ blurred = {}
-----------------------------------------------------------------------------
\* Sessions.

\* The rows a query returns: the session's own copy of the key in hand.
View(r) == [k \in KeyIds |-> IF k = req[r].key THEN req[r].row ELSE keys[k]]

\* Whether a commit succeeds.
CommitOutcomes == IF DbFaults THEN BOOLEAN ELSE {TRUE}

Ended(r, result) == [Blank EXCEPT !.pc = "done", !.result = result,
                                  !.attempts = req[r].attempts, !.tries = req[r].tries]

\* Commit the changed row of the key in hand (or roll it back); either way
\* the session's rows expire and the key's row is loaded again by the
\* logging of its id, so that it is fresh in the session.
CommitRow(r, new, ok) ==
    keys' = IF ok THEN [keys EXCEPT ![req[r].key] = Merge(@, req[r].row, new)] ELSE keys

Reloaded(r) == [req[r] EXCEPT !.row = keys'[req[r].key], !.cview = None]

\* A call was served and accounted for.
Serve(k) ==
    /\ served' = [served EXCEPT ![k] = @ + 1]
    /\ servedToday' = [servedToday EXCEPT ![k] = @ + 1]
-----------------------------------------------------------------------------
\* Entry and selection.

\* Arrival in forward() or test_key().  A pinned key that is missing from
\* service falls back to the pool; the session keeps its row.
Start(r) ==
    LET k == Job[r].key
        usePool == Job[r].mode = "pool" \/ (Job[r].mode = "pinned" /\ Disabled(keys[k]))
        loaded == IF k = 0 THEN Blank ELSE [Blank EXCEPT !.key = k, !.row = keys[k]]
    IN  /\ req[r].pc = "idle"
        /\ req' = [req EXCEPT ![r] = [loaded EXCEPT
                !.mode = IF usePool THEN "pool" ELSE Job[r].mode,
                !.cview = client,
                !.pc = IF usePool THEN "select" ELSE IF Job[r].mode = "pinned" THEN "gate" ELSE "leased"]]
        /\ UNCHANGED <<keys, client, rr, failures, store, inUse, now, today, history>>

\* Seconds the shared store still holds the key, rounded as Redis rounds.
StoreTtl(k) == Greater((store[k] - now + TicksPerSec \div 2) \div TicksPerSec, 0)

\* forward()'s translation of a refusal after a key failed to decrypt.
Refused(r, code) ==
    IF req[r].decryptFailed /\ code \in {"NO_KEY_CONFIGURED", "ALL_KEYS_DISABLED", "NO_KEY_AVAILABLE"}
      THEN "KEY_DECRYPT_FAILED" ELSE code

\* The query and the scan of select(): clocks and rows are read here.
SelectQuery(r) ==
    LET s == Select(View(r), rr, [k \in KeyIds |-> StoreTtl(k)], now, today)
    IN  /\ req[r].pc = "select"
        /\ req[r].tries < SelectionTries
        /\ req' = [req EXCEPT ![r] =
                IF s.key = 0 THEN [Ended(r, Refused(r, s.error)) EXCEPT !.tries = req[r].tries + 1]
                ELSE [@ EXCEPT !.pc = "commit", !.tries = req[r].tries + 1, !.key = s.key,
                               !.row = BlankRow, !.old = View(r), !.new = s.rows]]
        /\ UNCHANGED <<keys, client, rr, failures, store, inUse, now, today, history>>

\* The commit of select(), the new round-robin index and the reload of the
\* chosen row (key.id, forwarder.py 521).
SelectCommit(r, ok) ==
    LET k == req[r].key
    IN  /\ req[r].pc = "commit"
        /\ keys' = IF ok THEN [j \in KeyIds |-> Merge(keys[j], req[r].old[j], req[r].new[j])] ELSE keys
        /\ rr' = IF ok THEN k ELSE rr
        /\ req' = [req EXCEPT ![r] =
                IF ok THEN [@ EXCEPT !.pc = "gate", !.row = keys'[k], !.cview = None,
                                     !.old = BlankRows, !.new = BlankRows]
                ELSE Ended(r, "DB_UNAVAILABLE")]
        /\ UNCHANGED <<client, failures, store, inUse, now, today, history>>

\* Mutant of SelectExhausted: the bound is tested one try too late.
SelectNeverExhausted(r) ==
    /\ req[r].pc = "select"
    /\ req[r].tries > SelectionTries
    /\ req' = [req EXCEPT ![r] = Ended(r, "ALL_KEYS_BUSY")]
    /\ UNCHANGED <<keys, client, rr, failures, store, inUse, now, today, history>>

\* The loop ends without an answer because selection was tried too often.
SelectExhausted(r) ==
    /\ req[r].pc = "select"
    /\ req[r].tries >= SelectionTries
    /\ req' = [req EXCEPT ![r] = Ended(r, IF req[r].attempts = 0 THEN "ALL_KEYS_BUSY"
                                          ELSE "UPSTREAM_UNAVAILABLE")]
    /\ UNCHANGED <<keys, client, rr, failures, store, inUse, now, today, history>>
-----------------------------------------------------------------------------
\* The key's rate limit and concurrency gate, decryption, the upstream call.

Limited == MaxConcurrent > 0

\* Mutant of SlotFree: one call too many.
SlotFreeOffByOne(k) == Limited => inUse[k] <= MaxConcurrent

\* try_acquire of the key's gate would succeed.
SlotFree(k) == Limited => inUse[k] < MaxConcurrent

\* Refused by the limiter or the gate: the pool tries another key, a pinned
\* request gives up.
TurnedAway(r) ==
    /\ req' = [req EXCEPT ![r] = IF @.mode = "pool" THEN [@ EXCEPT !.pc = "select"]
                                 ELSE Ended(r, "ALL_KEYS_BUSY")]
    /\ UNCHANGED <<keys, client, rr, failures, store, inUse, now, today, history>>

RateDenied(r) == req[r].pc = "gate" /\ RateLimited /\ TurnedAway(r)

NoLease(r) == req[r].pc = "gate" /\ ~SlotFree(req[r].key) /\ TurnedAway(r)

Acquire(r) ==
    /\ req[r].pc = "gate"
    /\ SlotFree(req[r].key)
    /\ inUse' = [inUse EXCEPT ![req[r].key] = IF Limited THEN @ + 1 ELSE @]
    /\ req' = [req EXCEPT ![r].pc = "leased", ![r].lease = Limited]
    /\ UNCHANGED <<keys, client, rr, failures, store, now, today, history>>

\* Mutant of Released: the slot of a call that failed is never given back.
ReleasedOnAnswer(r) ==
    IF req[r].lease /\ req[r].pc = "leased"
      THEN [inUse EXCEPT ![req[r].key] = Greater(@ - 1, 0)] ELSE inUse

\* lease.release() of the finally block.
Released(r) ==
    IF req[r].lease THEN [inUse EXCEPT ![req[r].key] = Greater(@ - 1, 0)] ELSE inUse

\* _disable_key_decrypt_failed
DecryptFailedRow(row) == [row EXCEPT !.status = "decrypt_failed", !.active = FALSE]

\* The end of test_key() and _test_key_exa(): the row as observed then.
Tested(r) == Ended(r, "tested")

\* The ciphertext does not decrypt: the key is taken out of service.
DecryptFail(r, ok) ==
    /\ req[r].pc = "leased"
    /\ req[r].key \in BadKeys
    /\ CommitRow(r, DecryptFailedRow(req[r].row), ok)
    /\ inUse' = Released(r)
    /\ req' = [req EXCEPT ![r] =
            CASE @.mode = "pool" -> [Reloaded(r) EXCEPT !.pc = "select", !.lease = FALSE,
                                                        !.decryptFailed = TRUE]
              [] @.mode = "pinned" -> Ended(r, "KEY_DECRYPT_FAILED")
              [] @.mode = "test" -> Tested(r)]
    /\ UNCHANGED <<client, rr, failures, store, now, today, history>>

\* The upstream call returns or raises.  An answer releases the lease before
\* it is looked at; an exception is recorded first.
Answered(r, a, h) ==
    LET raised == a \in {"timeout", "http_error"}
    IN  /\ req[r].pc = "leased"
        /\ req[r].key \notin BadKeys
        /\ h # None => a = "429"
        /\ inUse' = IF raised THEN inUse ELSE Released(r)
        /\ req' = [req EXCEPT ![r].pc = "handle", ![r].answer = a, ![r].retryAfter = h,
                              ![r].attempts = IF req[r].mode = "test" THEN @ ELSE @ + 1,
                              ![r].lease = @ /\ raised]
        /\ UNCHANGED <<keys, client, rr, failures, store, now, today, history>>
-----------------------------------------------------------------------------
\* What the answer does to the key, and where the request goes from there.

\* Mutants of Last: one attempt too many, one too few.
LastLate(r) == req[r].attempts > TotalAttempts
LastEarly(r) == req[r].attempts >= TotalAttempts - 1

\* No attempt is left.
Last(r) == req[r].attempts >= TotalAttempts

\* The request goes on: another key from the pool, or the pinned key again.
\* s is its session after the handling of this answer.
TryAgain(s) == [s EXCEPT !.pc = IF s.mode = "pool" THEN "select" ELSE "gate",
                         !.lease = FALSE, !.answer = "ok", !.retryAfter = None]

\* Failure counting is per key and per window; nothing clears it but time.
Counted(k) ==
    LET f == failures[k]
        lapsed == f.first = None \/ now - f.first > FailureWindowSeconds * TicksPerSec
    IN  IF lapsed THEN [count |-> 1, first |-> now] ELSE [f EXCEPT !.count = @ + 1]

\* _record_failure, judged by the session's copy of the row.  Below the
\* threshold nothing is committed and the copy stays as it is.
RecordFailure(r, ok) ==
    LET k == req[r].key
        skip == Disabled(req[r].row)
        f == Counted(k)
        hold == Greater(FailedCooldownSeconds, 1) * TicksPerSec
    IN  /\ failures' = IF skip THEN failures ELSE [failures EXCEPT ![k] = f]
        /\ IF skip \/ f.count < FailureThreshold THEN UNCHANGED keys
           ELSE CommitRow(r, [req[r].row EXCEPT !.status = "failed", !.until = now + hold], ok)

FailureSession(r) ==
    IF Disabled(req[r].row) \/ Counted(req[r].key).count < FailureThreshold
      THEN req[r] ELSE Reloaded(r)

\* A timeout, a transport error or a 5xx answer.
Failed(r, ok) ==
    /\ req[r].pc = "handle"
    /\ req[r].answer \in {"timeout", "http_error", "5xx"}
    /\ RecordFailure(r, ok)
    /\ inUse' = Released(r)
    /\ req' = [req EXCEPT ![r] =
            IF @.mode = "test" THEN Tested(r)
            ELSE IF ~Last(r) THEN TryAgain(FailureSession(r))
            ELSE Ended(r, CASE @.answer = "timeout" -> "UPSTREAM_TIMEOUT"
                            [] @.answer = "http_error" -> "UPSTREAM_UNAVAILABLE"
                            [] @.answer = "5xx" -> "answered")]
    /\ UNCHANGED <<client, rr, store, now, today, history>>

\* Where a request goes after an answer that puts its key out of service:
\* only a pool request with attempts left switches keys.
Switch(r, s) ==
    IF req[r].mode = "test" THEN Tested(r)
    ELSE IF req[r].mode = "pinned" \/ Last(r) THEN Ended(r, "answered")
    ELSE TryAgain(s)

\* _parse_retry_after(...) or cooldown_seconds: a zero counts as absent.
Cooldown(h) == IF h \in {None, 0} THEN CooldownSeconds ELSE h

\* _mark_cooling
CoolingRow(row, until) == [row EXCEPT !.status = "cooling", !.until = until]

\* 429: the key cools down, unless the session's copy says it is disabled.
TooMany(r, ok) ==
    LET skip == Disabled(req[r].row)
        until == now + Cooldown(req[r].retryAfter) * TicksPerSec
    IN  /\ req[r].pc = "handle" /\ req[r].answer = "429"
        /\ IF skip THEN UNCHANGED keys
           ELSE CommitRow(r, CoolingRow(req[r].row, until), ok)
        /\ store' = IF ~skip /\ ok /\ SharedStore THEN [store EXCEPT ![req[r].key] = until] ELSE store
        /\ req' = [req EXCEPT ![r] = Switch(r, IF skip THEN @ ELSE Reloaded(r))]
        /\ UNCHANGED <<client, rr, failures, inUse, now, today, history>>

\* _disable_key
DisabledRow(row) == [row EXCEPT !.status = "disabled", !.active = FALSE]

\* 401 or 403: the key is taken out of service.
Unauthorized(r, ok) ==
    /\ req[r].pc = "handle" /\ req[r].answer = "401"
    /\ CommitRow(r, DisabledRow(req[r].row), ok)
    /\ req' = [req EXCEPT ![r] = Switch(r, Reloaded(r))]
    /\ UNCHANGED <<client, rr, failures, store, inUse, now, today, history>>

\* Any other answer below 500 is the caller's business.
OtherAnswer(r) ==
    /\ req[r].pc = "handle" /\ req[r].answer = "4xx"
    /\ req' = [req EXCEPT ![r] = IF @.mode = "test" THEN Tested(r) ELSE Ended(r, "answered")]
    /\ UNCHANGED <<keys, client, rr, failures, store, inUse, now, today, history>>

\* _mark_active
ActiveRow(row) == [row EXCEPT !.status = "active", !.until = None]

\* A test succeeded: the key goes into service unless it is disabled.
TestOk(r, ok) ==
    /\ req[r].pc = "handle" /\ req[r].answer = "ok" /\ req[r].mode = "test"
    /\ IF Disabled(req[r].row) THEN UNCHANGED keys
       ELSE CommitRow(r, ActiveRow(req[r].row), ok)
    /\ req' = [req EXCEPT ![r] = Tested(r)]
    /\ UNCHANGED <<client, rr, failures, store, inUse, now, today, history>>

\* Mutant of Spent: a retried call is paid for twice.
SpentTwice(row) ==
    IF row.credits = None THEN row
    ELSE [row EXCEPT !.credits = Greater(@ - 2 * CreditCost, 0)]

\* The local credit estimate after a 2xx answer.
Spent(row) ==
    IF row.credits = None THEN row
    ELSE [row EXCEPT !.credits = Greater(@ - CreditCost, 0)]

\* 2xx: _consume_quota_on_success loads the client's row if it has expired ...
ReadClient(r) ==
    /\ req[r].pc = "handle" /\ req[r].answer = "ok" /\ req[r].mode # "test"
    /\ CountMode = "success"
    /\ req' = [req EXCEPT ![r].pc = "consume", ![r].cview = IF @ = None THEN client ELSE @]
    /\ UNCHANGED <<keys, client, rr, failures, store, inUse, now, today, history>>

\* One more call of the key's day, as far as the session knows.
CountUse(r, row) == [Spent(row) EXCEPT !.usage = @ + 1]

\* ... and adds one to the client's and the key's usage as loaded.
Consume(r, ok) ==
    LET k == req[r].key
        used == CountUse(r, req[r].row)
    IN  /\ req[r].pc = "consume"
        /\ CommitRow(r, IF OverQuota(k, used) THEN [used EXCEPT !.status = "quota_exceeded"] ELSE used, ok)
        /\ client' = IF ok /\ ClientCounted THEN req[r].cview + 1 ELSE client
        /\ IF ok THEN /\ Serve(k)
                      /\ blurred' = blurred \cup (IF req[r].row.day = today THEN {} ELSE {k})
           ELSE UNCHANGED history
        /\ req' = [req EXCEPT ![r] = Ended(r, IF ok THEN "answered" ELSE "DB_UNAVAILABLE")]
        /\ UNCHANGED <<rr, failures, store, inUse, now, today>>

\* With any other count_mode only the credit estimate is saved.
SaveCredits(r, ok) ==
    /\ req[r].pc = "handle" /\ req[r].answer = "ok" /\ req[r].mode # "test"
    /\ CountMode # "success"
    /\ CommitRow(r, Spent(req[r].row), ok)
    /\ IF ok THEN Serve(req[r].key) /\ UNCHANGED blurred ELSE UNCHANGED history
    /\ req' = [req EXCEPT ![r] = Ended(r, "answered")]
    /\ UNCHANGED <<client, rr, failures, store, inUse, now, today>>
-----------------------------------------------------------------------------
\* The environment: administrators and clocks.

\* delete_key, or update_key with is_active false.
AdminDisable(k) ==
    /\ AdminActs
    /\ keys' = [keys EXCEPT ![k].active = FALSE, ![k].status = "disabled"]
    /\ UNCHANGED <<client, rr, failures, store, inUse, req, now, today, history>>

\* update_key with is_active true.
AdminEnable(k) ==
    /\ AdminActs
    /\ keys' = [keys EXCEPT ![k].active = TRUE,
                            ![k].status = IF @ = "disabled" THEN "active" ELSE @]
    /\ UNCHANGED <<client, rr, failures, store, inUse, req, now, today, history>>

Tick ==
    /\ now < MaxNow
    /\ now' = now + 1
    /\ UNCHANGED <<keys, client, rr, failures, store, inUse, req, today, history>>

NewDay ==
    /\ today < MaxDay
    /\ today' = today + 1
    /\ servedToday' = [k \in KeyIds |-> 0]
    /\ blurred' = {k \in KeyIds : \E r \in Requests : req[r].key = k}
    /\ UNCHANGED <<keys, client, rr, failures, store, inUse, req, now, served>>

\* Every request has ended.
Quiet == (\A r \in Requests : req[r].pc = "done") /\ UNCHANGED vars

\* The steps of one request.
Step(r) ==
    \/ Start(r)
    \/ SelectQuery(r) \/ SelectExhausted(r)
    \/ RateDenied(r) \/ NoLease(r) \/ Acquire(r)
    \/ \E a \in Answers, h \in RetryAfters \cup {None} : Answered(r, a, h)
    \/ OtherAnswer(r) \/ ReadClient(r)
    \/ \E ok \in CommitOutcomes :
          \/ SelectCommit(r, ok) \/ DecryptFail(r, ok) \/ Failed(r, ok)
          \/ TooMany(r, ok) \/ Unauthorized(r, ok) \/ TestOk(r, ok)
          \/ Consume(r, ok) \/ SaveCredits(r, ok)

Next ==
    \/ \E r \in Requests : Step(r)
    \/ \E k \in KeyIds : AdminDisable(k) \/ AdminEnable(k)
    \/ Tick \/ NewDay
    \/ Quiet

Spec == Init /\ [][Next]_vars

\* A request thread always goes on: upstream calls end by their timeout and
\* nothing in forward() blocks.
FairSpec == Spec /\ \A r \in Requests : WF_vars(Step(r))
-----------------------------------------------------------------------------
\* Properties.

\* The pool requests and pinned requests with an upstream call on key k.
Calling(k) == {r \in Requests : req[r].pc = "leased" /\ req[r].mode # "test" /\ req[r].key = k}

\* The requests that hold a slot of key k.
HoldersOf(k) == {r \in Requests : req[r].lease /\ req[r].key = k}

\* A key is never used by more calls at once than max_concurrent allows,
\* whichever way the requests switch keys, retry or fail.
CallsWithinLimit == Limited => \A k \in KeyIds : Cardinality(Calling(k)) <= MaxConcurrent

\* The slots in use are those of the requests that hold one: every exit of
\* forward() gives its slot back, and gives it back once.
SlotsHeld == \A k \in KeyIds : inUse[k] = Cardinality(HoldersOf(k))

Sem == INSTANCE Semaphore WITH Keys <- KeyIds, Holders <- Requests,
                               Limits <- {MaxConcurrent}, holders <- [k \in KeyIds |-> HoldersOf(k)]

\* The forwarder's use of its leases implements the semaphore.
ImplementsSemaphore == Sem!Spec

\* A request never puts a key back into service that an administrator or
\* another request took out of it while the request was waiting for its
\* upstream answer with an old copy of the row.
NeverReactivated ==
    [][req' # req => \A k \in KeyIds : ~keys[k].active => ~keys'[k].active]_vars

\* Only calls that succeeded are charged, each at most once and to its day,
\* although usage is computed from copies of the row that may be old, and the
\* reset at midnight is left to whoever selects first (key_pool.py 94-98,
\* forwarder.py 1029-1041): the usage of a key that is dated today is never
\* more than what it served today.  Excepted for the rest of the day is a key
\* that a request had in hand at midnight, and one charged by a pinned
\* request that loaded the row before anybody reset it: both may bring
\* yesterday's usage into the new day.
NoOvercharge ==
    \A k \in KeyIds : keys[k].day = today /\ k \notin blurred => keys[k].usage <= servedToday[k]

\* Of all days, for the local estimate of the remaining credits, which may only
\* be too optimistic.
CreditsNotOvercharged ==
    \A k \in KeyIds : keys[k].credits # None
        => InitCredits - keys[k].credits <= CreditCost * served[k]

\* A request gives up on the upstream only after all the attempts it has, or
\* when selection was tried too often; it says "busy" only if it never got
\* through to a call (or its pinned key was busy).
GivesUpWhenSpent ==
    \A r \in Requests :
        /\ req[r].result = "UPSTREAM_TIMEOUT" => req[r].attempts = TotalAttempts
        /\ req[r].result = "UPSTREAM_UNAVAILABLE" =>
              \/ req[r].attempts = TotalAttempts
              \/ req[r].attempts > 0 /\ req[r].tries = SelectionTries
        /\ req[r].result = "ALL_KEYS_BUSY" /\ Job[r].mode = "pool" =>
              req[r].attempts = 0 /\ req[r].tries = SelectionTries

\* Every request ends, whatever the upstream, the database, the limiter and
\* the administrators do: the loop of forward() is bounded by its attempts
\* and by its selection tries (forwarder.py 504), not by anybody's progress.
AllEnd == \A r \in Requests : <>(req[r].pc = "done")
=============================================================================
