------------------------------ MODULE KeyPool ------------------------------
(***************************************************************************)
(* Key selection (app/core/key_pool.py) over the rows of one scope, i.e.   *)
(* the keys of one client and one provider ordered by id.  Selection is a  *)
(* pure function of the rows the session sees, the round-robin index, the  *)
(* cooldown store and the clocks; Forwarder decides when it reads them and *)
(* when its writes reach the database.                                     *)
(***************************************************************************)
EXTENDS Integers, FiniteSets

CONSTANTS NumKeys,    \* keys in the scope, with ids 1 .. NumKeys
          DailyQuota, \* DailyQuota[k]: daily_quota of k, None when unlimited
          TicksPerSec \* clock resolution: datetimes are finer than the whole
                      \* seconds that cooldowns are compared in

None == -1

ASSUME KeyPoolAssumption ==
    /\ NumKeys \in Nat
    /\ DailyQuota \in [1..NumKeys -> Nat \cup {None}]
    /\ TicksPerSec \in Nat \ {0}

KeyIds == 1..NumKeys

Statuses == {"active", "cooling", "failed", "quota_exceeded", "disabled", "decrypt_failed"}

\* The columns of an api_keys row that the data plane reads or writes.
KeyRow == [active  : BOOLEAN,           \* is_active
           status  : Statuses,
           until   : Nat \cup {None},   \* cooldown_until, in ticks
           usage   : Nat,               \* daily_usage
           day     : Nat,               \* quota_reset_at
           credits : Nat \cup {None}]   \* cached_remaining_credits

Greater(a, b) == IF a >= b THEN a ELSE b

\* _is_disabled
Disabled(row) == ~row.active \/ row.status = "disabled"

\* _cooldown_remaining_seconds: int() truncates the fraction of a second.
CooldownRemaining(row, now) ==
    IF row.until = None THEN 0 ELSE Greater((row.until - now) \div TicksPerSec, 0)

\* Mutant of LazyReset: the row is not stamped with the new day.
LazyResetUndated(row, today) ==
    IF row.day = today THEN row
    ELSE [row EXCEPT !.usage = 0, !.status = IF @ = "quota_exceeded" THEN "active" ELSE @]

\* Mutant of LazyReset: the row is dated but keeps yesterday's usage.
LazyResetDateOnly(row, today) ==
    IF row.day = today THEN row
    ELSE [row EXCEPT !.day = today, !.status = IF @ = "quota_exceeded" THEN "active" ELSE @]

\* Daily usage is reset by whoever looks at the row first on a new day.
LazyReset(row, today) ==
    IF row.day = today THEN row
    ELSE [row EXCEPT !.usage = 0, !.day = today,
                     !.status = IF @ = "quota_exceeded" THEN "active" ELSE @]

\* Whole seconds a cooling or failed row still waits.  The shared store is
\* asked about cooling rows only; ttl is 0 when it knows nothing.
Remaining(row, ttl, now) ==
    IF row.status = "cooling" THEN Greater(CooldownRemaining(row, now), ttl)
    ELSE CooldownRemaining(row, now)

OnHold(row) == row.status \in {"cooling", "failed"}

Waiting(row, ttl, now) == OnHold(row) /\ Remaining(row, ttl, now) > 0

\* A row whose hold is over becomes active again.
Recovered(row) == IF OnHold(row) THEN [row EXCEPT !.until = None, !.status = "active"] ELSE row

OverQuota(k, row) == DailyQuota[k] # None /\ row.usage >= DailyQuota[k]

\* What the scan finds out about one row: "disabled", "waiting", "quota" or
\* "usable".
Verdict(k, row, ttl, now, today) ==
    LET fresh == LazyReset(row, today)
    IN  IF Disabled(row) THEN "disabled"
        ELSE IF Waiting(fresh, ttl, now) THEN "waiting"
        ELSE IF OverQuota(k, fresh) THEN "quota"
        ELSE "usable"

\* The row as the scan leaves it in the session.
Examined(k, row, ttl, now, today) ==
    LET fresh == LazyReset(row, today)
        verdict == Verdict(k, row, ttl, now, today)
    IN  CASE verdict = "disabled" -> row
          [] verdict = "waiting" -> fresh
          [] verdict = "quota" -> [Recovered(fresh) EXCEPT !.status = "quota_exceeded"]
          [] verdict = "usable" -> Recovered(fresh)

\* Mutant of Merge: the whole row is written back.
MergeRow(db, old, new) == new

\* A flush writes the columns whose value differs from the loaded one.
Merge(db, old, new) ==
    [c \in DOMAIN db |-> IF new[c] # old[c] THEN new[c] ELSE db[c]]

\* Position of key k in a scan that starts at index rr % len(keys).
Offset(k, rr) == (k - 1 - rr) % NumKeys

\* The refusal of select() when no row is usable.
Refusal(verdict) ==
    LET count(v) == Cardinality({k \in KeyIds : verdict[k] = v})
    IN  IF NumKeys = 0 THEN "NO_KEY_CONFIGURED"
        ELSE IF count("disabled") = NumKeys THEN "ALL_KEYS_DISABLED"
        ELSE IF count("quota") > 0 /\ count("quota") + count("disabled") = NumKeys
          THEN "ALL_KEYS_QUOTA_EXCEEDED"
        ELSE IF count("waiting") > 0 /\ count("waiting") + count("disabled") = NumKeys
          THEN "ALL_KEYS_COOLING"
        ELSE "NO_KEY_AVAILABLE"

\* Mutant of Chosen: the scan ignores where the last one stopped.
ChosenFirst(usable, rr) == CHOOSE k \in usable : \A j \in usable : k <= j

\* The first usable key of the scan.
Chosen(usable, rr) == CHOOSE k \in usable : \A j \in usable : Offset(k, rr) <= Offset(j, rr)

\* select(): the chosen key and the rows as the session holds them when it
\* commits, or the refusal (whose changes are never committed).  The rows
\* after the chosen one are not examined.
Select(rows, rr, ttl, now, today) ==
    LET verdict == [k \in KeyIds |-> Verdict(k, rows[k], ttl[k], now, today)]
        usable == {k \in KeyIds : verdict[k] = "usable"}
        pick == Chosen(usable, rr)
    IN  IF usable = {}
          THEN [key |-> 0, rows |-> rows, error |-> Refusal(verdict)]
          ELSE [key |-> pick, error |-> "none",
                rows |-> [k \in KeyIds |->
                            IF Offset(k, rr) <= Offset(pick, rr)
                              THEN Examined(k, rows[k], ttl[k], now, today) ELSE rows[k]]]
=============================================================================
