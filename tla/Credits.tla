------------------------------ MODULE Credits ------------------------------
(***************************************************************************)
(* Credit monitoring: the background loop (app/core/credit_refresh.py,     *)
(* credit_refresh_scheduler.py), the call to the upstream                  *)
(* (credit_fetcher.py) and the manual refresh of the control plane, with   *)
(* administrators that change or purge keys while a call is awaited.       *)
(*                                                                         *)
(* Times are counted down in ticks: due[k] is what is left until           *)
(* next_refresh_at, 0 when it has passed or is NULL.  The loop's session   *)
(* holds the rows it has read and the next_refresh_at of keys it has       *)
(* handled until a commit; every commit of the session writes all of the   *)
(* latter, every rollback drops them, and both expire the rows.            *)
(***************************************************************************)
EXTENDS Integers

CONSTANTS NumKeys,
          BadKeys,    \* keys whose ciphertext does not decrypt
          BatchSize,
          RetryTicks, \* retry_delay_minutes
          HighTicks,  \* refresh interval of a key that is nearly spent,
          LowTicks,   \* of one that is not,
          SpentTicks, \* and of one without credits: until the next month
          MinTicks,   \* min_manual_refresh_interval_seconds
          Faults,     \* TRUE: a commit may fail
          MaxActs     \* bound: acts of administrators and restarts

KeyIds == 1..NumKeys
None == -1
MaxDue == CHOOSE d \in {RetryTicks, HighTicks, LowTicks, SpentTicks} :
              \A e \in {RetryTicks, HighTicks, LowTicks, SpentTicks} : e <= d

ASSUME CreditsAssumption ==
    /\ {NumKeys, BatchSize, RetryTicks, HighTicks, LowTicks, SpentTicks, MinTicks} \subseteq Nat \ {0}
    /\ BadKeys \subseteq KeyIds /\ Faults \in BOOLEAN /\ MaxActs \in Nat

VARIABLES row,    \* is_active and status of each key
          due,    \* due[k]: ticks until next_refresh_at
          fresh,  \* fresh[k]: ticks until a manual refresh is allowed again
          loop,   \* the pass of credit_refresh_loop
          manual, \* a manual refresh
          acts,   \* acts so far
          wait    \* history: ticks that the loop promised to leave k alone

vars == <<row, due, fresh, loop, manual, acts, wait>>

Absent == [active |-> FALSE, status |-> "absent"]
Rows == [active : BOOLEAN, status : {"active", "cooling", "disabled", "failed", "decrypt_failed"}] \cup {Absent}

\* todo: the keys still to be fetched; rows: their rows as the query read them,
\* Absent once expired; copy: the row of the key in hand as loaded; pend: uncommitted next_refresh_at; age: ticks since the pass began,
\* up to RetryTicks; count: keys of the batch.
Sleeping == [pc |-> "sleep", todo |-> {}, rows |-> [k \in KeyIds |-> Absent], key |-> None, copy |-> Absent,
             pend |-> [k \in KeyIds |-> None], age |-> 0, count |-> 0]
NoManual == [key |-> None, copy |-> Absent]

TypeOK ==
    /\ row \in [KeyIds -> Rows]
    /\ due \in [KeyIds -> 0..MaxDue] /\ fresh \in [KeyIds -> 0..MinTicks]
    /\ loop \in [pc : {"sleep", "next", "call"}, todo : SUBSET KeyIds, rows : [KeyIds -> Rows],
                 key : KeyIds \cup {None}, copy : Rows,
                 pend : [KeyIds -> 0..MaxDue \cup {None}], age : 0..RetryTicks, count : 0..BatchSize]
    /\ manual \in [key : KeyIds \cup {None}, copy : Rows]
    /\ acts \in 0..MaxActs /\ wait \in [KeyIds -> 0..RetryTicks]

Init ==
    /\ row = [k \in KeyIds |-> [active |-> TRUE, status |-> "active"]]
    /\ due = [k \in KeyIds |-> 0] /\ fresh = due
    /\ loop = Sleeping /\ manual = NoManual
    /\ acts = 0 /\ wait = due
-----------------------------------------------------------------------------
Outcomes == IF Faults THEN BOOLEAN ELSE {TRUE}

\* The columns that differ from the loaded copy are written; a row that was
\* purged stays purged, and the commit fails.
Merged(cur, copy, new) ==
    IF cur = Absent THEN Absent
    ELSE [c \in DOMAIN cur |-> IF new[c] # copy[c] THEN new[c] ELSE cur[c]]

\* What fetch_credit_from_firecrawl can end with, besides the credits it was
\* told: no key to call with, 401 or 403, 429, an exception that leaves the
\* session alone ("unsent": no connection, a body of another shape), and
\* everything else, from a timeout to an answer that is not JSON.
Failures(k) == IF k \in BadKeys THEN {"decrypt"} ELSE {"401", "429", "unsent", "other"}
Levels(k) == IF k \in BadKeys THEN {} ELSE {"high", "low", "spent"}

AfterFailure(copy, failure) ==
    CASE failure = "decrypt" -> [active |-> FALSE, status |-> "decrypt_failed"]
      [] failure = "401" -> [active |-> FALSE, status |-> "failed"]
      [] failure = "429" -> [copy EXCEPT !.status = "cooling"]
      [] OTHER -> copy

\* calculate_next_refresh_time.
NextRefresh(level) == CASE level = "high" -> HighTicks [] level = "low" -> LowTicks [] OTHER -> SpentTicks

\* _refresh_once selects active keys that are due.
Eligible(k) == row[k].active /\ row[k].status \in {"active", "cooling"}
DueKeys == {k \in KeyIds : Eligible(k) /\ due[k] = 0}

\* What a commit of the loop's session writes to next_refresh_at.  It fails if
\* the row of one of these keys was purged.
Flushed == [k \in KeyIds |-> IF loop.pend[k] # None THEN loop.pend[k] ELSE due[k]]
LoopOutcomes == IF \E k \in KeyIds : loop.pend[k] # None /\ row[k] = Absent THEN {FALSE} ELSE Outcomes
Unsaved == [k \in KeyIds |-> None]
Expired == [k \in KeyIds |-> Absent]

\* A rollback loses the delays that were not committed, and no other.
Forgotten == [k \in KeyIds |-> IF loop.pend[k] # None THEN 0 ELSE wait[k]]
-----------------------------------------------------------------------------
\* The loop.

LoopStart ==
    /\ loop.pc = "sleep" /\ DueKeys # {}
    /\ loop' = [Sleeping EXCEPT !.pc = "next", !.todo = DueKeys,
                                !.rows = [k \in KeyIds |-> IF k \in DueKeys THEN row[k] ELSE Absent]]
    /\ UNCHANGED <<row, due, fresh, manual, acts, wait>>

\* The session is closed without a commit; the loop logs it and sleeps.
Abort == loop' = Sleeping /\ wait' = Forgotten

\* Mutant of BatchFull: the slice takes one key more.
BatchFullLate == loop.count > BatchSize

BatchFull == loop.count = BatchSize

\* The next key in the order of the ids, and its call is awaited.  Its row is
\* loaded again if it has expired since the query; then the row of a purged
\* key cannot be loaded, which ends the pass.
LoopCall ==
    /\ loop.pc = "next" /\ ~BatchFull
    /\ \E k \in loop.todo :
          LET held == IF loop.rows[k] # Absent THEN loop.rows[k] ELSE row[k]
          IN  /\ \A j \in loop.todo : k <= j
              /\ IF held = Absent
                   THEN Abort
                   ELSE /\ loop' = [loop EXCEPT !.pc = "call", !.key = k, !.copy = held,
                                                !.todo = @ \ {k}, !.rows[k] = Absent]
                        /\ UNCHANGED wait
    /\ UNCHANGED <<row, due, fresh, manual, acts>>

\* Mutant of Retry: the key stays due.
RetryNow(k, pend) == pend

\* The except clause: RetryTicks after the beginning of the pass.
Retry(k, pend) == [pend EXCEPT ![k] = RetryTicks - loop.age]

Handled(rows, pend) ==
    [loop EXCEPT !.pc = "next", !.key = None, !.copy = Absent, !.rows = rows, !.pend = pend, !.count = @ + 1]

\* The credits are stored with the next refresh, which the loop computes once
\* more.  If the commit fails the key is retried like after a failure.
LoopFetched(level, ok) ==
    LET k == loop.key
    IN  /\ loop.pc = "call" /\ level \in Levels(k) /\ row[k] # Absent
        /\ IF ok
             THEN /\ due' = [Flushed EXCEPT ![k] = NextRefresh(level)]
                  /\ fresh' = [fresh EXCEPT ![k] = MinTicks]
                  /\ loop' = Handled(Expired, [Unsaved EXCEPT ![k] = NextRefresh(level)])
                  /\ wait' = [wait EXCEPT ![k] = 0]
             ELSE /\ loop' = Handled(Expired, Retry(k, Unsaved))
                  /\ wait' = [Forgotten EXCEPT ![k] = RetryTicks - loop.age]
                  /\ UNCHANGED <<due, fresh>>
        /\ UNCHANGED <<row, manual, acts>>

\* Mutant of LoopFailed: the exception of one key ends the pass.
LoopFailedOut(failure, ok) ==
    /\ loop.pc = "call" /\ failure \in Failures(loop.key) /\ row[loop.key] # Absent
    /\ row' = IF ok THEN [row EXCEPT ![loop.key] = Merged(@, loop.copy, AfterFailure(loop.copy, failure))] ELSE row
    /\ due' = IF ok THEN Flushed ELSE due
    /\ Abort
    /\ UNCHANGED <<fresh, manual, acts>>

\* A failure is committed with its snapshot, or rolled back with whatever the
\* session held of other keys, except that a call that was not sent leaves the
\* session alone; then the key is to be retried.
LoopFailed(failure, ok) ==
    LET k == loop.key
        unsent == failure = "unsent"
    IN  /\ loop.pc = "call" /\ failure \in Failures(k) /\ (row[k] # Absent \/ unsent)
        /\ row' = IF ok THEN [row EXCEPT ![k] = Merged(@, loop.copy, AfterFailure(loop.copy, failure))] ELSE row
        /\ due' = IF ok /\ ~unsent THEN Flushed ELSE due
        /\ loop' = IF unsent THEN Handled(loop.rows, Retry(k, loop.pend)) ELSE Handled(Expired, Retry(k, Unsaved))
        /\ wait' = [(IF ok \/ unsent THEN wait ELSE Forgotten) EXCEPT ![k] = RetryTicks - loop.age]
        /\ UNCHANGED <<fresh, manual, acts>>

\* The key was purged during the call, whose end is committed or rolled back:
\* the row has expired, not even its id can be read in the except clause, and
\* the pass ends.
LoopLost(ok) ==
    /\ loop.pc = "call" /\ row[loop.key] = Absent
    /\ due' = IF ok THEN Flushed ELSE due
    /\ Abort
    /\ UNCHANGED <<row, fresh, manual, acts>>

\* The commit of a batch.  After the last one old snapshots are deleted and
\* the loop sleeps.
BatchCommit(ok) ==
    /\ loop.pc = "next" /\ (loop.todo = {} \/ BatchFull)
    /\ due' = IF ok THEN Flushed ELSE due
    /\ wait' = IF ok THEN wait ELSE Forgotten
    /\ loop' = IF loop.todo = {} THEN Sleeping ELSE [loop EXCEPT !.rows = Expired, !.pend = Unsaved, !.count = 0]
    /\ UNCHANGED <<row, fresh, manual, acts>>
-----------------------------------------------------------------------------
\* A manual refresh, of one key or of all active ones in turn, which may be
\* forced.

ManualStart(k) ==
    /\ manual.key = None /\ acts < MaxActs
    /\ row[k] # Absent /\ (fresh[k] = 0 \/ row[k].active)
    /\ manual' = [key |-> k, copy |-> row[k]] /\ acts' = acts + 1
    /\ UNCHANGED <<row, due, fresh, loop, wait>>

ManualFetched(level, ok) ==
    LET k == manual.key
        done == ok /\ row[k] # Absent
    IN  /\ k # None /\ level \in Levels(k)
        /\ due' = IF done THEN [due EXCEPT ![k] = NextRefresh(level)] ELSE due
        /\ fresh' = IF done THEN [fresh EXCEPT ![k] = MinTicks] ELSE fresh
        /\ wait' = IF done THEN [wait EXCEPT ![k] = 0] ELSE wait
        /\ manual' = NoManual
        /\ UNCHANGED <<row, loop, acts>>

ManualFailed(failure, ok) ==
    LET k == manual.key
    IN  /\ k # None /\ failure \in Failures(k)
        /\ row' = IF ok THEN [row EXCEPT ![k] = Merged(@, manual.copy, AfterFailure(manual.copy, failure))] ELSE row
        /\ manual' = NoManual
        /\ UNCHANGED <<due, fresh, loop, acts, wait>>
-----------------------------------------------------------------------------
\* The environment.

\* update_key, delete_key and purge_key (module Admin).
Administer(k) ==
    /\ acts < MaxActs /\ row[k] # Absent
    /\ row' \in {[row EXCEPT ![k] = r] :
                    r \in {Absent, [active |-> FALSE, status |-> "disabled"], [active |-> TRUE, status |-> "active"]}}
    /\ acts' = acts + 1
    /\ UNCHANGED <<due, fresh, loop, manual, wait>>

\* stop_credit_refresh_scheduler cancels the task, or the process dies; it is
\* started again with the application.
Restart ==
    /\ acts < MaxActs /\ loop.pc # "sleep"
    /\ Abort /\ manual' = NoManual /\ acts' = acts + 1
    /\ UNCHANGED <<row, due, fresh>>

Less(f) == [k \in DOMAIN f |-> IF f[k] > 0 THEN f[k] - 1 ELSE f[k]]

Tick ==
    /\ due' = Less(due) /\ fresh' = Less(fresh) /\ wait' = Less(wait)
    /\ loop' = [loop EXCEPT !.pend = Less(@), !.age = IF loop.pc # "sleep" /\ @ < RetryTicks THEN @ + 1 ELSE @]
    /\ UNCHANGED <<row, manual, acts>>

LoopStep ==
    \/ LoopStart \/ LoopCall
    \/ \E ok \in LoopOutcomes :
          \/ BatchCommit(ok) \/ LoopLost(ok)
          \/ \E level \in {"high", "low", "spent"} : LoopFetched(level, ok)
          \/ \E failure \in {"decrypt", "401", "429", "unsent", "other"} : LoopFailed(failure, ok)

ManualStep ==
    \/ \E k \in KeyIds : ManualStart(k)
    \/ \E ok \in Outcomes :
          \/ \E level \in {"high", "low", "spent"} : ManualFetched(level, ok)
          \/ \E failure \in {"decrypt", "401", "429", "unsent", "other"} : ManualFailed(failure, ok)

Next == LoopStep \/ ManualStep \/ Tick \/ Restart \/ \E k \in KeyIds : Administer(k)

\* The loop goes on: its call has a timeout and its errors are caught.  Time
\* passes.
Spec == Init /\ [][Next]_vars /\ WF_vars(LoopStep) /\ WF_vars(Tick)
-----------------------------------------------------------------------------
\* Properties.

\* A key whose call failed is not called again before the retry delay is over,
\* whatever the other keys of its batch do (credit_refresh.py 117-147).  The
\* delay counts from the start of the pass in which the call failed, where the
\* code reads its clock (line 98): in a pass that takes longer, nothing is left
\* of it when the call fails.  A delay that is still uncommitted when the
\* session is rolled back or closed - a failed commit, a purged key of the
\* pass, a restart - is forgotten, and a manual refresh replaces it; a
\* committed one is lost by neither.
RetryDelayed == [][loop'.pc = "call" /\ loop.pc # "call" => wait[loop'.key] = 0]_vars

\* A key that stays in service is refreshed again and again: failures of other
\* keys, failed commits, purges and restarts delay it, but no key is starved
\* (credit_refresh.py 63-147).
NoKeyForgotten == \A k \in KeyIds : []<>(loop.key = k \/ ~Eligible(k))
=============================================================================
