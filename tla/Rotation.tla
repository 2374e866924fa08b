------------------------------ MODULE Rotation ------------------------------
(***************************************************************************)
(* KeyPool.select() called again and again by several threads, while the   *)
(* rows of the scope change in any way: keys are disabled, cool down, run  *)
(* out of quota and come back.  A selection reads the clocks, the rows and *)
(* the round-robin index at three moments, commits what its scan changed   *)
(* and writes the index back; other threads and other components are at    *)
(* work in between.                                                        *)
(***************************************************************************)
EXTENDS KeyPool, Combinatorics

CONSTANTS Threads,
          RowChoices, \* rows other components may leave behind
          DbFaults,   \* TRUE: a commit may fail
          MaxWrites,  \* bound on the writes of other components
          MaxNow      \* bound on the clock

ASSUME RotationAssumption ==
    /\ RowChoices \subseteq KeyRow
    /\ DbFaults \in BOOLEAN
    /\ MaxWrites \in Nat /\ MaxNow \in Nat

VARIABLES rows, rr, now, today,
          writes,   \* writes of other components so far
          call,     \* per thread: the selection it is in
          followed, \* history: the key that the two counts are about, any key
          passed,   \* history: selections in a row that found it usable and
                    \* handed out another one
          chain     \* history: the same along the chain of selections that
                    \* led to rr, each starting where the one before stopped

rotationVars == <<rows, rr, now, today, writes, call, followed, passed, chain>>

NoTtl == [k \in KeyIds |-> 0]

\* The local variables of select(), and its session.
Idle == [pc |-> "idle", now |-> 0, today |-> 0, start |-> 0, chain |-> 0, key |-> 0,
         old |-> << >>,   \* the rows as the query returned them
         touched |-> {}]  \* history: keys that others wrote since then

RotationInit ==
    /\ rows \in [KeyIds -> RowChoices]
    /\ rr = 0 /\ now = 0 /\ today = 0 /\ writes = 0
    /\ call = [t \in Threads |-> Idle]
    /\ followed \in KeyIds /\ passed = 0 /\ chain = 0

\* What the scan of thread t finds, and what it changes in its session.
Scanned(t) == Select(call[t].old, call[t].start, NoTtl, call[t].now, call[t].today)

FoundUsable(t, k) ==
    Verdict(k, call[t].old[k], 0, call[t].now, call[t].today) = "usable"

\* The clocks are read first.
ReadClocks(t) ==
    /\ call[t].pc = "idle"
    /\ call' = [call EXCEPT ![t] = [Idle EXCEPT !.pc = "query", !.now = now, !.today = today]]
    /\ UNCHANGED <<rows, rr, now, today, writes, followed, passed, chain>>

\* The rows of the scope.
QueryRows(t) ==
    /\ call[t].pc = "query"
    /\ call' = [call EXCEPT ![t].pc = "scan", ![t].old = rows]
    /\ UNCHANGED <<rows, rr, now, today, writes, followed, passed, chain>>

\* The index, in a critical section of its own, and the scan.  A refusal
\* leaves everything as it was: its changes are not committed.
Scan(t) ==
    /\ call[t].pc = "scan"
    /\ call' = [call EXCEPT ![t] =
            IF Select(@.old, rr, NoTtl, @.now, @.today).key = 0 THEN Idle
            ELSE [@ EXCEPT !.pc = "commit", !.start = rr, !.chain = chain]]
    /\ UNCHANGED <<rows, rr, now, today, writes, followed, passed, chain>>

\* The count n after a selection that hands out key k.
PassedOver(t, k, n) == IF k # followed /\ FoundUsable(t, followed) THEN n + 1 ELSE 0

\* The commit merges the changes of the scan into the rows of that moment.
CommitScan(t) ==
    LET s == Scanned(t)
    IN  /\ call[t].pc = "commit"
        /\ rows' = [k \in KeyIds |-> Merge(rows[k], call[t].old[k], s.rows[k])]
        /\ passed' = PassedOver(t, s.key, passed)
        /\ call' = [call EXCEPT ![t] = [Idle EXCEPT !.pc = "index", !.key = s.key,
                                                    !.chain = PassedOver(t, s.key, call[t].chain)]]
        /\ UNCHANGED <<rr, now, today, writes, followed, chain>>

CommitFails(t) ==
    /\ DbFaults
    /\ call[t].pc = "commit"
    /\ call' = [call EXCEPT ![t] = Idle]
    /\ UNCHANGED <<rows, rr, now, today, writes, followed, passed, chain>>

\* Mutant of WriteIndex: the index of the scan is written back unchanged.
WriteIndexNot(t) ==
    /\ call[t].pc = "index"
    /\ chain' = call[t].chain
    /\ call' = [call EXCEPT ![t] = Idle]
    /\ UNCHANGED <<rows, rr, now, today, writes, followed, passed>>

\* The index is written in another critical section, whatever it is by now.
WriteIndex(t) ==
    /\ call[t].pc = "index"
    /\ rr' = call[t].key /\ chain' = call[t].chain
    /\ call' = [call EXCEPT ![t] = Idle]
    /\ UNCHANGED <<rows, now, today, writes, followed, passed>>

\* Another component writes row k.
Rewrite(k) ==
    /\ writes < MaxWrites /\ writes' = writes + 1
    /\ \E row \in RowChoices : rows' = [rows EXCEPT ![k] = row]
    /\ call' = [t \in Threads |-> IF call[t].pc \in {"scan", "commit"}
                                    THEN [call[t] EXCEPT !.touched = @ \cup {k}] ELSE call[t]]
    /\ UNCHANGED <<rr, now, today, followed, passed, chain>>

\* Time passes, and midnight may pass with it.
Tick ==
    /\ now < MaxNow /\ now' = now + 1
    /\ today' \in {today, today + 1}
    /\ UNCHANGED <<rows, rr, writes, call, followed, passed, chain>>

RotationNext ==
    \/ \E t \in Threads : \/ ReadClocks(t) \/ QueryRows(t) \/ Scan(t)
                          \/ CommitScan(t) \/ CommitFails(t) \/ WriteIndex(t)
    \/ \E k \in KeyIds : Rewrite(k)
    \/ Tick

RotationSpec == RotationInit /\ [][RotationNext]_rotationVars
-----------------------------------------------------------------------------
\* Properties.

\* Round-robin fairness (key_pool.py 82-85, 132-133) along the index: follow
\* the selections that led to it, each of which began its scan where the one
\* before had stopped; fewer than NumKeys of them in a row passed over a key
\* that they found usable.
FairChain == chain < NumKeys

\* Round-robin fairness in total.  A slow selection puts the index back to
\* where it was, and the scans between are repeated, so the threads of the
\* pool multiply the wait of a key that stays usable; with one thread the
\* bound is NumKeys - 1.  How often it can be passed over:
\* b(d, n), for an index d places before the key and n threads, is
\* 1 + b(d, n - 1) + b(d - 1, n), and the sum over the threads is this.
NoStarvation ==
    LET n == Cardinality(Threads) IN passed <= choose(NumKeys + n, n) - n - 1

\* What is committed for the key handed out is a row in service by the clocks
\* the selection read, although the rows, the index and the clocks may have
\* moved on since: active, not on hold, below its quota, and counted for the
\* day of the selection unless a concurrent selection dated it differently
\* (key_pool.py 93-123).  Only a key that another component wrote between the
\* query and the commit may be handed out in any state.
HandedOutInService ==
    [][\A t \in Threads : call[t].pc = "commit" /\ call'[t].pc = "index" =>
          LET k == Scanned(t).key IN
          k \notin call[t].touched =>
             /\ ~Disabled(rows'[k]) /\ ~OnHold(rows'[k]) /\ ~OverQuota(k, rows'[k])
             /\ rows[k].day = call[t].old[k].day => rows'[k].day = call[t].today]_rotationVars
=============================================================================
