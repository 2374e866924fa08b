-------------------------- MODULE ForwarderProofs --------------------------
(***************************************************************************)
(* Forwarding is correct for every set of requests, finite or not, every   *)
(* number of keys, every limit, quota and retry setting, whatever the      *)
(* upstream, the database and the administrators do.                       *)
(*                                                                         *)
(* The properties of the run are not inductive.  A row of the database is  *)
(* never charged too much because no copy of a row in any session is; a    *)
(* copy only ever lags behind, and a merge takes each column from one of   *)
(* the two.  For the day's usage it also matters by how much a copy lags:  *)
(* between the load of a copy and its commit only calls of today were      *)
(* charged, so that a commit that dates a row and finds nothing to reset   *)
(* does not bring old calls into the new day.  The attempts stay within    *)
(* their bound because a request that may still call has at least one      *)
(* left.  And the slots in use are those of the holders because a request  *)
(* keeps its slot until its call is over and does not change its key while *)
(* it has one.                                                             *)
(***************************************************************************)
EXTENDS Forwarder, FiniteSetTheorems, WellFoundedInduction, TLAPS

ReqStates == [pc : {"idle", "select", "commit", "gate", "leased", "handle", "consume", "done"},
              mode : Modes, key : 0..NumKeys, row : KeyRow, lease : BOOLEAN,
              attempts : 0..TotalAttempts, tries : 0..SelectionTries,
              decryptFailed : BOOLEAN, answer : AnswerKinds,
              retryAfter : Nat \cup {None},
              old : [KeyIds -> KeyRow], new : [KeyIds -> KeyRow],
              cview : Nat \cup {None}, result : Results]

\* Request r may be in state x: it has a key when it needs one,
HasKey(x) == x.pc \in {"commit", "gate", "leased", "handle", "consume"} => x.key \in KeyIds

\* it has an attempt left when it may call,
HasAttempt(x) == x.pc \in {"select", "commit", "gate", "leased"} => x.attempts < TotalAttempts

\* it has a slot only during a call that is not answered, and then if keys
\* are limited,
HasLease(x) ==
    /\ x.lease => /\ Limited
                  /\ \/ x.pc = "leased"
                     \/ x.pc = "handle" /\ x.answer \in {"timeout", "http_error"}
    /\ x.pc = "leased" /\ x.mode # "test" => x.lease = Limited

\* select() does not put keys into service,
KeepsOff(x) == \A k \in KeyIds : x.new[k].active => x.old[k].active

\* and it gives up for a reason.
GaveUp(r, x) ==
    /\ Job[r].mode = "pool" => x.mode = "pool"
    /\ x.pc # "done" => x.result = "pending"
    /\ x.result = "UPSTREAM_TIMEOUT" => x.attempts = TotalAttempts
    /\ x.result = "UPSTREAM_UNAVAILABLE" =>
          \/ x.attempts = TotalAttempts
          \/ x.attempts > 0 /\ x.tries = SelectionTries
    /\ x.result = "ALL_KEYS_BUSY" /\ Job[r].mode = "pool" =>
          x.attempts = 0 /\ x.tries = SelectionTries

Control(r, x) == x \in ReqStates /\ HasKey(x) /\ HasAttempt(x) /\ HasLease(x) /\ KeepsOff(x) /\ GaveUp(r, x)

\* A row, or a copy of one, that is not charged for more than n calls.
Fair(row, n) ==
    /\ row.usage <= n
    /\ row.credits # None => InitCredits - row.credits <= CreditCost * n

\* The copies in the session of a request.
FairCopies(x, n) ==
    /\ x.key \in KeyIds => Fair(x.row, n[x.key])
    /\ \A k \in KeyIds : Fair(x.new[k], n[k])

Typed ==
    /\ keys \in [KeyIds -> KeyRow] /\ client \in Nat /\ rr \in 0..NumKeys
    /\ failures \in [KeyIds -> [count : Nat, first : Nat \cup {None}]]
    /\ store \in [KeyIds -> Nat] /\ inUse \in [KeyIds -> Nat]
    /\ now \in Nat /\ today \in Nat /\ served \in [KeyIds -> Nat]
    /\ req \in [Requests -> ReqStates]

Controlled == \A r \in Requests : Control(r, req[r])

Charged ==
    /\ \A k \in KeyIds : Fair(keys[k], served[k])
    /\ \A r \in Requests : FairCopies(req[r], served)

SlotsCounted ==
    \A k \in KeyIds : /\ IsFiniteSet(HoldersOf(k)) /\ inUse[k] = Cardinality(HoldersOf(k))
                      /\ Limited => inUse[k] <= MaxConcurrent

\* The inductive invariant.
ForwarderInv == Typed /\ Controlled /\ Charged /\ SlotsCounted
-----------------------------------------------------------------------------
\* Constants and blanks.

LEMMA Constants ==
    /\ NumKeys \in Nat /\ TicksPerSec \in Nat /\ TicksPerSec > 0
    /\ Job \in [Requests -> [mode : Modes, key : 0..NumKeys]]
    /\ \A r \in Requests : Job[r].mode # "pool" => Job[r].key \in KeyIds
    /\ TotalAttempts \in Nat /\ TotalAttempts > 0 /\ SelectionTries \in Nat /\ SelectionTries > 0
    /\ MaxConcurrent \in Int /\ Answers \subseteq AnswerKinds /\ RetryAfters \subseteq Nat \cup {None}
    /\ CooldownSeconds \in Nat /\ FailedCooldownSeconds \in Int
    /\ CreditCost \in Nat /\ InitCredits \in Nat \cup {None}
    /\ Limited \in BOOLEAN
BY KeyPoolAssumption, ForwarderAssumption DEF Limited

LEMMA BlankTyped ==
    /\ BlankRow \in KeyRow /\ BlankRow.usage = 0 /\ BlankRow.credits = None
    /\ InitRow \in KeyRow /\ InitRow.usage = 0 /\ InitRow.credits = InitCredits
    /\ BlankRows \in [KeyIds -> KeyRow] /\ \A k \in KeyIds : BlankRows[k] = BlankRow
    /\ Blank \in ReqStates
    /\ Blank.pc = "idle" /\ Blank.mode = "pool" /\ Blank.key = 0 /\ Blank.row = BlankRow /\ Blank.lease = FALSE
    /\ Blank.attempts = 0 /\ Blank.tries = 0 /\ Blank.old = BlankRows /\ Blank.new = BlankRows
    /\ Blank.result = "pending"
<1>1. BlankRow \in KeyRow /\ BlankRow.usage = 0 /\ BlankRow.credits = None
  BY DEF BlankRow, KeyRow, Statuses, None
<1>2. InitRow \in KeyRow /\ InitRow.usage = 0 /\ InitRow.credits = InitCredits
  BY <1>1, Constants DEF InitRow, KeyRow
<1>3. BlankRows \in [KeyIds -> KeyRow] /\ \A k \in KeyIds : BlankRows[k] = BlankRow
  BY <1>1 DEF BlankRows
<1>4. 0 \in 0..NumKeys /\ 0 \in 0..TotalAttempts /\ 0 \in 0..SelectionTries
  BY Constants
<1>5. "idle" \in {"idle", "select", "commit", "gate", "leased", "handle", "consume", "done"} /\ "pool" \in Modes
        /\ "ok" \in AnswerKinds /\ None \in Nat \cup {None} /\ "pending" \in Results
  BY DEF Modes, AnswerKinds, Results
<1>6. Blank \in ReqStates
  BY <1>1, <1>3, <1>4, <1>5 DEF Blank, ReqStates
<1> QED
  BY <1>1, <1>2, <1>3, <1>6 DEF Blank

\* Copies only get better with the number of served calls.
LEMMA FairGrows ==
    ASSUME NEW row \in KeyRow, NEW n \in Nat, NEW m \in Nat, n <= m, Fair(row, n)
    PROVE  Fair(row, m)
<1>1. CreditCost * n <= CreditCost * m /\ CreditCost * n \in Nat /\ CreditCost * m \in Nat
  BY Constants
<1>2. row.usage \in Nat /\ row.credits \in Nat \cup {None} /\ InitCredits \in Int
  BY Constants DEF KeyRow, None
<1> QED
  BY <1>1, <1>2 DEF Fair, None

LEMMA BlankFair ==
    ASSUME NEW n \in Nat
    PROVE  Fair(BlankRow, n) /\ Fair(InitRow, n)
<1>1. 0 <= CreditCost * n /\ CreditCost * n \in Nat
  BY Constants
<1>2. InitCredits - InitCredits = 0
  BY Constants DEF None
<1> QED
  BY <1>1, <1>2, BlankTyped DEF Fair

\* A merge takes every column from the row or from the copy.
LEMMA Merged ==
    ASSUME NEW db \in KeyRow, NEW old \in KeyRow, NEW new \in KeyRow
    PROVE  /\ Merge(db, old, new) \in KeyRow
           /\ (new.active => old.active) /\ ~db.active => ~Merge(db, old, new).active
           /\ \A n \in Nat : Fair(db, n) /\ Fair(new, n) => Fair(Merge(db, old, new), n)
<1>1. Merge(db, old, new) \in KeyRow
  BY DEF Merge, KeyRow
<1>2. /\ Merge(db, old, new).active = IF new.active # old.active THEN new.active ELSE db.active
      /\ Merge(db, old, new).usage = IF new.usage # old.usage THEN new.usage ELSE db.usage
      /\ Merge(db, old, new).credits = IF new.credits # old.credits THEN new.credits ELSE db.credits
  BY DEF Merge, KeyRow
<1>3. new.active \in BOOLEAN /\ old.active \in BOOLEAN /\ db.active \in BOOLEAN
  BY DEF KeyRow
<1>4. (new.active => old.active) /\ ~db.active => ~Merge(db, old, new).active
  BY <1>2, <1>3
<1>5. ASSUME NEW n \in Nat, Fair(db, n), Fair(new, n) PROVE Fair(Merge(db, old, new), n)
  BY <1>2, <1>5 DEF Fair
<1> QED
  BY <1>1, <1>4, <1>5

\* What the handling of an answer makes of a row: a row, not put into service,
\* and charged for no more than before.
Handled(row, new, n) == new \in KeyRow /\ (new.active => row.active) /\ Fair(new, n)

LEMMA HandledRows ==
    ASSUME NEW row \in KeyRow, NEW n \in Nat, Fair(row, n), NEW until \in Nat
    PROVE  /\ Handled(row, row, n) /\ Handled(row, DecryptFailedRow(row), n)
           /\ Handled(row, DisabledRow(row), n) /\ Handled(row, CoolingRow(row, until), n)
           /\ Handled(row, ActiveRow(row), n)
           /\ Handled(row, [row EXCEPT !.status = "failed", !.until = until], n)
<1>1. ASSUME NEW new \in KeyRow, new.active => row.active, new.usage = row.usage, new.credits = row.credits
      PROVE  Handled(row, new, n)
  BY <1>1 DEF Handled, Fair
<1>2. Handled(row, DecryptFailedRow(row), n)
  BY <1>1 DEF DecryptFailedRow, KeyRow, Statuses
<1>3. Handled(row, DisabledRow(row), n)
  BY <1>1 DEF DisabledRow, KeyRow, Statuses
<1>4. Handled(row, CoolingRow(row, until), n)
  BY <1>1 DEF CoolingRow, KeyRow, Statuses
<1>5. Handled(row, ActiveRow(row), n)
  BY <1>1 DEF ActiveRow, KeyRow, Statuses
<1>6. Handled(row, [row EXCEPT !.status = "failed", !.until = until], n)
  BY <1>1 DEF KeyRow, Statuses
<1> QED
  BY <1>1, <1>2, <1>3, <1>4, <1>5, <1>6

\* The charge for one more call.
LEMMA SpentRow ==
    ASSUME NEW row \in KeyRow, NEW n \in Nat, Fair(row, n)
    PROVE  Handled(row, Spent(row), n + 1) /\ Spent(row).usage = row.usage
<1>1. CreditCost * (n + 1) = CreditCost * n + CreditCost /\ CreditCost * n \in Nat /\ CreditCost \in Nat
  BY Constants
<1>2. row.usage \in Nat /\ row.credits \in Nat \cup {None} /\ InitCredits \in Int
  BY Constants DEF KeyRow, None
<1>3. CASE row.credits = None
  <2>1. Spent(row) = row
    BY <1>3 DEF Spent
  <2>2. Fair(row, n + 1)
    BY FairGrows
  <2>3. QED
    BY <2>1, <2>2 DEF Handled
<1>4. CASE row.credits # None
  <2> DEFINE left == Greater(row.credits - CreditCost, 0)
  <2>1. left \in Nat /\ left >= row.credits - CreditCost
    BY <1>1, <1>2, <1>4 DEF Greater
  <2>2. Spent(row) = [row EXCEPT !.credits = left]
    BY <1>4 DEF Spent
  <2> HIDE DEF left
  <2>3. /\ Spent(row) \in KeyRow /\ Spent(row).active = row.active /\ Spent(row).usage = row.usage
        /\ Spent(row).credits = left
    BY <2>1, <2>2 DEF KeyRow
  <2>4. InitCredits - row.credits <= CreditCost * n /\ row.usage <= n
    BY <1>4 DEF Fair
  <2>5. row.credits \in Nat
    BY <1>2, <1>4
  <2>6. InitCredits - left <= CreditCost * (n + 1) /\ row.usage <= n + 1
    <3> HIDE DEF left
    <3> QED
      BY <1>1, <1>2, <2>1, <2>4, <2>5
  <2>7. QED
    BY <2>3, <2>6 DEF Handled, Fair
<1> QED
  BY <1>3, <1>4

LEMMA CountedRow ==
    ASSUME NEW r, NEW row \in KeyRow, NEW n \in Nat, Fair(row, n), NEW k
    PROVE  LET used == CountUse(r, row)
           IN  Handled(row, IF OverQuota(k, used) THEN [used EXCEPT !.status = "quota_exceeded"] ELSE used, n + 1)
<1> DEFINE spent == Spent(row)
           used == [spent EXCEPT !.usage = @ + 1]
           new == IF OverQuota(k, used) THEN [used EXCEPT !.status = "quota_exceeded"] ELSE used
<1>1. spent \in KeyRow /\ (spent.active => row.active) /\ Fair(spent, n + 1) /\ spent.usage = row.usage
  BY SpentRow DEF Handled
<1>2. CountUse(r, row) = used
  BY DEF CountUse
<1> HIDE DEF spent
<1>3. row.usage <= n /\ row.usage \in Nat
  BY DEF Fair, KeyRow
<1>4. used \in KeyRow /\ used.active = spent.active /\ used.usage = row.usage + 1 /\ used.credits = spent.credits
  BY <1>1, <1>3 DEF KeyRow
<1> HIDE DEF used
<1>5. new \in KeyRow /\ new.active = used.active /\ new.usage = used.usage /\ new.credits = used.credits
  BY <1>4 DEF KeyRow, Statuses
<1>6. Handled(row, new, n + 1)
  BY <1>1, <1>3, <1>4, <1>5 DEF Handled, Fair
<1> QED
  BY <1>2, <1>6
-----------------------------------------------------------------------------
\* Selection.

LEMMA ChosenUsable ==
    ASSUME NEW usable \in SUBSET KeyIds, usable # {}, NEW i \in Nat
    PROVE  Chosen(usable, i) \in usable
<1> DEFINE offsets == {Offset(k, i) : k \in usable}
<1>1. ASSUME NEW k \in KeyIds PROVE Offset(k, i) \in Nat
  <2>1. NumKeys \in Nat /\ NumKeys > 0 /\ k - 1 - i \in Int
    BY Constants DEF KeyIds
  <2>2. QED
    BY <2>1 DEF Offset
<1>2. offsets \subseteq Nat /\ offsets # {}
  BY <1>1
<1>3. PICK x \in offsets : \A y \in offsets : ~(<<y, x>> \in OpToRel(<, Nat))
  BY <1>2, NatLessThanWellFounded, WFMin
<1>4. ASSUME NEW y \in offsets PROVE x <= y
  <2>1. x \in Nat /\ y \in Nat
    BY <1>2
  <2>2. ~(y < x)
    BY <1>3, <2>1 DEF OpToRel
  <2>3. QED
    BY <2>1, <2>2
<1>5. \E k \in usable : \A j \in usable : Offset(k, i) <= Offset(j, i)
  BY <1>4
<1> QED
  BY <1>5 DEF Chosen

\* Looking at a row neither puts it into service nor charges it.
LEMMA ExaminedRow ==
    ASSUME NEW k \in KeyIds, NEW row \in KeyRow, NEW ttl, NEW t, NEW day \in Nat
    PROVE  /\ Examined(k, row, ttl, t, day) \in KeyRow
           /\ Examined(k, row, ttl, t, day).active = row.active
           /\ \A n \in Nat : Fair(row, n) => Fair(Examined(k, row, ttl, t, day), n)
<1> DEFINE fresh == LazyReset(row, day)
           recovered == Recovered(fresh)
           over == [recovered EXCEPT !.status = "quota_exceeded"]
           like(new) == /\ new \in KeyRow /\ new.active = row.active /\ new.credits = row.credits
                        /\ new.usage \in {0, row.usage}
<1>1. like(row) /\ like(fresh)
  BY DEF LazyReset, KeyRow, Statuses
<1> HIDE DEF fresh
<1>2. like(recovered)
  BY <1>1 DEF Recovered, KeyRow, Statuses
<1> HIDE DEF recovered
<1>3. like(over)
  BY <1>2 DEF KeyRow, Statuses
<1>4. Verdict(k, row, ttl, t, day) \in {"disabled", "waiting", "quota", "usable"}
  BY DEF Verdict
<1>5. Examined(k, row, ttl, t, day) \in {row, fresh, recovered, over}
  BY <1>4 DEF Examined, fresh, recovered
<1>6. like(Examined(k, row, ttl, t, day))
  <2> HIDE DEF over, like
  <2> QED
    BY <1>1, <1>2, <1>3, <1>5
<1>7. ASSUME NEW new, like(new), NEW n \in Nat, Fair(row, n) PROVE Fair(new, n)
  BY <1>7 DEF Fair
<1> QED
  BY <1>6, <1>7

LEMMA Selected ==
    ASSUME NEW rows \in [KeyIds -> KeyRow], NEW i \in Nat, NEW ttl, NEW t, NEW day \in Nat,
           NEW s, s = Select(rows, i, ttl, t, day)
    PROVE  /\ s.key = 0 => s.error \in {"NO_KEY_CONFIGURED", "ALL_KEYS_DISABLED", "ALL_KEYS_QUOTA_EXCEEDED",
                                         "ALL_KEYS_COOLING", "NO_KEY_AVAILABLE"}
           /\ s.key # 0 => /\ s.key \in KeyIds /\ s.rows \in [KeyIds -> KeyRow]
                           /\ \A k \in KeyIds : /\ s.rows[k].active => rows[k].active
                                                /\ \A n \in Nat : Fair(rows[k], n) => Fair(s.rows[k], n)
<1> DEFINE verdict == [k \in KeyIds |-> Verdict(k, rows[k], ttl[k], t, day)]
           usable == {k \in KeyIds : verdict[k] = "usable"}
           pick == Chosen(usable, i)
           scanned == [k \in KeyIds |-> IF Offset(k, i) <= Offset(pick, i)
                                          THEN Examined(k, rows[k], ttl[k], t, day) ELSE rows[k]]
<1>1. s = IF usable = {} THEN [key |-> 0, rows |-> rows, error |-> Refusal(verdict)]
          ELSE [key |-> pick, error |-> "none", rows |-> scanned]
  BY DEF Select
<1>2. 0 \notin KeyIds
  BY DEF KeyIds
<1>3. CASE usable = {}
  <2>1. s.key = 0 /\ s.error = Refusal(verdict)
    BY <1>1, <1>3
  <2>2. QED
    BY <2>1 DEF Refusal
<1>4. CASE usable # {}
  <2>1. s.key = pick /\ s.rows = scanned
    BY <1>1, <1>4
  <2>2. pick \in KeyIds
    BY <1>4, ChosenUsable
  <2> HIDE DEF pick
  <2>3. ASSUME NEW k \in KeyIds
        PROVE  /\ scanned[k] \in KeyRow /\ (scanned[k].active => rows[k].active)
               /\ \A n \in Nat : Fair(rows[k], n) => Fair(scanned[k], n)
    <3>1. rows[k] \in KeyRow
      OBVIOUS
    <3>2. QED
      BY <3>1, ExaminedRow
  <2>4. scanned \in [KeyIds -> KeyRow]
    BY <2>3
  <2> HIDE DEF scanned
  <2>5. QED
    BY <1>2, <2>1, <2>2, <2>3, <2>4
<1> QED
  BY <1>3, <1>4
-----------------------------------------------------------------------------
\* Steps of a request.

OthersTyped ==
    /\ client \in Nat /\ rr \in 0..NumKeys
    /\ failures \in [KeyIds -> [count : Nat, first : Nat \cup {None}]]
    /\ store \in [KeyIds -> Nat] /\ now \in Nat /\ today \in Nat

\* The rows stay rows that are not charged too much, and none that is out of
\* service comes back.
RowsMove ==
    /\ keys' \in [KeyIds -> KeyRow] /\ served' \in [KeyIds -> Nat]
    /\ \A k \in KeyIds : /\ served[k] <= served'[k]
                         /\ Fair(keys'[k], served'[k])
                         /\ ~keys[k].active => ~keys'[k].active

\* The request keeps its slot or goes on without one, takes one, or gives it
\* back.
Stays(r, x) == x.lease = req[r].lease /\ (x.lease => x.key = req[r].key) /\ inUse' = inUse
Takes(r, x) ==
    /\ ~req[r].lease /\ x.lease /\ Limited /\ x.key \in KeyIds /\ inUse[x.key] < MaxConcurrent
    /\ inUse' = [inUse EXCEPT ![x.key] = @ + 1]
Gives(r, x) == req[r].lease /\ ~x.lease /\ inUse' = Released(r)

\* Request r moves on to x.
Moves(r, x) ==
    /\ req' = [req EXCEPT ![r] = x] /\ Control(r, x) /\ FairCopies(x, served')
    /\ OthersTyped' /\ RowsMove
    /\ Stays(r, x) \/ Takes(r, x) \/ Gives(r, x)

LEMMA Facts ==
    ASSUME ForwarderInv, NEW r \in Requests
    PROVE  /\ Typed /\ OthersTyped /\ req[r] \in ReqStates /\ req[r].row \in KeyRow
           /\ HasKey(req[r]) /\ HasAttempt(req[r]) /\ HasLease(req[r]) /\ KeepsOff(req[r]) /\ GaveUp(r, req[r])
           /\ FairCopies(req[r], served)
           /\ req = [q \in Requests |-> req[q]]
BY DEF ForwarderInv, Typed, OthersTyped, Controlled, Control, Charged, ReqStates

LEMMA RowsStay ==
    ASSUME ForwarderInv, UNCHANGED <<keys, served>>
    PROVE  RowsMove
<1>1. served \in [KeyIds -> Nat] /\ \A k \in KeyIds : served[k] <= served[k]
  BY DEF ForwarderInv, Typed
<1> QED
  BY <1>1 DEF ForwarderInv, Typed, Charged, RowsMove

\* A commit of a handled row, and the row that is loaded afterwards.
LEMMA RowsCommit ==
    ASSUME ForwarderInv, NEW r \in Requests, req[r].key \in KeyIds, NEW new, NEW ok, CommitRow(r, new, ok),
           served' \in [KeyIds -> Nat], \A k \in KeyIds : served[k] <= served'[k],
           ok => Handled(req[r].row, new, served'[req[r].key])
    PROVE  RowsMove
<1>1. /\ keys \in [KeyIds -> KeyRow] /\ served \in [KeyIds -> Nat] /\ req[r].row \in KeyRow
      /\ \A k \in KeyIds : Fair(keys[k], served[k])
  BY Facts DEF ForwarderInv, Typed, Charged
<1>2. \A k \in KeyIds : Fair(keys[k], served'[k])
  BY <1>1, FairGrows
<1>3. CASE ok
  <2> DEFINE row == Merge(keys[req[r].key], req[r].row, new)
  <2>1. keys' = [keys EXCEPT ![req[r].key] = row]
    BY <1>3 DEF CommitRow
  <2>2. new \in KeyRow /\ (new.active => req[r].row.active) /\ Fair(new, served'[req[r].key])
    BY <1>3 DEF Handled
  <2>3. /\ row \in KeyRow /\ Fair(row, served'[req[r].key])
        /\ ~keys[req[r].key].active => ~row.active
    BY <1>1, <1>2, <2>2, Merged
  <2> HIDE DEF row
  <2>4. QED
    BY <1>1, <1>2, <2>1, <2>3 DEF RowsMove
<1>4. CASE ~ok
  BY <1>1, <1>2, <1>4 DEF CommitRow, RowsMove
<1> QED
  BY <1>3, <1>4

\* The states a request can end in.
LEMMA EndedTyped ==
    ASSUME ForwarderInv, NEW r \in Requests, NEW result \in Results
    PROVE  LET x == Ended(r, result)
           IN  /\ x \in ReqStates /\ x.pc = "done" /\ x.mode = "pool" /\ x.key = 0 /\ x.lease = FALSE
               /\ x.old = BlankRows /\ x.new = BlankRows /\ x.result = result
               /\ x.attempts = req[r].attempts /\ x.tries = req[r].tries
<1>1. Blank \in ReqStates /\ Blank.mode = "pool" /\ Blank.key = 0 /\ Blank.lease = FALSE
      /\ Blank.old = BlankRows /\ Blank.new = BlankRows
  BY BlankTyped
<1>2. req[r].attempts \in 0..TotalAttempts /\ req[r].tries \in 0..SelectionTries
  BY Facts DEF ReqStates
<1> QED
  BY <1>1, <1>2 DEF Ended, ReqStates

\* A request that is over has no rows and no slot.
LEMMA OverOK ==
    ASSUME NEW r \in Requests, NEW x \in ReqStates, x.pc = "done", x.mode = "pool", x.key = 0, x.lease = FALSE,
           x.old = BlankRows, x.new = BlankRows, GaveUp(r, x), NEW n \in [KeyIds -> Nat]
    PROVE  Control(r, x) /\ FairCopies(x, n)
<1>1. 0 \notin KeyIds
  BY DEF KeyIds
<1>2. KeepsOff(x)
  BY DEF KeepsOff
<1>3. FairCopies(x, n)
  BY <1>1, BlankTyped, BlankFair DEF FairCopies
<1> QED
  BY <1>1, <1>2, <1>3 DEF Control, HasKey, HasAttempt, HasLease

\* The ends that need no reason.
LEMMA EndedOK ==
    ASSUME ForwarderInv, NEW r \in Requests, NEW n \in [KeyIds -> Nat], NEW result \in Results,
           result \notin {"UPSTREAM_TIMEOUT", "UPSTREAM_UNAVAILABLE", "ALL_KEYS_BUSY"}
    PROVE  Control(r, Ended(r, result)) /\ FairCopies(Ended(r, result), n) /\ Ended(r, result).lease = FALSE
<1> DEFINE x == Ended(r, result)
<1>1. /\ x \in ReqStates /\ x.pc = "done" /\ x.mode = "pool" /\ x.key = 0 /\ x.lease = FALSE
      /\ x.old = BlankRows /\ x.new = BlankRows /\ x.result = result
  BY EndedTyped
<1> HIDE DEF x
<1>2. GaveUp(r, x)
  BY <1>1 DEF GaveUp
<1>3. Control(r, x) /\ FairCopies(x, n) /\ x.lease = FALSE
  BY <1>1, <1>2, OverOK
<1> QED
  BY <1>3 DEF x

\* What is left of a request after the handling of an answer: its own state
\* with the row as it is or as it was loaded again.
Session(r, s) ==
    /\ s \in ReqStates /\ s.mode = req[r].mode /\ s.key = req[r].key /\ s.attempts = req[r].attempts
    /\ s.old = req[r].old /\ s.new = req[r].new /\ s.result = req[r].result
    /\ Fair(s.row, served'[s.key])

LEMMA CopiesGrow ==
    ASSUME ForwarderInv, NEW r \in Requests, RowsMove
    PROVE  FairCopies(req[r], served')
<1>1. /\ req[r] \in ReqStates /\ FairCopies(req[r], served)
      /\ served \in [KeyIds -> Nat] /\ served' \in [KeyIds -> Nat]
      /\ \A k \in KeyIds : served[k] <= served'[k]
  BY Facts DEF Typed, RowsMove
<1>2. req[r].row \in KeyRow /\ \A k \in KeyIds : req[r].new[k] \in KeyRow
  BY <1>1 DEF ReqStates
<1>3. ASSUME NEW k \in KeyIds, NEW row \in KeyRow, Fair(row, served[k]) PROVE Fair(row, served'[k])
  BY <1>1, <1>3, FairGrows
<1> QED
  BY <1>1, <1>2, <1>3 DEF FairCopies

LEMMA Sessions ==
    ASSUME ForwarderInv, NEW r \in Requests, req[r].key \in KeyIds, RowsMove
    PROVE  Session(r, req[r]) /\ Session(r, Reloaded(r))
<1>1. req[r] \in ReqStates /\ Fair(req[r].row, served'[req[r].key])
  BY Facts, CopiesGrow DEF FairCopies
<1>2. keys'[req[r].key] \in KeyRow /\ Fair(keys'[req[r].key], served'[req[r].key])
  BY DEF RowsMove
<1> DEFINE s == Reloaded(r)
<1>3. s = [req[r] EXCEPT !.row = keys'[req[r].key], !.cview = None]
  BY DEF Reloaded
<1>4. /\ s \in ReqStates /\ s.mode = req[r].mode /\ s.key = req[r].key /\ s.attempts = req[r].attempts
      /\ s.old = req[r].old /\ s.new = req[r].new /\ s.result = req[r].result /\ s.row = keys'[req[r].key]
  BY <1>1, <1>2, <1>3 DEF ReqStates
<1> QED
  BY <1>1, <1>2, <1>4 DEF Session

\* A request that is past its selection and goes on has a key, an attempt and
\* no slot.
LEMMA OnwardOK ==
    ASSUME ForwarderInv, NEW r \in Requests, req[r].key \in KeyIds, RowsMove, req[r].pc \in {"leased", "handle"},
           req[r].attempts < TotalAttempts, NEW s, Session(r, s),
           NEW x \in ReqStates, x.pc \in {"select", "gate"}, x.lease = FALSE, x.mode = s.mode, x.key = s.key,
           x.attempts = s.attempts, x.old = s.old, x.new = s.new, x.result = s.result, x.row = s.row
    PROVE  Control(r, x) /\ FairCopies(x, served')
<1>1. /\ req[r] \in ReqStates /\ HasLease(req[r]) /\ KeepsOff(req[r]) /\ GaveUp(r, req[r])
      /\ FairCopies(req[r], served')
  BY Facts, CopiesGrow
<1>2. /\ x.mode = req[r].mode /\ x.key = req[r].key /\ x.attempts = req[r].attempts
      /\ x.old = req[r].old /\ x.new = req[r].new /\ x.result = req[r].result
      /\ Fair(x.row, served'[x.key])
  BY DEF Session
<1>3. HasKey(x) /\ HasAttempt(x) /\ HasLease(x)
  BY <1>2 DEF HasKey, HasAttempt, HasLease
<1>4. KeepsOff(x)
  BY <1>1, <1>2 DEF KeepsOff
<1>5. x.result = "pending"
  BY <1>1, <1>2 DEF GaveUp
<1>6. GaveUp(r, x)
  BY <1>1, <1>2, <1>5 DEF GaveUp
<1>7. FairCopies(x, served')
  BY <1>1, <1>2 DEF FairCopies
<1> QED
  BY <1>3, <1>4, <1>6, <1>7 DEF Control

LEMMA AgainOK ==
    ASSUME ForwarderInv, NEW r \in Requests, req[r].pc = "handle", RowsMove, ~Last(r), NEW s, Session(r, s)
    PROVE  Control(r, TryAgain(s)) /\ FairCopies(TryAgain(s), served') /\ TryAgain(s).lease = FALSE
<1> DEFINE x == TryAgain(s)
<1>1. s \in ReqStates /\ req[r] \in ReqStates /\ req[r].key \in KeyIds
  BY Facts DEF HasKey, Session
<1>2. req[r].attempts < TotalAttempts
  <2>1. req[r].attempts \in Nat /\ TotalAttempts \in Nat
    BY <1>1, Constants DEF ReqStates
  <2>2. QED
    BY <2>1 DEF Last
<1>3. "ok" \in AnswerKinds /\ None \in Nat \cup {None}
  BY DEF AnswerKinds
<1>4. /\ x \in ReqStates /\ x.pc \in {"select", "gate"} /\ x.lease = FALSE /\ x.mode = s.mode /\ x.key = s.key
      /\ x.attempts = s.attempts /\ x.old = s.old /\ x.new = s.new /\ x.result = s.result /\ x.row = s.row
  BY <1>1, <1>3 DEF TryAgain, ReqStates
<1> HIDE DEF x
<1>5. Control(r, x) /\ FairCopies(x, served') /\ x.lease = FALSE
  BY <1>1, <1>2, <1>4, OnwardOK
<1> QED
  BY <1>5 DEF x

\* Every end of a call gives the slot back, if there is one.
LEMMA LeaseOver ==
    ASSUME ForwarderInv, NEW r \in Requests, NEW x, x.lease = FALSE,
           inUse' = Released(r) \/ (inUse' = inUse /\ req[r].lease = FALSE)
    PROVE  Stays(r, x) \/ Gives(r, x)
<1>1. req[r].lease \in BOOLEAN
  BY Facts DEF ReqStates
<1> QED
  BY <1>1 DEF Stays, Gives, Released

LEMMA StartMoves ==
    ASSUME ForwarderInv, NEW r \in Requests, Start(r)
    PROVE  \E x : Moves(r, x)
<1> DEFINE k == Job[r].key
           usePool == Job[r].mode = "pool" \/ (Job[r].mode = "pinned" /\ Disabled(keys[k]))
           loaded == IF k = 0 THEN Blank ELSE [Blank EXCEPT !.key = k, !.row = keys[k]]
           x == [loaded EXCEPT
                   !.mode = IF usePool THEN "pool" ELSE Job[r].mode,
                   !.cview = client,
                   !.pc = IF usePool THEN "select" ELSE IF Job[r].mode = "pinned" THEN "gate" ELSE "leased"]
<1>1. Typed /\ OthersTyped /\ req[r] \in ReqStates /\ HasLease(req[r])
  BY Facts
<1>2. /\ req[r].pc = "idle" /\ req' = [req EXCEPT ![r] = x]
      /\ UNCHANGED <<keys, client, rr, failures, store, inUse, now, today, served>>
  BY DEF Start, history
<1>3. k \in 0..NumKeys /\ (k # 0 => k \in KeyIds) /\ Job[r].mode \in Modes /\ (Job[r].mode # "pool" => k \in KeyIds)
  BY Constants DEF KeyIds
<1>4. /\ loaded \in ReqStates /\ loaded.key = k /\ loaded.lease = FALSE /\ loaded.attempts = 0
      /\ loaded.old = BlankRows /\ loaded.new = BlankRows /\ loaded.result = "pending"
      /\ (k # 0 => loaded.row = keys[k])
  <2>1. CASE k = 0
    BY <2>1, BlankTyped
  <2>2. CASE k # 0
    <3>1. keys[k] \in KeyRow
      BY <1>1, <1>3, <2>2 DEF Typed
    <3>2. QED
      BY <1>3, <2>2, <3>1, BlankTyped DEF ReqStates
  <2>3. QED
    BY <2>1, <2>2
<1> HIDE DEF loaded
<1>5. usePool \in BOOLEAN /\ client \in Nat
  BY <1>1 DEF Typed
<1>6. ~usePool => Job[r].mode # "pool"
  OBVIOUS
<1> HIDE DEF usePool
<1> DEFINE mode == IF usePool THEN "pool" ELSE Job[r].mode
           pc == IF usePool THEN "select" ELSE IF Job[r].mode = "pinned" THEN "gate" ELSE "leased"
<1>mode. /\ mode \in Modes /\ pc \in {"select", "gate", "leased"} /\ (pc # "select" => k \in KeyIds)
         /\ (pc = "leased" => mode = "test") /\ (Job[r].mode = "pool" => mode = "pool")
  BY <1>3, <1>5, <1>6 DEF Modes
<1>x. x = [loaded EXCEPT !.mode = mode, !.cview = client, !.pc = pc]
  OBVIOUS
<1> HIDE DEF mode, pc, x
<1>7. x \in ReqStates /\ x.pc = pc /\ x.mode = mode
  BY <1>4, <1>5, <1>mode, <1>x DEF ReqStates
<1>8. /\ x.pc \in {"select", "gate", "leased"} /\ (x.pc # "select" => k \in KeyIds)
      /\ (x.pc = "leased" => x.mode = "test") /\ (Job[r].mode = "pool" => x.mode = "pool")
      /\ x.key = k /\ x.row = loaded.row
      /\ x.lease = FALSE /\ x.attempts = 0 /\ x.old = BlankRows /\ x.new = BlankRows /\ x.result = "pending"
  BY <1>4, <1>7, <1>mode, <1>x DEF ReqStates
<1>9. Control(r, x)
  BY <1>7, <1>8, Constants DEF Control, HasKey, HasAttempt, HasLease, KeepsOff, GaveUp
<1>10. FairCopies(x, served)
  <2>1. ASSUME k # 0 PROVE Fair(x.row, served[k])
    BY <1>3, <1>4, <1>8, <2>1 DEF ForwarderInv, Charged
  <2>2. 0 \notin KeyIds /\ \A j \in KeyIds : served[j] \in Nat
    BY <1>1 DEF KeyIds, Typed
  <2>3. QED
    BY <1>8, <2>1, <2>2, BlankTyped, BlankFair DEF FairCopies
<1>11. Stays(r, x)
  BY <1>1, <1>2, <1>8 DEF Stays, HasLease, ReqStates
<1>12. RowsMove /\ OthersTyped'
  BY <1>1, <1>2, RowsStay DEF OthersTyped
<1> QED
  BY <1>2, <1>9, <1>10, <1>11, <1>12 DEF Moves

LEMMA SelectQueryMoves ==
    ASSUME ForwarderInv, NEW r \in Requests, SelectQuery(r)
    PROVE  \E x : Moves(r, x)
<1> DEFINE ttl == [k \in KeyIds |-> StoreTtl(k)]
           s == Select(View(r), rr, ttl, now, today)
           over == [Ended(r, Refused(r, s.error)) EXCEPT !.tries = req[r].tries + 1]
           y == [req[r] EXCEPT !.pc = "commit", !.tries = req[r].tries + 1, !.key = s.key,
                               !.row = BlankRow, !.old = View(r), !.new = s.rows]
<1>1. /\ Typed /\ OthersTyped /\ req[r] \in ReqStates /\ HasLease(req[r]) /\ HasAttempt(req[r]) /\ GaveUp(r, req[r])
      /\ req[r].row \in KeyRow /\ FairCopies(req[r], served)
  BY Facts
<1>2. /\ req[r].pc = "select" /\ req[r].tries < SelectionTries
      /\ req' = [req EXCEPT ![r] = IF s.key = 0 THEN over ELSE y]
      /\ UNCHANGED <<keys, client, rr, failures, store, inUse, now, today, served>>
  BY DEF SelectQuery, history
<1>3. RowsMove /\ OthersTyped'
  BY <1>1, <1>2, RowsStay DEF OthersTyped
<1>4. req[r].tries + 1 \in 0..SelectionTries
  BY <1>1, <1>2, Constants DEF ReqStates
<1>5. View(r) \in [KeyIds -> KeyRow] /\ \A k \in KeyIds : Fair(View(r)[k], served[k])
  <2>1. ASSUME NEW k \in KeyIds PROVE View(r)[k] \in KeyRow /\ Fair(View(r)[k], served[k])
    BY <1>1 DEF View, Typed, FairCopies, ForwarderInv, Charged
  <2>2. QED
    BY <2>1 DEF View
<1>6. rr \in Nat /\ today \in Nat /\ served \in [KeyIds -> Nat]
  BY <1>1, Constants DEF Typed
<1>7. /\ s.key = 0 => s.error \in {"NO_KEY_CONFIGURED", "ALL_KEYS_DISABLED", "ALL_KEYS_QUOTA_EXCEEDED",
                                    "ALL_KEYS_COOLING", "NO_KEY_AVAILABLE"}
      /\ s.key # 0 => /\ s.key \in KeyIds /\ s.rows \in [KeyIds -> KeyRow]
                      /\ \A k \in KeyIds : /\ s.rows[k].active => View(r)[k].active
                                           /\ \A n \in Nat : Fair(View(r)[k], n) => Fair(s.rows[k], n)
  BY <1>5, <1>6, Selected
<1> HIDE DEF s, ttl
<1>8. CASE s.key = 0
  <2> DEFINE code == Refused(r, s.error)
  <2>1. code \in Results /\ code \notin {"UPSTREAM_TIMEOUT", "UPSTREAM_UNAVAILABLE", "ALL_KEYS_BUSY"}
    BY <1>7, <1>8 DEF Refused, Results
  <2> HIDE DEF code
  <2> DEFINE e == Ended(r, code)
  <2>2. /\ e \in ReqStates /\ e.pc = "done" /\ e.mode = "pool" /\ e.key = 0 /\ e.lease = FALSE
        /\ e.old = BlankRows /\ e.new = BlankRows /\ e.result = code
    BY <2>1, EndedTyped
  <2> HIDE DEF e
  <2>3. over = [e EXCEPT !.tries = req[r].tries + 1]
    BY DEF e, code
  <2> HIDE DEF over
  <2>4. /\ over \in ReqStates /\ over.pc = "done" /\ over.mode = "pool" /\ over.key = 0 /\ over.lease = FALSE
        /\ over.old = BlankRows /\ over.new = BlankRows /\ over.result = code
    BY <1>4, <2>2, <2>3 DEF ReqStates
  <2>5. GaveUp(r, over)
    BY <2>1, <2>4 DEF GaveUp
  <2>6. Control(r, over) /\ FairCopies(over, served')
    BY <1>2, <1>6, <2>4, <2>5, OverOK
  <2>7. Stays(r, over)
    BY <1>1, <1>2, <2>4 DEF Stays, HasLease, ReqStates
  <2>8. req' = [req EXCEPT ![r] = over]
    BY <1>2, <1>8
  <2>9. QED
    BY <1>3, <2>6, <2>7, <2>8 DEF Moves
<1>9. CASE s.key # 0
  <2>1. s.key \in 0..NumKeys /\ BlankRow \in KeyRow
    BY <1>7, <1>9, BlankTyped DEF KeyIds
  <2>2. y \in ReqStates
    BY <1>1, <1>4, <1>5, <1>7, <1>9, <2>1 DEF ReqStates
  <2>3. /\ y.pc = "commit" /\ y.key = s.key /\ y.row = BlankRow /\ y.old = View(r) /\ y.new = s.rows
        /\ y.mode = req[r].mode /\ y.lease = req[r].lease /\ y.attempts = req[r].attempts
        /\ y.result = req[r].result
    BY <1>1 DEF ReqStates
  <2> HIDE DEF y
  <2>4. y.lease = FALSE /\ req[r].lease = FALSE
    BY <1>1, <1>2, <2>3 DEF HasLease, ReqStates
  <2>5. HasKey(y) /\ HasAttempt(y) /\ HasLease(y)
    BY <1>1, <1>2, <1>7, <1>9, <2>3, <2>4 DEF HasKey, HasAttempt, HasLease
  <2>6. KeepsOff(y)
    BY <1>7, <1>9, <2>3 DEF KeepsOff
  <2>7. GaveUp(r, y)
    BY <1>1, <1>2, <2>3 DEF GaveUp
  <2>8. FairCopies(y, served')
    BY <1>2, <1>5, <1>6, <1>7, <1>9, <2>3, BlankFair DEF FairCopies
  <2>9. req' = [req EXCEPT ![r] = y]
    BY <1>2, <1>9
  <2>10. Stays(r, y)
    BY <1>2, <2>4 DEF Stays
  <2>11. QED
    BY <1>3, <2>2, <2>5, <2>6, <2>7, <2>8, <2>9, <2>10 DEF Moves, Control
<1> QED
  BY <1>8, <1>9

LEMMA SelectCommitMoves ==
    ASSUME ForwarderInv, NEW r \in Requests, NEW ok \in BOOLEAN, SelectCommit(r, ok)
    PROVE  \E x : Moves(r, x)
<1> DEFINE k == req[r].key
           y == [req[r] EXCEPT !.pc = "gate", !.row = keys'[k], !.cview = None, !.old = BlankRows, !.new = BlankRows]
<1>1. /\ Typed /\ OthersTyped /\ req[r] \in ReqStates /\ HasLease(req[r]) /\ HasAttempt(req[r]) /\ GaveUp(r, req[r])
      /\ HasKey(req[r]) /\ KeepsOff(req[r]) /\ req[r].row \in KeyRow /\ FairCopies(req[r], served)
      /\ served \in [KeyIds -> Nat]
  BY Facts DEF Typed
<1>2. /\ req[r].pc = "commit" /\ k \in KeyIds /\ req[r].lease = FALSE
      /\ keys' = IF ok THEN [j \in KeyIds |-> Merge(keys[j], req[r].old[j], req[r].new[j])] ELSE keys
      /\ rr' = IF ok THEN k ELSE rr
      /\ req' = [req EXCEPT ![r] = IF ok THEN y ELSE Ended(r, "DB_UNAVAILABLE")]
      /\ UNCHANGED <<client, failures, store, inUse, now, today, served>>
  BY <1>1 DEF SelectCommit, HasKey, HasLease, ReqStates, history
<1>3. OthersTyped'
  BY <1>1, <1>2 DEF OthersTyped, KeyIds
<1>4. CASE ok
  <2>1. ASSUME NEW j \in KeyIds
        PROVE  /\ keys'[j] \in KeyRow /\ Fair(keys'[j], served[j]) /\ served[j] \in Nat
               /\ ~keys[j].active => ~keys'[j].active
    <3>1. keys[j] \in KeyRow /\ req[r].old[j] \in KeyRow /\ req[r].new[j] \in KeyRow /\ served[j] \in Nat
      BY <1>1 DEF Typed, ReqStates
    <3>2. Fair(keys[j], served[j]) /\ Fair(req[r].new[j], served[j]) /\ (req[r].new[j].active => req[r].old[j].active)
      BY <1>1 DEF ForwarderInv, Charged, FairCopies, KeepsOff
    <3>3. keys'[j] = Merge(keys[j], req[r].old[j], req[r].new[j])
      BY <1>2, <1>4
    <3>4. QED
      BY <3>1, <3>2, <3>3, Merged
  <2>2. RowsMove
    <3>1. keys' \in [KeyIds -> KeyRow]
      BY <1>2, <1>4, <2>1
    <3>2. \A j \in KeyIds : served[j] <= served'[j]
      BY <1>2, <2>1
    <3>3. QED
      BY <1>1, <1>2, <2>1, <3>1, <3>2 DEF RowsMove
  <2>3. y \in ReqStates
    BY <1>1, <1>2, <2>1, BlankTyped DEF ReqStates
  <2>4. /\ y.pc = "gate" /\ y.key = k /\ y.row = keys'[k] /\ y.old = BlankRows /\ y.new = BlankRows
        /\ y.mode = req[r].mode /\ y.lease = req[r].lease /\ y.attempts = req[r].attempts /\ y.result = req[r].result
    BY <1>1 DEF ReqStates
  <2> HIDE DEF y
  <2>5. HasKey(y) /\ HasAttempt(y) /\ HasLease(y) /\ KeepsOff(y)
    BY <1>1, <1>2, <2>4 DEF HasKey, HasAttempt, HasLease, KeepsOff
  <2>6. GaveUp(r, y)
    BY <1>1, <1>2, <2>4 DEF GaveUp
  <2>7. FairCopies(y, served')
    BY <1>2, <2>1, <2>4, BlankTyped, BlankFair DEF FairCopies
  <2>8. Stays(r, y) /\ req' = [req EXCEPT ![r] = y]
    BY <1>2, <1>4, <2>4 DEF Stays
  <2>9. QED
    BY <1>3, <2>2, <2>3, <2>5, <2>6, <2>7, <2>8 DEF Moves, Control
<1>5. CASE ~ok
  <2>1. RowsMove
    BY <1>2, <1>5, RowsStay
  <2> DEFINE x == Ended(r, "DB_UNAVAILABLE")
  <2>2. Control(r, x) /\ FairCopies(x, served') /\ x.lease = FALSE
    BY <1>1, <1>2, EndedOK DEF Results
  <2> HIDE DEF x
  <2>3. Stays(r, x) /\ req' = [req EXCEPT ![r] = x]
    BY <1>2, <1>5, <2>2 DEF Stays, x
  <2>4. QED
    BY <1>3, <2>1, <2>2, <2>3 DEF Moves
<1> QED
  BY <1>4, <1>5

LEMMA SelectExhaustedMoves ==
    ASSUME ForwarderInv, NEW r \in Requests, SelectExhausted(r)
    PROVE  \E x : Moves(r, x)
<1> DEFINE code == IF req[r].attempts = 0 THEN "ALL_KEYS_BUSY" ELSE "UPSTREAM_UNAVAILABLE"
           x == Ended(r, code)
<1>1. /\ Typed /\ OthersTyped /\ req[r] \in ReqStates /\ HasLease(req[r]) /\ HasAttempt(req[r]) /\ GaveUp(r, req[r])
      /\ HasKey(req[r]) /\ KeepsOff(req[r]) /\ req[r].row \in KeyRow /\ FairCopies(req[r], served)
      /\ served \in [KeyIds -> Nat]
  BY Facts DEF Typed
<1>2. /\ req[r].pc = "select" /\ req[r].tries >= SelectionTries /\ req' = [req EXCEPT ![r] = x]
      /\ UNCHANGED <<keys, client, rr, failures, store, inUse, now, today, served>>
  BY DEF SelectExhausted, history
<1>3. code \in Results /\ (code = "ALL_KEYS_BUSY" => req[r].attempts = 0)
      /\ code \in {"ALL_KEYS_BUSY", "UPSTREAM_UNAVAILABLE"} /\ (code = "UPSTREAM_UNAVAILABLE" => req[r].attempts # 0)
  BY DEF Results
<1> HIDE DEF code
<1>4. /\ x \in ReqStates /\ x.pc = "done" /\ x.mode = "pool" /\ x.key = 0 /\ x.lease = FALSE
      /\ x.old = BlankRows /\ x.new = BlankRows /\ x.result = code
      /\ x.attempts = req[r].attempts /\ x.tries = req[r].tries
  BY <1>3, EndedTyped
<1> HIDE DEF x
<1>5. req[r].tries = SelectionTries /\ req[r].attempts \in Nat
  <2>1. req[r].tries \in 0..SelectionTries /\ req[r].attempts \in 0..TotalAttempts
    BY <1>1 DEF ReqStates
  <2>2. QED
    BY <1>2, <2>1, Constants
<1>6. GaveUp(r, x)
  BY <1>3, <1>4, <1>5 DEF GaveUp
<1>7. Control(r, x) /\ FairCopies(x, served')
  BY <1>1, <1>2, <1>4, <1>6, OverOK
<1>8. Stays(r, x)
  BY <1>1, <1>2, <1>4 DEF Stays, HasLease, ReqStates
<1>9. RowsMove /\ OthersTyped'
  BY <1>1, <1>2, RowsStay DEF OthersTyped
<1> QED
  BY <1>2, <1>7, <1>8, <1>9 DEF Moves

LEMMA TurnedAwayMoves ==
    ASSUME ForwarderInv, NEW r \in Requests, req[r].pc = "gate", TurnedAway(r)
    PROVE  \E x : Moves(r, x)
<1> DEFINE y == [req[r] EXCEPT !.pc = "select"]
           x == Ended(r, "ALL_KEYS_BUSY")
<1>1. /\ Typed /\ OthersTyped /\ req[r] \in ReqStates /\ HasLease(req[r]) /\ HasAttempt(req[r]) /\ GaveUp(r, req[r])
      /\ HasKey(req[r]) /\ KeepsOff(req[r]) /\ req[r].row \in KeyRow /\ FairCopies(req[r], served)
      /\ served \in [KeyIds -> Nat]
  BY Facts DEF Typed
<1>2. /\ req' = [req EXCEPT ![r] = IF req[r].mode = "pool" THEN y ELSE x]
      /\ UNCHANGED <<keys, client, rr, failures, store, inUse, now, today, served>>
  BY DEF TurnedAway, history
<1>3. RowsMove /\ OthersTyped'
  BY <1>1, <1>2, RowsStay DEF OthersTyped
<1>4. CASE req[r].mode = "pool"
  <2>1. /\ y \in ReqStates /\ y.pc = "select" /\ y.key = req[r].key /\ y.row = req[r].row /\ y.new = req[r].new
        /\ y.old = req[r].old /\ y.mode = req[r].mode /\ y.lease = req[r].lease /\ y.attempts = req[r].attempts
        /\ y.result = req[r].result
    BY <1>1 DEF ReqStates
  <2>2. y.lease = FALSE
    BY <1>1, <2>1 DEF HasLease, ReqStates
  <2> HIDE DEF y
  <2>3. Control(r, y)
    BY <1>1, <2>1, <2>2 DEF Control, HasKey, HasAttempt, HasLease, KeepsOff, GaveUp
  <2>4. FairCopies(y, served')
    BY <1>1, <1>2, <2>1 DEF FairCopies
  <2>5. Stays(r, y) /\ req' = [req EXCEPT ![r] = y]
    BY <1>2, <1>4, <2>1 DEF Stays
  <2>6. QED
    BY <1>3, <2>3, <2>4, <2>5 DEF Moves
<1>5. CASE req[r].mode # "pool"
  <2>1. /\ x \in ReqStates /\ x.pc = "done" /\ x.mode = "pool" /\ x.key = 0 /\ x.lease = FALSE
        /\ x.old = BlankRows /\ x.new = BlankRows /\ x.result = "ALL_KEYS_BUSY"
    <3>1. "ALL_KEYS_BUSY" \in Results
      BY DEF Results
    <3>2. QED
      BY <3>1, EndedTyped
  <2> HIDE DEF x
  <2>2. GaveUp(r, x)
    BY <1>1, <1>5, <2>1 DEF GaveUp
  <2>3. Control(r, x) /\ FairCopies(x, served')
    BY <1>1, <1>2, <2>1, <2>2, OverOK
  <2>4. Stays(r, x) /\ req' = [req EXCEPT ![r] = x]
    BY <1>1, <1>2, <1>5, <2>1 DEF Stays, HasLease, ReqStates
  <2>5. QED
    BY <1>3, <2>3, <2>4 DEF Moves
<1> QED
  BY <1>4, <1>5

LEMMA AcquireMoves ==
    ASSUME ForwarderInv, NEW r \in Requests, Acquire(r)
    PROVE  \E x : Moves(r, x)
<1> DEFINE k == req[r].key
           x == [req[r] EXCEPT !.pc = "leased", !.lease = Limited]
<1>1. /\ Typed /\ OthersTyped /\ req[r] \in ReqStates /\ HasLease(req[r]) /\ HasAttempt(req[r]) /\ GaveUp(r, req[r])
      /\ HasKey(req[r]) /\ KeepsOff(req[r]) /\ req[r].row \in KeyRow /\ FairCopies(req[r], served)
      /\ served \in [KeyIds -> Nat]
  BY Facts DEF Typed
<1>2. /\ req[r].pc = "gate" /\ SlotFree(k) /\ req' = [req EXCEPT ![r] = x]
      /\ inUse' = [inUse EXCEPT ![k] = IF Limited THEN @ + 1 ELSE @]
      /\ UNCHANGED <<keys, client, rr, failures, store, now, today, served>>
  BY <1>1 DEF Acquire, Typed, ReqStates, history
<1>3. RowsMove /\ OthersTyped'
  BY <1>1, <1>2, RowsStay DEF OthersTyped
<1>4. /\ x \in ReqStates /\ x.pc = "leased" /\ x.key = k /\ x.row = req[r].row /\ x.new = req[r].new
      /\ x.old = req[r].old /\ x.mode = req[r].mode /\ x.lease = Limited /\ x.attempts = req[r].attempts
      /\ x.result = req[r].result
  BY <1>1, Constants DEF ReqStates
<1> HIDE DEF x
<1>5. k \in KeyIds /\ req[r].lease = FALSE
  BY <1>1, <1>2 DEF HasKey, HasLease, ReqStates
<1>6. Control(r, x)
  BY <1>1, <1>2, <1>4, <1>5 DEF Control, HasKey, HasAttempt, HasLease, KeepsOff, GaveUp
<1>7. FairCopies(x, served')
  BY <1>1, <1>2, <1>4 DEF FairCopies
<1>8. CASE Limited
  BY <1>2, <1>3, <1>4, <1>5, <1>6, <1>7, <1>8 DEF Moves, Takes, SlotFree
<1>9. CASE ~Limited
  <2>1. inUse' = inUse
    BY <1>1, <1>2, <1>9 DEF Typed
  <2>2. Stays(r, x)
    BY <1>4, <1>5, <1>9, <2>1, Constants DEF Stays
  <2>3. QED
    BY <1>2, <1>3, <1>6, <1>7, <2>2 DEF Moves
<1> QED
  BY <1>8, <1>9

LEMMA AnsweredMoves ==
    ASSUME ForwarderInv, NEW r \in Requests, NEW a \in Answers, NEW h \in RetryAfters \cup {None}, Answered(r, a, h)
    PROVE  \E x : Moves(r, x)
<1> DEFINE raised == a \in {"timeout", "http_error"}
           tried == IF req[r].mode = "test" THEN req[r].attempts ELSE req[r].attempts + 1
           x == [req[r] EXCEPT !.pc = "handle", !.answer = a, !.retryAfter = h, !.attempts = tried,
                               !.lease = req[r].lease /\ raised]
<1>1. /\ Typed /\ OthersTyped /\ req[r] \in ReqStates /\ HasLease(req[r]) /\ HasAttempt(req[r]) /\ GaveUp(r, req[r])
      /\ HasKey(req[r]) /\ KeepsOff(req[r]) /\ req[r].row \in KeyRow /\ FairCopies(req[r], served)
      /\ served \in [KeyIds -> Nat]
  BY Facts DEF Typed
<1>2. /\ req[r].pc = "leased" /\ req' = [req EXCEPT ![r] = x]
      /\ inUse' = IF raised THEN inUse ELSE Released(r)
      /\ UNCHANGED <<keys, client, rr, failures, store, now, today, served>>
  BY <1>1 DEF Answered, Typed, ReqStates, history
<1>3. RowsMove /\ OthersTyped'
  BY <1>1, <1>2, RowsStay DEF OthersTyped
<1>4. a \in AnswerKinds /\ h \in Nat \cup {None}
  BY Constants
<1>5. tried \in 0..TotalAttempts
  BY <1>1, <1>2, Constants DEF HasAttempt, ReqStates
<1> HIDE DEF tried
<1>6. /\ x \in ReqStates /\ x.pc = "handle" /\ x.key = req[r].key /\ x.row = req[r].row /\ x.new = req[r].new
      /\ x.old = req[r].old /\ x.mode = req[r].mode /\ x.lease = (req[r].lease /\ raised) /\ x.answer = a
      /\ x.result = req[r].result
  BY <1>1, <1>4, <1>5 DEF ReqStates
<1> HIDE DEF x
<1>7. Control(r, x)
  BY <1>1, <1>2, <1>6 DEF Control, HasKey, HasAttempt, HasLease, KeepsOff, GaveUp
<1>8. FairCopies(x, served')
  BY <1>1, <1>2, <1>6 DEF FairCopies
<1>9. CASE raised
  <2>1. Stays(r, x)
    BY <1>1, <1>2, <1>6, <1>9 DEF Stays, ReqStates
  <2>2. QED
    BY <1>2, <1>3, <1>7, <1>8, <2>1 DEF Moves
<1>10. CASE ~raised
  <2>1. x.lease = FALSE /\ inUse' = Released(r)
    BY <1>2, <1>6, <1>10
  <2>2. QED
    BY <1>2, <1>3, <1>7, <1>8, <2>1, LeaseOver DEF Moves
<1> QED
  BY <1>9, <1>10

\* The end of a request after a step that may have written rows.
LEMMA EndMoves ==
    ASSUME ForwarderInv, NEW r \in Requests, RowsMove, OthersTyped', NEW result \in Results,
           result \notin {"UPSTREAM_TIMEOUT", "UPSTREAM_UNAVAILABLE", "ALL_KEYS_BUSY"},
           req' = [req EXCEPT ![r] = Ended(r, result)],
           inUse' = Released(r) \/ (inUse' = inUse /\ req[r].lease = FALSE)
    PROVE  \E x : Moves(r, x)
<1> DEFINE x == Ended(r, result)
<1>1. served' \in [KeyIds -> Nat]
  BY DEF RowsMove
<1>2. Control(r, x) /\ FairCopies(x, served') /\ x.lease = FALSE
  BY <1>1, EndedOK
<1>3. req' = [req EXCEPT ![r] = x]
  OBVIOUS
<1> HIDE DEF x
<1>4. Stays(r, x) \/ Gives(r, x)
  BY <1>2, LeaseOver
<1> QED
  BY <1>2, <1>3, <1>4 DEF Moves

\* After an answer that puts the key out of service.
LEMMA SwitchMoves ==
    ASSUME ForwarderInv, NEW r \in Requests, req[r].pc = "handle", req[r].lease = FALSE, inUse' = inUse,
           RowsMove, OthersTyped', NEW s, Session(r, s), req' = [req EXCEPT ![r] = Switch(r, s)]
    PROVE  \E x : Moves(r, x)
<1>1. CASE req[r].mode = "test"
  <2>1. req' = [req EXCEPT ![r] = Ended(r, "tested")]
    BY <1>1 DEF Switch, Tested
  <2>2. QED
    BY <2>1, EndMoves DEF Results
<1>2. CASE req[r].mode # "test" /\ (req[r].mode = "pinned" \/ Last(r))
  <2>1. req' = [req EXCEPT ![r] = Ended(r, "answered")]
    BY <1>2 DEF Switch
  <2>2. QED
    BY <2>1, EndMoves DEF Results
<1>3. CASE req[r].mode # "test" /\ ~(req[r].mode = "pinned" \/ Last(r))
  <2> DEFINE x == TryAgain(s)
  <2>1. req' = [req EXCEPT ![r] = x]
    BY <1>3 DEF Switch
  <2>2. Control(r, x) /\ FairCopies(x, served') /\ x.lease = FALSE
    BY <1>3, AgainOK
  <2> HIDE DEF x
  <2>3. Stays(r, x)
    BY <2>2 DEF Stays
  <2>4. QED
    BY <2>1, <2>2, <2>3 DEF Moves
<1> QED
  BY <1>1, <1>2, <1>3

LEMMA DecryptFailMoves ==
    ASSUME ForwarderInv, NEW r \in Requests, NEW ok \in BOOLEAN, DecryptFail(r, ok)
    PROVE  \E x : Moves(r, x)
<1> DEFINE x == [Reloaded(r) EXCEPT !.pc = "select", !.lease = FALSE, !.decryptFailed = TRUE]
<1>1. /\ Typed /\ OthersTyped /\ req[r] \in ReqStates /\ HasLease(req[r]) /\ HasAttempt(req[r]) /\ GaveUp(r, req[r])
      /\ HasKey(req[r]) /\ KeepsOff(req[r]) /\ req[r].row \in KeyRow /\ FairCopies(req[r], served)
      /\ served \in [KeyIds -> Nat]
  BY Facts DEF Typed
<1>2. /\ req[r].pc = "leased" /\ CommitRow(r, DecryptFailedRow(req[r].row), ok) /\ inUse' = Released(r)
      /\ UNCHANGED <<client, rr, failures, store, now, today, served>>
      /\ req[r].mode = "pool" => req' = [req EXCEPT ![r] = x]
      /\ req[r].mode = "pinned" => req' = [req EXCEPT ![r] = Ended(r, "KEY_DECRYPT_FAILED")]
      /\ req[r].mode = "test" => req' = [req EXCEPT ![r] = Ended(r, "tested")]
  BY DEF DecryptFail, Tested, history
<1>3. req[r].key \in KeyIds /\ req[r].mode \in {"pool", "pinned", "test"} /\ req[r].attempts < TotalAttempts
  BY <1>1, <1>2 DEF HasKey, HasAttempt, ReqStates, Modes
<1>4. Fair(req[r].row, served[req[r].key]) /\ served[req[r].key] \in Nat
  BY <1>1, <1>3 DEF FairCopies
<1>5. Handled(req[r].row, DecryptFailedRow(req[r].row), served'[req[r].key])
  BY <1>1, <1>2, <1>4, HandledRows
<1>6. served' \in [KeyIds -> Nat] /\ \A k \in KeyIds : served[k] <= served'[k]
  BY <1>1, <1>2
<1>7. RowsMove /\ OthersTyped'
  BY <1>1, <1>2, <1>3, <1>5, <1>6, RowsCommit DEF OthersTyped
<1>8. CASE req[r].mode = "pool"
  <2> DEFINE s == Reloaded(r)
  <2>1. Session(r, s) /\ s \in ReqStates
    BY <1>3, <1>7, Sessions DEF Session
  <2> HIDE DEF s
  <2>2. x = [s EXCEPT !.pc = "select", !.lease = FALSE, !.decryptFailed = TRUE] /\ req' = [req EXCEPT ![r] = x]
    BY <1>2, <1>8 DEF s
  <2> HIDE DEF x
  <2>3. /\ x \in ReqStates /\ x.pc = "select" /\ x.lease = FALSE /\ x.mode = s.mode /\ x.key = s.key
        /\ x.attempts = s.attempts /\ x.old = s.old /\ x.new = s.new /\ x.result = s.result /\ x.row = s.row
    BY <2>1, <2>2 DEF ReqStates
  <2>4. Control(r, x) /\ FairCopies(x, served')
    BY <1>2, <1>3, <1>7, <2>1, <2>3, OnwardOK
  <2>5. Stays(r, x) \/ Gives(r, x)
    BY <1>2, <2>3, LeaseOver
  <2>6. QED
    BY <1>7, <2>2, <2>4, <2>5 DEF Moves
<1>9. CASE req[r].mode = "pinned"
  BY <1>2, <1>7, <1>9, EndMoves DEF Results
<1>10. CASE req[r].mode = "test"
  BY <1>2, <1>7, <1>10, EndMoves DEF Results
<1> QED
  BY <1>3, <1>8, <1>9, <1>10

LEMMA UnauthorizedMoves ==
    ASSUME ForwarderInv, NEW r \in Requests, NEW ok \in BOOLEAN, Unauthorized(r, ok)
    PROVE  \E x : Moves(r, x)
<1>1. /\ Typed /\ OthersTyped /\ req[r] \in ReqStates /\ HasLease(req[r]) /\ HasAttempt(req[r]) /\ GaveUp(r, req[r])
      /\ HasKey(req[r]) /\ KeepsOff(req[r]) /\ req[r].row \in KeyRow /\ FairCopies(req[r], served)
      /\ served \in [KeyIds -> Nat]
  BY Facts DEF Typed
<1>2. /\ req[r].pc = "handle" /\ req[r].answer = "401" /\ CommitRow(r, DisabledRow(req[r].row), ok)
      /\ req' = [req EXCEPT ![r] = Switch(r, Reloaded(r))]
      /\ UNCHANGED <<client, rr, failures, store, inUse, now, today, served>>
  BY DEF Unauthorized, history
<1>3. req[r].key \in KeyIds /\ req[r].lease = FALSE
  BY <1>1, <1>2 DEF HasKey, HasLease, ReqStates
<1>4. Fair(req[r].row, served[req[r].key]) /\ served[req[r].key] \in Nat
  BY <1>1, <1>3 DEF FairCopies
<1>5. Handled(req[r].row, DisabledRow(req[r].row), served'[req[r].key])
  BY <1>1, <1>2, <1>4, HandledRows
<1>6. served' \in [KeyIds -> Nat] /\ \A k \in KeyIds : served[k] <= served'[k]
  BY <1>1, <1>2
<1>7. RowsMove /\ OthersTyped'
  BY <1>1, <1>2, <1>3, <1>5, <1>6, RowsCommit DEF OthersTyped
<1>8. Session(r, Reloaded(r))
  BY <1>3, <1>7, Sessions
<1> QED
  BY <1>2, <1>3, <1>7, <1>8, SwitchMoves

LEMMA TooManyMoves ==
    ASSUME ForwarderInv, NEW r \in Requests, NEW ok \in BOOLEAN, TooMany(r, ok)
    PROVE  \E x : Moves(r, x)
<1> DEFINE skip == Disabled(req[r].row)
           until == now + Cooldown(req[r].retryAfter) * TicksPerSec
           s == IF skip THEN req[r] ELSE Reloaded(r)
<1>1. /\ Typed /\ OthersTyped /\ req[r] \in ReqStates /\ HasLease(req[r]) /\ HasAttempt(req[r]) /\ GaveUp(r, req[r])
      /\ HasKey(req[r]) /\ KeepsOff(req[r]) /\ req[r].row \in KeyRow /\ FairCopies(req[r], served)
      /\ served \in [KeyIds -> Nat]
  BY Facts DEF Typed
<1>2. /\ req[r].pc = "handle" /\ req[r].answer = "429"
      /\ IF skip THEN UNCHANGED keys ELSE CommitRow(r, CoolingRow(req[r].row, until), ok)
      /\ store' = IF ~skip /\ ok /\ SharedStore THEN [store EXCEPT ![req[r].key] = until] ELSE store
      /\ req' = [req EXCEPT ![r] = Switch(r, s)]
      /\ UNCHANGED <<client, rr, failures, inUse, now, today, served>>
  BY DEF TooMany, history
<1>3. req[r].key \in KeyIds /\ req[r].lease = FALSE
  BY <1>1, <1>2 DEF HasKey, HasLease, ReqStates
<1>4. Fair(req[r].row, served[req[r].key]) /\ served[req[r].key] \in Nat
  BY <1>1, <1>3 DEF FairCopies
<1>5. until \in Nat
  <2>1. req[r].retryAfter \in Nat \cup {None} /\ now \in Nat
    BY <1>1 DEF ReqStates, Typed
  <2>2. Cooldown(req[r].retryAfter) \in Nat
    BY <2>1, Constants DEF Cooldown, None
  <2>3. QED
    BY <2>1, <2>2, Constants
<1> HIDE DEF until
<1>6. Handled(req[r].row, CoolingRow(req[r].row, until), served'[req[r].key])
  BY <1>1, <1>2, <1>4, <1>5, HandledRows
<1>7. served' \in [KeyIds -> Nat] /\ \A k \in KeyIds : served[k] <= served'[k]
  BY <1>1, <1>2
<1>8. RowsMove
  BY <1>2, <1>3, <1>6, <1>7, RowsCommit, RowsStay
<1>9. OthersTyped'
  BY <1>1, <1>2, <1>5 DEF OthersTyped
<1>10. Session(r, s)
  BY <1>3, <1>8, Sessions
<1> HIDE DEF s
<1> QED
  BY <1>2, <1>3, <1>8, <1>9, <1>10, SwitchMoves

LEMMA FailedMoves ==
    ASSUME ForwarderInv, NEW r \in Requests, NEW ok \in BOOLEAN, Failed(r, ok)
    PROVE  \E x : Moves(r, x)
<1> DEFINE k == req[r].key
           skip == Disabled(req[r].row)
           f == Counted(k)
           until == now + Greater(FailedCooldownSeconds, 1) * TicksPerSec
           new == [req[r].row EXCEPT !.status = "failed", !.until = until]
           s == FailureSession(r)
           code == CASE req[r].answer = "timeout" -> "UPSTREAM_TIMEOUT"
                     [] req[r].answer = "http_error" -> "UPSTREAM_UNAVAILABLE"
                     [] req[r].answer = "5xx" -> "answered"
<1>1. /\ Typed /\ OthersTyped /\ req[r] \in ReqStates /\ HasLease(req[r]) /\ HasAttempt(req[r]) /\ GaveUp(r, req[r])
      /\ HasKey(req[r]) /\ KeepsOff(req[r]) /\ req[r].row \in KeyRow /\ FairCopies(req[r], served)
      /\ served \in [KeyIds -> Nat]
  BY Facts DEF Typed
<1>2. /\ req[r].pc = "handle" /\ req[r].answer \in {"timeout", "http_error", "5xx"}
      /\ failures' = IF skip THEN failures ELSE [failures EXCEPT ![k] = f]
      /\ IF skip \/ f.count < FailureThreshold THEN UNCHANGED keys ELSE CommitRow(r, new, ok)
      /\ inUse' = Released(r)
      /\ req' = [req EXCEPT ![r] = IF req[r].mode = "test" THEN Ended(r, "tested")
                                   ELSE IF ~Last(r) THEN TryAgain(s) ELSE Ended(r, code)]
      /\ UNCHANGED <<client, rr, store, now, today, served>>
  BY DEF Failed, RecordFailure, Tested, history
<1>3. k \in KeyIds
  BY <1>1, <1>2 DEF HasKey
<1>4. Fair(req[r].row, served[k]) /\ served[k] \in Nat
  BY <1>1, <1>3 DEF FairCopies
<1>5. until \in Nat
  <2>1. Greater(FailedCooldownSeconds, 1) \in Nat /\ now \in Nat
    BY <1>1, Constants DEF Greater, Typed
  <2>2. QED
    BY <2>1, Constants
<1>6. f \in [count : Nat, first : Nat \cup {None}]
  <2>1. failures[k] \in [count : Nat, first : Nat \cup {None}] /\ now \in Nat
    BY <1>1, <1>3 DEF Typed
  <2>2. f \in {[count |-> 1, first |-> now], [failures[k] EXCEPT !.count = @ + 1]}
    BY DEF Counted
  <2> HIDE DEF f
  <2>3. QED
    BY <2>1, <2>2
<1> HIDE DEF f
<1>7. Handled(req[r].row, new, served'[k])
  <2> HIDE DEF until
  <2> QED
    BY <1>1, <1>2, <1>4, <1>5, HandledRows
<1>8. served' \in [KeyIds -> Nat] /\ \A j \in KeyIds : served[j] <= served'[j]
  BY <1>1, <1>2
<1> HIDE DEF new
<1>9. RowsMove
  BY <1>2, <1>3, <1>7, <1>8, RowsCommit, RowsStay
<1>10. OthersTyped'
  BY <1>1, <1>2, <1>3, <1>6 DEF OthersTyped
<1>11. Session(r, s)
  BY <1>3, <1>9, Sessions DEF FailureSession
<1> HIDE DEF s
<1>12. CASE req[r].mode = "test"
  <2>1. req' = [req EXCEPT ![r] = Ended(r, "tested")]
    BY <1>2, <1>12
  <2>2. QED
    BY <1>2, <1>9, <1>10, <2>1, EndMoves DEF Results
<1>13. CASE req[r].mode # "test" /\ ~Last(r)
  <2> DEFINE x == TryAgain(s)
  <2>1. req' = [req EXCEPT ![r] = x]
    BY <1>2, <1>13
  <2>2. Control(r, x) /\ FairCopies(x, served') /\ x.lease = FALSE
    BY <1>2, <1>9, <1>11, <1>13, AgainOK
  <2> HIDE DEF x
  <2>3. Stays(r, x) \/ Gives(r, x)
    BY <1>2, <2>2, LeaseOver
  <2>4. QED
    BY <1>9, <1>10, <2>1, <2>2, <2>3 DEF Moves
<1>14. CASE req[r].mode # "test" /\ Last(r)
  <2> DEFINE x == Ended(r, code)
  <2>1. code \in {"UPSTREAM_TIMEOUT", "UPSTREAM_UNAVAILABLE", "answered"}
    BY <1>2
  <2> HIDE DEF code
  <2>2. req' = [req EXCEPT ![r] = x]
    BY <1>2, <1>14
  <2>3. /\ x \in ReqStates /\ x.pc = "done" /\ x.mode = "pool" /\ x.key = 0 /\ x.lease = FALSE
        /\ x.old = BlankRows /\ x.new = BlankRows /\ x.result = code /\ x.attempts = req[r].attempts
    <3>1. code \in Results
      BY <2>1 DEF Results
    <3>2. QED
      BY <3>1, EndedTyped
  <2> HIDE DEF x
  <2>4. req[r].attempts = TotalAttempts
    <3>1. req[r].attempts \in 0..TotalAttempts
      BY <1>1 DEF ReqStates
    <3>2. QED
      BY <1>14, <3>1, Constants DEF Last
  <2>5. GaveUp(r, x)
    BY <2>1, <2>3, <2>4 DEF GaveUp
  <2>6. Control(r, x) /\ FairCopies(x, served')
    BY <1>8, <2>3, <2>5, OverOK
  <2>7. Stays(r, x) \/ Gives(r, x)
    BY <1>2, <2>3, LeaseOver
  <2>8. QED
    BY <1>9, <1>10, <2>2, <2>6, <2>7 DEF Moves
<1> QED
  BY <1>12, <1>13, <1>14

LEMMA OtherAnswerMoves ==
    ASSUME ForwarderInv, NEW r \in Requests, OtherAnswer(r)
    PROVE  \E x : Moves(r, x)
<1>1. /\ Typed /\ OthersTyped /\ req[r] \in ReqStates /\ HasLease(req[r]) /\ HasAttempt(req[r]) /\ GaveUp(r, req[r])
      /\ HasKey(req[r]) /\ KeepsOff(req[r]) /\ req[r].row \in KeyRow /\ FairCopies(req[r], served)
      /\ served \in [KeyIds -> Nat]
  BY Facts DEF Typed
<1>2. /\ req[r].pc = "handle" /\ req[r].answer = "4xx"
      /\ \E result \in {"tested", "answered"} : req' = [req EXCEPT ![r] = Ended(r, result)]
      /\ UNCHANGED <<keys, client, rr, failures, store, inUse, now, today, served>>
  BY DEF OtherAnswer, Tested, history
<1>3. req[r].key \in KeyIds /\ req[r].lease = FALSE
  BY <1>1, <1>2 DEF HasKey, HasLease, ReqStates
<1>4. Fair(req[r].row, served[req[r].key]) /\ served[req[r].key] \in Nat
  BY <1>1, <1>3 DEF FairCopies
<1>5. RowsMove /\ OthersTyped'
  BY <1>1, <1>2, RowsStay DEF OthersTyped
<1> QED
  BY <1>2, <1>3, <1>5, EndMoves DEF Results

LEMMA TestOkMoves ==
    ASSUME ForwarderInv, NEW r \in Requests, NEW ok \in BOOLEAN, TestOk(r, ok)
    PROVE  \E x : Moves(r, x)
<1>1. /\ Typed /\ OthersTyped /\ req[r] \in ReqStates /\ HasLease(req[r]) /\ HasAttempt(req[r]) /\ GaveUp(r, req[r])
      /\ HasKey(req[r]) /\ KeepsOff(req[r]) /\ req[r].row \in KeyRow /\ FairCopies(req[r], served)
      /\ served \in [KeyIds -> Nat]
  BY Facts DEF Typed
<1>2. /\ req[r].pc = "handle" /\ req[r].answer = "ok"
      /\ IF Disabled(req[r].row) THEN UNCHANGED keys ELSE CommitRow(r, ActiveRow(req[r].row), ok)
      /\ req' = [req EXCEPT ![r] = Ended(r, "tested")]
      /\ UNCHANGED <<client, rr, failures, store, inUse, now, today, served>>
  BY DEF TestOk, Tested, history
<1>3. req[r].key \in KeyIds /\ req[r].lease = FALSE
  BY <1>1, <1>2 DEF HasKey, HasLease, ReqStates
<1>4. Fair(req[r].row, served[req[r].key]) /\ served[req[r].key] \in Nat
  BY <1>1, <1>3 DEF FairCopies
<1>5. Handled(req[r].row, ActiveRow(req[r].row), served'[req[r].key])
  BY <1>1, <1>2, <1>4, HandledRows
<1>6. served' \in [KeyIds -> Nat] /\ \A k \in KeyIds : served[k] <= served'[k]
  BY <1>1, <1>2
<1>7. RowsMove
  BY <1>2, <1>3, <1>5, <1>6, RowsCommit, RowsStay
<1>8. OthersTyped'
  BY <1>1, <1>2 DEF OthersTyped
<1> QED
  BY <1>2, <1>3, <1>7, <1>8, EndMoves DEF Results

LEMMA ReadClientMoves ==
    ASSUME ForwarderInv, NEW r \in Requests, ReadClient(r)
    PROVE  \E x : Moves(r, x)
<1> DEFINE seen == IF req[r].cview = None THEN client ELSE req[r].cview
           x == [req[r] EXCEPT !.pc = "consume", !.cview = seen]
<1>1. /\ Typed /\ OthersTyped /\ req[r] \in ReqStates /\ HasLease(req[r]) /\ HasAttempt(req[r]) /\ GaveUp(r, req[r])
      /\ HasKey(req[r]) /\ KeepsOff(req[r]) /\ req[r].row \in KeyRow /\ FairCopies(req[r], served)
      /\ served \in [KeyIds -> Nat]
  BY Facts DEF Typed
<1>2. /\ req[r].pc = "handle" /\ req[r].answer = "ok" /\ req' = [req EXCEPT ![r] = x]
      /\ UNCHANGED <<keys, client, rr, failures, store, inUse, now, today, served>>
  BY <1>1 DEF ReadClient, Typed, ReqStates, history
<1>3. req[r].key \in KeyIds /\ req[r].lease = FALSE
  BY <1>1, <1>2 DEF HasKey, HasLease, ReqStates
<1>4. Fair(req[r].row, served[req[r].key]) /\ served[req[r].key] \in Nat
  BY <1>1, <1>3 DEF FairCopies
<1>5. seen \in Nat \cup {None}
  BY <1>1 DEF Typed, ReqStates
<1> HIDE DEF seen
<1>6. /\ x \in ReqStates /\ x.pc = "consume" /\ x.key = req[r].key /\ x.row = req[r].row /\ x.new = req[r].new
      /\ x.old = req[r].old /\ x.mode = req[r].mode /\ x.lease = req[r].lease /\ x.result = req[r].result
  BY <1>1, <1>5 DEF ReqStates
<1> HIDE DEF x
<1>7. Control(r, x)
  BY <1>1, <1>2, <1>3, <1>6 DEF Control, HasKey, HasAttempt, HasLease, KeepsOff, GaveUp
<1>8. FairCopies(x, served')
  BY <1>1, <1>2, <1>6 DEF FairCopies
<1>9. Stays(r, x)
  BY <1>2, <1>6 DEF Stays
<1>10. RowsMove /\ OthersTyped'
  BY <1>1, <1>2, RowsStay DEF OthersTyped
<1> QED
  BY <1>2, <1>7, <1>8, <1>9, <1>10 DEF Moves

\* One more call of key k is accounted for if its commit succeeds.
LEMMA ServedGrows ==
    ASSUME ForwarderInv, NEW k \in KeyIds, NEW ok \in BOOLEAN,
           served' = IF ok THEN [served EXCEPT ![k] = @ + 1] ELSE served
    PROVE  /\ served' \in [KeyIds -> Nat] /\ \A j \in KeyIds : served[j] <= served'[j]
           /\ ok => served'[k] = served[k] + 1
<1>1. served \in [KeyIds -> Nat]
  BY DEF ForwarderInv, Typed
<1> QED
  BY <1>1

LEMMA ConsumeMoves ==
    ASSUME ForwarderInv, NEW r \in Requests, NEW ok \in BOOLEAN, Consume(r, ok)
    PROVE  \E x : Moves(r, x)
<1> DEFINE k == req[r].key
           used == CountUse(r, req[r].row)
           new == IF OverQuota(k, used) THEN [used EXCEPT !.status = "quota_exceeded"] ELSE used
           code == IF ok THEN "answered" ELSE "DB_UNAVAILABLE"
<1>1. /\ Typed /\ OthersTyped /\ req[r] \in ReqStates /\ HasLease(req[r]) /\ HasAttempt(req[r]) /\ GaveUp(r, req[r])
      /\ HasKey(req[r]) /\ KeepsOff(req[r]) /\ req[r].row \in KeyRow /\ FairCopies(req[r], served)
      /\ served \in [KeyIds -> Nat]
  BY Facts DEF Typed
<1>2. /\ req[r].pc = "consume" /\ CommitRow(r, new, ok)
      /\ client' = IF ok /\ ClientCounted THEN req[r].cview + 1 ELSE client
      /\ served' = IF ok THEN [served EXCEPT ![k] = @ + 1] ELSE served
      /\ req' = [req EXCEPT ![r] = Ended(r, code)]
      /\ UNCHANGED <<rr, failures, store, inUse, now, today>>
  BY DEF Consume, Serve, history
<1>3. req[r].key \in KeyIds /\ req[r].lease = FALSE
  BY <1>1, <1>2 DEF HasKey, HasLease, ReqStates
<1>4. Fair(req[r].row, served[req[r].key]) /\ served[req[r].key] \in Nat
  BY <1>1, <1>3 DEF FairCopies
<1>5. Handled(req[r].row, new, served[k] + 1)
  BY <1>1, <1>4, CountedRow
<1> HIDE DEF new
<1>6. RowsMove
  BY <1>2, <1>3, <1>5, ServedGrows, RowsCommit
<1>7. req[r].cview + 1 \in Nat
  <2>1. req[r].cview \in Nat \cup {None}
    BY <1>1 DEF ReqStates
  <2>2. QED
    BY <2>1 DEF None
<1>8. OthersTyped'
  BY <1>1, <1>2, <1>7 DEF OthersTyped
<1>9. code \in Results /\ code \notin {"UPSTREAM_TIMEOUT", "UPSTREAM_UNAVAILABLE", "ALL_KEYS_BUSY"}
  BY DEF Results
<1> HIDE DEF code
<1> QED
  BY <1>2, <1>3, <1>6, <1>8, <1>9, EndMoves

LEMMA SaveCreditsMoves ==
    ASSUME ForwarderInv, NEW r \in Requests, NEW ok \in BOOLEAN, SaveCredits(r, ok)
    PROVE  \E x : Moves(r, x)
<1> DEFINE k == req[r].key
<1>1. /\ Typed /\ OthersTyped /\ req[r] \in ReqStates /\ HasLease(req[r]) /\ HasAttempt(req[r]) /\ GaveUp(r, req[r])
      /\ HasKey(req[r]) /\ KeepsOff(req[r]) /\ req[r].row \in KeyRow /\ FairCopies(req[r], served)
      /\ served \in [KeyIds -> Nat]
  BY Facts DEF Typed
<1>2. /\ req[r].pc = "handle" /\ req[r].answer = "ok" /\ CommitRow(r, Spent(req[r].row), ok)
      /\ served' = IF ok THEN [served EXCEPT ![k] = @ + 1] ELSE served
      /\ req' = [req EXCEPT ![r] = Ended(r, "answered")]
      /\ UNCHANGED <<client, rr, failures, store, inUse, now, today>>
  BY DEF SaveCredits, Serve, history
<1>3. req[r].key \in KeyIds /\ req[r].lease = FALSE
  BY <1>1, <1>2 DEF HasKey, HasLease, ReqStates
<1>4. Fair(req[r].row, served[req[r].key]) /\ served[req[r].key] \in Nat
  BY <1>1, <1>3 DEF FairCopies
<1>5. Handled(req[r].row, Spent(req[r].row), served[k] + 1)
  BY <1>1, <1>4, SpentRow
<1>6. RowsMove
  BY <1>2, <1>3, <1>5, ServedGrows, RowsCommit
<1>7. OthersTyped'
  BY <1>1, <1>2 DEF OthersTyped
<1> QED
  BY <1>2, <1>3, <1>6, <1>7, EndMoves DEF Results

LEMMA StepMoves ==
    ASSUME ForwarderInv, NEW r \in Requests, Step(r)
    PROVE  \E x : Moves(r, x)
<1>1. CommitOutcomes \subseteq BOOLEAN
  BY DEF CommitOutcomes
<1>2. CASE RateDenied(r) \/ NoLease(r)
  BY <1>2, TurnedAwayMoves DEF RateDenied, NoLease
<1>3. CASE \E ok \in CommitOutcomes :
             \/ SelectCommit(r, ok) \/ DecryptFail(r, ok) \/ Failed(r, ok) \/ TooMany(r, ok)
             \/ Unauthorized(r, ok) \/ TestOk(r, ok) \/ Consume(r, ok) \/ SaveCredits(r, ok)
  BY <1>1, <1>3, SelectCommitMoves, DecryptFailMoves, FailedMoves, TooManyMoves, UnauthorizedMoves, TestOkMoves,
     ConsumeMoves, SaveCreditsMoves, Zenon
<1> QED
  BY <1>2, <1>3, StartMoves, SelectQueryMoves, SelectExhaustedMoves, AcquireMoves, AnsweredMoves, OtherAnswerMoves,
     ReadClientMoves, Zenon DEF Step
-----------------------------------------------------------------------------
\* Slots.

\* What a step of request r does to the holders of the keys.
LEMMA HoldersMove ==
    ASSUME ForwarderInv, NEW r \in Requests, NEW x, Moves(r, x)
    PROVE  /\ Stays(r, x) => \A k \in KeyIds : HoldersOf(k)' = HoldersOf(k)
           /\ Takes(r, x) => \A k \in KeyIds : HoldersOf(k)' = IF k = x.key THEN HoldersOf(k) \cup {r} ELSE HoldersOf(k)
           /\ Gives(r, x) => \A k \in KeyIds : HoldersOf(k)' = HoldersOf(k) \ {r}
<1>1. req \in [Requests -> ReqStates] /\ req' = [req EXCEPT ![r] = x] /\ x \in ReqStates
  BY DEF ForwarderInv, Typed, Moves, Control
<1>2. req'[r] = x /\ \A q \in Requests : q # r => req'[q] = req[q]
  BY <1>1
<1>3. ASSUME NEW k \in KeyIds
      PROVE  \A q \in Requests : q \in HoldersOf(k)' <=> IF q = r THEN x.lease /\ x.key = k ELSE q \in HoldersOf(k)
  BY <1>2 DEF HoldersOf
<1>4. \A k \in KeyIds : HoldersOf(k)' \subseteq Requests /\ HoldersOf(k) \subseteq Requests
  BY DEF HoldersOf
<1>5. \A k \in KeyIds : r \in HoldersOf(k) <=> req[r].lease /\ req[r].key = k
  BY DEF HoldersOf
<1>6. Stays(r, x) => \A k \in KeyIds : HoldersOf(k)' = HoldersOf(k)
  BY <1>3, <1>4, <1>5 DEF Stays
<1>7. Takes(r, x) => \A k \in KeyIds : HoldersOf(k)' = IF k = x.key THEN HoldersOf(k) \cup {r} ELSE HoldersOf(k)
  BY <1>3, <1>4, <1>5 DEF Takes
<1>8. Gives(r, x) => \A k \in KeyIds : HoldersOf(k)' = HoldersOf(k) \ {r}
  BY <1>3, <1>4, <1>5 DEF Gives
<1> QED
  BY <1>6, <1>7, <1>8

LEMMA SlotsMove ==
    ASSUME ForwarderInv, NEW r \in Requests, NEW x, Moves(r, x)
    PROVE  inUse' \in [KeyIds -> Nat] /\ SlotsCounted'
<1>1. inUse \in [KeyIds -> Nat] /\ SlotsCounted
  BY DEF ForwarderInv, Typed
<1>2. CASE Stays(r, x)
  <2>1. \A k \in KeyIds : HoldersOf(k)' = HoldersOf(k)
    BY <1>2, HoldersMove
  <2>2. inUse' = inUse
    BY <1>2 DEF Stays
  <2>3. QED
    BY <1>1, <2>1, <2>2 DEF SlotsCounted
<1>3. CASE Takes(r, x)
  <2>1. /\ ~req[r].lease /\ Limited /\ x.key \in KeyIds /\ inUse[x.key] < MaxConcurrent
        /\ inUse' = [inUse EXCEPT ![x.key] = @ + 1]
    BY <1>3 DEF Takes
  <2>2. inUse' \in [KeyIds -> Nat]
    BY <1>1, <2>1
  <2>3. ASSUME NEW k \in KeyIds
        PROVE  /\ IsFiniteSet(HoldersOf(k)') /\ inUse'[k] = Cardinality(HoldersOf(k)')
               /\ Limited => inUse'[k] <= MaxConcurrent
    <3>0. IsFiniteSet(HoldersOf(k)) /\ inUse[k] = Cardinality(HoldersOf(k)) /\ inUse[k] <= MaxConcurrent
      BY <1>1, <2>1 DEF SlotsCounted
    <3>1. CASE k = x.key
      <4>1. HoldersOf(k)' = HoldersOf(k) \cup {r} /\ r \notin HoldersOf(k)
        BY <1>3, <2>1, <3>1, HoldersMove DEF HoldersOf
      <4>2. IsFiniteSet(HoldersOf(k)') /\ Cardinality(HoldersOf(k)') = Cardinality(HoldersOf(k)) + 1
        BY <3>0, <4>1, FS_AddElement
      <4>3. inUse'[k] = inUse[k] + 1 /\ inUse[k] \in Nat /\ inUse[k] < MaxConcurrent
        BY <1>1, <2>1, <3>1
      <4>4. QED
        BY <3>0, <4>2, <4>3, Constants
    <3>2. CASE k # x.key
      <4>1. HoldersOf(k)' = HoldersOf(k) /\ inUse'[k] = inUse[k]
        BY <1>1, <1>3, <2>1, <3>2, HoldersMove
      <4>2. QED
        BY <3>0, <4>1
    <3>3. QED
      BY <3>1, <3>2
  <2>4. QED
    BY <2>2, <2>3 DEF SlotsCounted, Limited
<1>4. CASE Gives(r, x)
  <2> DEFINE key == req[r].key
  <2>1. req[r].lease /\ inUse' = [inUse EXCEPT ![key] = Greater(@ - 1, 0)]
    BY <1>4 DEF Gives, Released
  <2>2. key \in KeyIds
    BY <2>1, Facts DEF HasLease, HasKey
  <2>3. Greater(inUse[key] - 1, 0) \in Nat
    BY <1>1, <2>2 DEF Greater
  <2>4. inUse' \in [KeyIds -> Nat]
    BY <1>1, <2>1, <2>2, <2>3
  <2>5. ASSUME NEW k \in KeyIds
        PROVE  /\ IsFiniteSet(HoldersOf(k)') /\ inUse'[k] = Cardinality(HoldersOf(k)')
               /\ Limited => inUse'[k] <= MaxConcurrent
    <3>0. /\ IsFiniteSet(HoldersOf(k)) /\ inUse[k] = Cardinality(HoldersOf(k)) /\ inUse[k] \in Nat
          /\ Limited => inUse[k] <= MaxConcurrent
      BY <1>1 DEF SlotsCounted
    <3>1. CASE k = key
      <4>1. HoldersOf(k)' = HoldersOf(k) \ {r} /\ r \in HoldersOf(k)
        BY <1>4, <2>1, <3>1, HoldersMove DEF HoldersOf
      <4>2. IsFiniteSet(HoldersOf(k)') /\ Cardinality(HoldersOf(k)') = Cardinality(HoldersOf(k)) - 1
        BY <3>0, <4>1, FS_RemoveElement
      <4>3. Cardinality(HoldersOf(k)') \in Nat
        BY <4>2, FS_CardinalityType
      <4>4. inUse'[k] = Greater(inUse[k] - 1, 0)
        BY <1>1, <2>1, <3>1
      <4>5. inUse'[k] = inUse[k] - 1
        BY <3>0, <4>2, <4>3, <4>4 DEF Greater
      <4>6. QED
        BY <3>0, <4>2, <4>5, Constants
    <3>2. CASE k # key
      <4>1. HoldersOf(k)' = HoldersOf(k) \ {r} /\ r \notin HoldersOf(k) /\ inUse'[k] = inUse[k]
        BY <1>1, <1>4, <2>1, <3>2, HoldersMove DEF HoldersOf
      <4>2. HoldersOf(k)' = HoldersOf(k)
        BY <4>1
      <4>3. QED
        BY <3>0, <4>1, <4>2
    <3>3. QED
      BY <3>1, <3>2
  <2>6. QED
    BY <2>4, <2>5 DEF SlotsCounted, Limited
<1> QED
  BY <1>2, <1>3, <1>4 DEF Moves
-----------------------------------------------------------------------------
\* Days.  The state is a parameter of these definitions: rows db, answers n
\* of today, blurred keys, date d.

\* A row of key k, or a copy of one, charges day d for no more than it served.
DayRow(k, row, n, blur, d) ==
    /\ row.day <= d
    /\ row.day = d /\ k \notin blur => row.usage <= n[k]

\* Since a session read the usage u only calls of today were charged.
Behind(k, u, db, n, blur) ==
    k \notin blur => db[k].usage <= u \/ db[k].usage <= n[k]

\* What select() is about to commit: if it dates the row it resets its usage,
\* and a usage that it found to be zero already is still one of today.
Pending(k, old, new, db, n, blur, d) ==
    /\ new.day <= d
    /\ new.day = old.day => new.usage = old.usage
    /\ new.day # old.day => new.usage = 0
    /\ new.day # old.day /\ new.day = d => Behind(k, old.usage, db, n, blur)

DayCopies(x, db, n, blur, d) ==
    /\ x.pc # "commit" /\ x.key \in KeyIds => /\ DayRow(x.key, x.row, n, blur, d)
                                             /\ Behind(x.key, x.row.usage, db, n, blur)
    /\ x.pc = "commit" =>
          \A k \in KeyIds : Pending(k, x.old[k], x.new[k], db, n, blur, d)

\* The invariant of the day's counts.
DayInv ==
    /\ servedToday \in [KeyIds -> Nat] /\ blurred \subseteq KeyIds
    /\ \A k \in KeyIds : DayRow(k, keys[k], servedToday, blurred, today)
    /\ \A r \in Requests : DayCopies(req[r], keys, servedToday, blurred, today)

\* The rows move within a day.
DayMove ==
    /\ today' = today /\ servedToday' \in [KeyIds -> Nat]
    /\ blurred \subseteq blurred' /\ blurred' \subseteq KeyIds
    /\ keys' \in [KeyIds -> KeyRow]
    /\ \A k \in KeyIds : /\ servedToday[k] <= servedToday'[k]
                         /\ DayRow(k, keys'[k], servedToday', blurred', today)
                         /\ Behind(k, keys[k].usage, keys', servedToday', blurred')

LEMMA BehindKept ==
    ASSUME ForwarderInv, DayInv, DayMove, NEW k \in KeyIds, NEW u \in Nat,
           Behind(k, u, keys, servedToday, blurred)
    PROVE  Behind(k, u, keys', servedToday', blurred')
<1>1. /\ keys[k].usage \in Nat /\ keys'[k].usage \in Nat /\ servedToday[k] \in Nat /\ servedToday'[k] \in Nat
      /\ servedToday[k] <= servedToday'[k] /\ blurred \subseteq blurred'
      /\ Behind(k, keys[k].usage, keys', servedToday', blurred')
  BY DEF ForwarderInv, Typed, DayInv, DayMove, KeyRow
<1> QED
  BY <1>1 DEF Behind

LEMMA CopiesKept ==
    ASSUME ForwarderInv, DayInv, DayMove, NEW r \in Requests
    PROVE  DayCopies(req[r], keys', servedToday', blurred', today')
<1>1. /\ req[r] \in ReqStates /\ DayCopies(req[r], keys, servedToday, blurred, today)
      /\ today' = today /\ blurred \subseteq blurred'
      /\ \A k \in KeyIds : servedToday[k] \in Nat /\ servedToday'[k] \in Nat /\ servedToday[k] <= servedToday'[k]
  BY Facts DEF DayInv, DayMove
<1>2. CASE req[r].pc # "commit" /\ req[r].key \in KeyIds
  <2> DEFINE k == req[r].key
             row == req[r].row
  <2>1. row \in KeyRow /\ row.usage \in Nat
    BY <1>1 DEF ReqStates, KeyRow
  <2>2. DayRow(k, row, servedToday, blurred, today) /\ Behind(k, row.usage, keys, servedToday, blurred)
    BY <1>1, <1>2 DEF DayCopies
  <2>3. Behind(k, row.usage, keys', servedToday', blurred')
    BY <1>2, <2>1, <2>2, BehindKept
  <2>4. servedToday[k] \in Nat /\ servedToday'[k] \in Nat /\ servedToday[k] <= servedToday'[k]
    BY <1>1, <1>2
  <2>5. DayRow(k, row, servedToday', blurred', today')
    BY <1>1, <2>1, <2>2, <2>4 DEF DayRow
  <2>6. QED
    BY <1>2, <2>3, <2>5 DEF DayCopies
<1>3. CASE req[r].pc = "commit"
  <2>1. ASSUME NEW k \in KeyIds
        PROVE  Pending(k, req[r].old[k], req[r].new[k], keys', servedToday', blurred', today')
    <3>1. req[r].old[k].usage \in Nat
      BY <1>1 DEF ReqStates, KeyRow
    <3>2. Pending(k, req[r].old[k], req[r].new[k], keys, servedToday, blurred, today)
      BY <1>1, <1>3 DEF DayCopies
    <3>3. QED
      BY <1>1, <3>1, <3>2, BehindKept DEF Pending
  <2>2. QED
    BY <1>3, <2>1 DEF DayCopies
<1>4. CASE req[r].pc # "commit" /\ req[r].key \notin KeyIds
  BY <1>4 DEF DayCopies
<1> QED
  BY <1>2, <1>3, <1>4

LEMMA DayKept ==
    ASSUME ForwarderInv, DayInv, DayMove, NEW r \in Requests, NEW x, req' = [req EXCEPT ![r] = x],
           DayCopies(x, keys', servedToday', blurred', today')
    PROVE  DayInv'
<1>1. req'[r] = x /\ \A q \in Requests : q # r => req'[q] = req[q]
  BY Facts
<1>2. ASSUME NEW q \in Requests PROVE DayCopies(req'[q], keys', servedToday', blurred', today')
  BY <1>1, CopiesKept
<1>3. \A k \in KeyIds : DayRow(k, keys'[k], servedToday', blurred', today')
  BY DEF DayMove
<1> QED
  BY <1>2, <1>3 DEF DayInv, DayMove

\* A step that leaves usage and dates alone, after which the request has its
\* copy of the row, the row as it is now, or none.
QuietStep(r) ==
    /\ UNCHANGED <<today, history>>
    /\ \A k \in KeyIds : keys'[k].usage = keys[k].usage /\ keys'[k].day = keys[k].day
    /\ \E x : /\ req' = [req EXCEPT ![r] = x] /\ x.pc # "commit"
              /\ x.key \in KeyIds => \/ x.row = keys'[x.key]
                                     \/ req[r].pc # "commit" /\ x.key = req[r].key /\ x.row = req[r].row

LEMMA QuietKept ==
    ASSUME ForwarderInv, DayInv, keys' \in [KeyIds -> KeyRow], NEW r \in Requests, QuietStep(r)
    PROVE  DayInv'
<1>1. PICK x : /\ req' = [req EXCEPT ![r] = x] /\ x.pc # "commit"
               /\ x.key \in KeyIds => \/ x.row = keys'[x.key]
                                      \/ req[r].pc # "commit" /\ x.key = req[r].key /\ x.row = req[r].row
  BY DEF QuietStep
<1>2. /\ UNCHANGED <<today, servedToday, blurred>> /\ servedToday \in [KeyIds -> Nat] /\ blurred \subseteq KeyIds
      /\ \A k \in KeyIds : keys'[k].usage = keys[k].usage /\ keys'[k].day = keys[k].day /\ keys[k].usage \in Nat
      /\ \A k \in KeyIds : DayRow(k, keys[k], servedToday, blurred, today)
  BY DEF QuietStep, history, DayInv, ForwarderInv, Typed, KeyRow
<1>3. DayMove
  BY <1>2 DEF DayMove, DayRow, Behind
<1>4. CASE x.key \in KeyIds /\ x.row = keys'[x.key]
  <2>1. DayRow(x.key, x.row, servedToday', blurred', today') /\ Behind(x.key, x.row.usage, keys', servedToday', blurred')
    BY <1>2, <1>3, <1>4 DEF DayMove, DayRow, Behind
  <2>2. QED
    BY <1>1, <1>3, <1>4, <2>1, DayKept DEF DayCopies
<1>5. CASE x.key \in KeyIds /\ req[r].pc # "commit" /\ x.key = req[r].key /\ x.row = req[r].row
  <2>1. DayCopies(req[r], keys', servedToday', blurred', today')
    BY <1>3, CopiesKept
  <2>2. DayCopies(x, keys', servedToday', blurred', today')
    BY <1>1, <1>5, <2>1 DEF DayCopies
  <2>3. QED
    BY <1>1, <1>3, <2>2, DayKept
<1>6. CASE x.key \notin KeyIds
  BY <1>1, <1>3, <1>6, DayKept DEF DayCopies
<1> QED
  BY <1>1, <1>4, <1>5, <1>6
LEMMA EndedQuiet ==
    ASSUME NEW r, NEW result
    PROVE  Ended(r, result).pc = "done" /\ Ended(r, result).key = 0 /\ 0 \notin KeyIds
BY DEF Ended, Blank, KeyIds

\* The commit of a row whose usage and date are as they were loaded.
LEMMA QuietCommit ==
    ASSUME ForwarderInv, NEW r \in Requests, req[r].key \in KeyIds, NEW ok, NEW new,
           UNCHANGED keys \/ CommitRow(r, new, ok),
           new.usage = req[r].row.usage, new.day = req[r].row.day
    PROVE  \A k \in KeyIds : keys'[k].usage = keys[k].usage /\ keys'[k].day = keys[k].day
<1> DEFINE row == Merge(keys[req[r].key], req[r].row, new)
<1>1. keys \in [KeyIds -> KeyRow]
  BY DEF ForwarderInv, Typed
<1>2. row.usage = keys[req[r].key].usage /\ row.day = keys[req[r].key].day
  BY <1>1 DEF Merge, KeyRow
<1> HIDE DEF row
<1>3. CASE keys' = [keys EXCEPT ![req[r].key] = row]
  BY <1>1, <1>2, <1>3
<1> QED
  BY <1>1, <1>3 DEF CommitRow, row

\* Where a request goes with the key it has.
LEMMA QuietSession ==
    ASSUME ForwarderInv, NEW r \in Requests, req[r].pc # "commit", keys' \in [KeyIds -> KeyRow],
           req[r].key \in KeyIds, NEW s \in {req[r], Reloaded(r)}
    PROVE  /\ s.mode = req[r].mode /\ s.key = req[r].key /\ (s.row = req[r].row \/ s.row = keys'[s.key])
           /\ TryAgain(s).pc # "commit" /\ TryAgain(s).key = s.key /\ TryAgain(s).row = s.row
<1>1. req[r] \in ReqStates /\ keys'[req[r].key] \in KeyRow
  BY Facts
<1>2. Reloaded(r) \in ReqStates /\ Reloaded(r).mode = req[r].mode
        /\ Reloaded(r).key = req[r].key /\ Reloaded(r).row = keys'[req[r].key]
  BY <1>1 DEF Reloaded, ReqStates
<1>3. s \in ReqStates
  BY <1>1, <1>2
<1>4. TryAgain(s).pc # "commit" /\ TryAgain(s).key = s.key /\ TryAgain(s).row = s.row
  BY <1>3 DEF TryAgain, ReqStates
<1> QED
  BY <1>2, <1>4

\* The form of the quiet steps.
LEMMA QuietForm ==
    ASSUME ForwarderInv, NEW r \in Requests, req[r].pc # "commit", UNCHANGED <<today, history>>,
           \A k \in KeyIds : keys'[k].usage = keys[k].usage /\ keys'[k].day = keys[k].day,
           NEW x, req' = [req EXCEPT ![r] = x], x.pc # "commit",
           x.key \in KeyIds => x.row = keys'[x.key] \/ (x.key = req[r].key /\ x.row = req[r].row)
    PROVE  QuietStep(r)
BY DEF QuietStep

LEMMA QuietHandling ==
    ASSUME ForwarderInv, NEW r \in Requests, keys' \in [KeyIds -> KeyRow], NEW ok,
           \/ DecryptFail(r, ok) \/ Failed(r, ok) \/ TooMany(r, ok)
           \/ Unauthorized(r, ok) \/ TestOk(r, ok)
    PROVE  QuietStep(r)
<1>1. /\ req[r].pc \in {"leased", "handle"} /\ UNCHANGED <<today, history>>
  BY DEF DecryptFail, Failed, TooMany, Unauthorized, TestOk
<1>2. req[r] \in ReqStates /\ req[r].key \in KeyIds /\ req[r].row \in KeyRow
  BY <1>1, Facts DEF HasKey
<1>3. \A k \in KeyIds : keys'[k].usage = keys[k].usage /\ keys'[k].day = keys[k].day
  <2>1. ASSUME NEW new, UNCHANGED keys \/ CommitRow(r, new, ok),
               new.usage = req[r].row.usage, new.day = req[r].row.day
        PROVE  \A k \in KeyIds : keys'[k].usage = keys[k].usage /\ keys'[k].day = keys[k].day
    BY <1>2, <2>1, QuietCommit
  <2>2. CASE DecryptFail(r, ok)
    BY <1>2, <2>1, <2>2 DEF DecryptFail, DecryptFailedRow, KeyRow
  <2>3. CASE Failed(r, ok)
    <3> DEFINE until == now + Greater(FailedCooldownSeconds, 1) * TicksPerSec
               new == [req[r].row EXCEPT !.status = "failed", !.until = until]
    <3>1. UNCHANGED keys \/ CommitRow(r, new, ok)
      BY <2>3 DEF Failed, RecordFailure
    <3>2. new.usage = req[r].row.usage /\ new.day = req[r].row.day
      BY <1>2 DEF KeyRow
    <3>3. QED
      BY <2>1, <3>1, <3>2
  <2>4. CASE TooMany(r, ok)
    <3> DEFINE new == CoolingRow(req[r].row, now + Cooldown(req[r].retryAfter) * TicksPerSec)
    <3>1. UNCHANGED keys \/ CommitRow(r, new, ok)
      BY <2>4 DEF TooMany
    <3>2. new.usage = req[r].row.usage /\ new.day = req[r].row.day
      BY <1>2 DEF CoolingRow, KeyRow
    <3>3. QED
      BY <2>1, <3>1, <3>2
  <2>5. CASE Unauthorized(r, ok)
    BY <1>2, <2>1, <2>5 DEF Unauthorized, DisabledRow, KeyRow
  <2>6. CASE TestOk(r, ok)
    BY <1>2, <2>1, <2>6 DEF TestOk, ActiveRow, KeyRow
  <2>7. QED
    BY <2>2, <2>3, <2>4, <2>5, <2>6
<1>4. ASSUME NEW x, req' = [req EXCEPT ![r] = x],
             \/ \E result : x = Ended(r, result)
             \/ \E s \in {req[r], Reloaded(r)} : x.pc # "commit" /\ x.key = s.key /\ x.row = s.row
      PROVE  QuietStep(r)
  <2>1. x.pc # "commit" /\ (x.key \in KeyIds => x.row = keys'[x.key] \/ (x.key = req[r].key /\ x.row = req[r].row))
    BY <1>1, <1>2, <1>4, EndedQuiet, QuietSession
  <2>2. req[r].pc # "commit"
    BY <1>1
  <2>3. QED
    BY <1>1, <1>3, <1>4, <2>1, <2>2, QuietForm
<1>5. \A s \in {req[r], Reloaded(r)} : TryAgain(s).pc # "commit" /\ TryAgain(s).key = s.key /\ TryAgain(s).row = s.row
  BY <1>1, <1>2, QuietSession
<1>6. ASSUME NEW s \in {req[r], Reloaded(r)}, req' = [req EXCEPT ![r] = Switch(r, s)] PROVE QuietStep(r)
  <2>1. Switch(r, s) = TryAgain(s) \/ \E result : Switch(r, s) = Ended(r, result)
    BY DEF Switch, Tested
  <2> DEFINE x == Switch(r, s)
  <2>2. \/ \E result : x = Ended(r, result)
        \/ \E q \in {req[r], Reloaded(r)} : x.pc # "commit" /\ x.key = q.key /\ x.row = q.row
    BY <1>5, <2>1
  <2> HIDE DEF x
  <2>3. req' = [req EXCEPT ![r] = x]
    BY <1>6 DEF x
  <2>4. QED
    BY <1>4, <2>2, <2>3
<1>7. CASE DecryptFail(r, ok)
  <2> DEFINE y == [Reloaded(r) EXCEPT !.pc = "select", !.lease = FALSE, !.decryptFailed = TRUE]
             x == CASE req[r].mode = "pool" -> y
                    [] req[r].mode = "pinned" -> Ended(r, "KEY_DECRYPT_FAILED")
                    [] req[r].mode = "test" -> Tested(r)
  <2>1. req' = [req EXCEPT ![r] = x]
    BY <1>2, <1>7 DEF DecryptFail, ReqStates
  <2>2. req[r].mode \in Modes
    BY <1>2 DEF ReqStates
  <2>3. Reloaded(r) \in ReqStates
    BY <1>2 DEF Reloaded, ReqStates
  <2>4. y.pc # "commit" /\ y.key = Reloaded(r).key /\ y.row = Reloaded(r).row
    BY <2>3 DEF ReqStates
  <2> HIDE DEF y
  <2>5. x = y \/ \E result : x = Ended(r, result)
    BY <2>2 DEF Modes, Tested
  <2> HIDE DEF x
  <2>6. QED
    BY <1>4, <2>1, <2>4, <2>5
<1>8. CASE Failed(r, ok)
  <2> DEFINE s == FailureSession(r)
             code == CASE req[r].answer = "timeout" -> "UPSTREAM_TIMEOUT"
                       [] req[r].answer = "http_error" -> "UPSTREAM_UNAVAILABLE"
                       [] req[r].answer = "5xx" -> "answered"
             x == IF req[r].mode = "test" THEN Tested(r)
                  ELSE IF ~Last(r) THEN TryAgain(s) ELSE Ended(r, code)
  <2>1. req' = [req EXCEPT ![r] = x]
    BY <1>2, <1>8 DEF Failed
  <2>2. s \in {req[r], Reloaded(r)}
    BY DEF FailureSession
  <2> HIDE DEF s, code
  <2>3. x = TryAgain(s) \/ \E result : x = Ended(r, result)
    BY DEF Tested
  <2> HIDE DEF x
  <2>4. QED
    BY <1>4, <1>5, <2>1, <2>2, <2>3
<1>9. CASE TooMany(r, ok)
  <2>1. PICK s \in {req[r], Reloaded(r)} : req' = [req EXCEPT ![r] = Switch(r, s)]
    BY <1>9 DEF TooMany
  <2>2. QED
    BY <1>6, <2>1
<1>10. CASE Unauthorized(r, ok)
  BY <1>6, <1>10 DEF Unauthorized
<1>11. CASE TestOk(r, ok)
  BY <1>4, <1>11 DEF TestOk, Tested
<1> QED
  BY <1>7, <1>8, <1>9, <1>10, <1>11

LEMMA QuietSteps ==
    ASSUME ForwarderInv, NEW r \in Requests, keys' \in [KeyIds -> KeyRow],
           \/ Start(r) \/ SelectExhausted(r) \/ RateDenied(r) \/ NoLease(r) \/ Acquire(r)
           \/ \E a \in Answers, h \in RetryAfters \cup {None} : Answered(r, a, h)
           \/ OtherAnswer(r) \/ ReadClient(r)
    PROVE  QuietStep(r)
<1>1. UNCHANGED <<keys, today, history>> /\ req[r].pc # "commit"
  BY DEF Start, SelectExhausted, RateDenied, NoLease, TurnedAway, Acquire, Answered, OtherAnswer, ReadClient
<1>2. req[r] \in ReqStates
  BY Facts
<1>3. ASSUME NEW x, req' = [req EXCEPT ![r] = x], x.pc # "commit",
             x.key \in KeyIds => x.row = keys'[x.key] \/ (x.key = req[r].key /\ x.row = req[r].row)
      PROVE  QuietStep(r)
  BY <1>1, <1>3, QuietForm
<1>4. ASSUME NEW result, req' = [req EXCEPT ![r] = Ended(r, result)] PROVE QuietStep(r)
  BY <1>3, <1>4, EndedQuiet
<1>5. CASE Start(r)
  <2> DEFINE k == Job[r].key
             usePool == Job[r].mode = "pool" \/ (Job[r].mode = "pinned" /\ Disabled(keys[k]))
             loaded == IF k = 0 THEN Blank ELSE [Blank EXCEPT !.key = k, !.row = keys[k]]
             mode == IF usePool THEN "pool" ELSE Job[r].mode
             pc == IF usePool THEN "select" ELSE IF Job[r].mode = "pinned" THEN "gate" ELSE "leased"
             x == [loaded EXCEPT !.mode = mode, !.cview = client, !.pc = pc]
  <2>1. req' = [req EXCEPT ![r] = x]
    BY <1>5 DEF Start
  <2>2. pc # "commit"
    OBVIOUS
  <2> HIDE DEF pc, mode
  <2>3. x.pc = pc /\ x.key = k /\ (k # 0 => x.row = keys[k])
    BY DEF Blank
  <2>4. 0 \notin KeyIds
    BY DEF KeyIds
  <2> HIDE DEF x
  <2>5. QED
    BY <1>1, <1>3, <2>1, <2>2, <2>3, <2>4
<1>6. CASE SelectExhausted(r)
  BY <1>4, <1>6 DEF SelectExhausted
<1>7. CASE RateDenied(r) \/ NoLease(r)
  <2> DEFINE x == IF req[r].mode = "pool" THEN [req[r] EXCEPT !.pc = "select"] ELSE Ended(r, "ALL_KEYS_BUSY")
  <2>1. req' = [req EXCEPT ![r] = x]
    BY <1>2, <1>7 DEF RateDenied, NoLease, TurnedAway
  <2>2. CASE req[r].mode = "pool"
    <3>1. x.pc = "select" /\ x.key = req[r].key /\ x.row = req[r].row
      BY <1>2, <2>2 DEF ReqStates
    <3> HIDE DEF x
    <3>2. QED
      BY <1>3, <2>1, <3>1
  <2>3. CASE req[r].mode # "pool"
    BY <1>4, <2>1, <2>3
  <2>4. QED
    BY <2>2, <2>3
<1>8. CASE Acquire(r)
  <2> DEFINE x == [req[r] EXCEPT !.pc = "leased", !.lease = Limited]
  <2>1. req' = [req EXCEPT ![r] = x] /\ x.pc = "leased" /\ x.key = req[r].key /\ x.row = req[r].row
    BY <1>2, <1>8, Facts DEF Acquire, ReqStates
  <2> HIDE DEF x
  <2>2. QED
    BY <1>3, <2>1
<1>9. ASSUME NEW a, NEW h, Answered(r, a, h) PROVE QuietStep(r)
  <2> DEFINE x == [req[r] EXCEPT !.pc = "handle", !.answer = a, !.retryAfter = h,
                                 !.attempts = IF req[r].mode = "test" THEN @ ELSE @ + 1,
                                 !.lease = @ /\ a \in {"timeout", "http_error"}]
  <2>1. req' = [req EXCEPT ![r] = x]
    BY <1>2, <1>9, Facts DEF Answered, ReqStates
  <2>2. x.pc = "handle" /\ x.key = req[r].key /\ x.row = req[r].row
    BY <1>2 DEF ReqStates
  <2> HIDE DEF x
  <2>3. QED
    BY <1>3, <2>1, <2>2
<1>10. CASE OtherAnswer(r)
  BY <1>4, <1>10 DEF OtherAnswer, Tested
<1>11. CASE ReadClient(r)
  <2> DEFINE x == [req[r] EXCEPT !.pc = "consume", !.cview = IF @ = None THEN client ELSE @]
  <2>1. req' = [req EXCEPT ![r] = x] /\ x.pc = "consume" /\ x.key = req[r].key /\ x.row = req[r].row
    BY <1>2, <1>11, Facts DEF ReadClient, ReqStates
  <2> HIDE DEF x
  <2>2. QED
    BY <1>3, <2>1
<1> QED
  BY <1>5, <1>6, <1>7, <1>8, <1>9, <1>10, <1>11
\* The scan resets what it dates.
LEMMA ExaminedDay ==
    ASSUME NEW k, NEW row \in KeyRow, NEW ttl, NEW t, NEW day \in Nat
    PROVE  LET new == Examined(k, row, ttl, t, day)
           IN  /\ new.day \in {row.day, day}
               /\ new.day = row.day => new.usage = row.usage
               /\ new.day # row.day => new.usage = 0
<1> DEFINE fresh == LazyReset(row, day)
           like(new) == new \in KeyRow /\ new.usage = fresh.usage /\ new.day = fresh.day
           over == [Recovered(fresh) EXCEPT !.status = "quota_exceeded"]
<1>1. /\ fresh \in KeyRow /\ fresh.day = day
      /\ fresh.usage = IF row.day = day THEN row.usage ELSE 0
  BY DEF LazyReset, KeyRow, Statuses
<1> HIDE DEF fresh
<1>2. like(Recovered(fresh))
  BY <1>1 DEF Recovered, KeyRow, Statuses
<1>3. like(over)
  BY <1>2 DEF KeyRow, Statuses
<1>4. Verdict(k, row, ttl, t, day) \in {"disabled", "waiting", "quota", "usable"}
  BY DEF Verdict
<1>5. Examined(k, row, ttl, t, day) \in {row, fresh, Recovered(fresh), over}
  BY <1>4 DEF Examined, fresh
<1> HIDE DEF over
<1>6. Examined(k, row, ttl, t, day) = row \/ like(Examined(k, row, ttl, t, day))
  BY <1>1, <1>2, <1>3, <1>5
<1> QED
  BY <1>1, <1>6

LEMMA SelectedDays ==
    ASSUME NEW view, NEW i, NEW ttl, NEW t, NEW day \in Nat, NEW s, s = Select(view, i, ttl, t, day),
           NEW k \in KeyIds, view[k] \in KeyRow
    PROVE  /\ s.rows[k].day \in {view[k].day, day}
           /\ s.rows[k].day = view[k].day => s.rows[k].usage = view[k].usage
           /\ s.rows[k].day # view[k].day => s.rows[k].usage = 0
<1> DEFINE verdict == [j \in KeyIds |-> Verdict(j, view[j], ttl[j], t, day)]
           usable == {j \in KeyIds : verdict[j] = "usable"}
           pick == Chosen(usable, i)
           scanned == [j \in KeyIds |-> IF Offset(j, i) <= Offset(pick, i)
                                          THEN Examined(j, view[j], ttl[j], t, day) ELSE view[j]]
<1>1. s = IF usable = {} THEN [key |-> 0, rows |-> view, error |-> Refusal(verdict)]
          ELSE [key |-> pick, error |-> "none", rows |-> scanned]
  BY DEF Select
<1> HIDE DEF usable, pick, verdict
<1>2. s.rows = view \/ s.rows = scanned
  BY <1>1
<1>3. s.rows[k] = view[k] \/ s.rows[k] = Examined(k, view[k], ttl[k], t, day)
  BY <1>2
<1> QED
  BY <1>3, ExaminedDay

LEMMA SelectQueryDay ==
    ASSUME ForwarderInv, DayInv, NEW r \in Requests, SelectQuery(r)
    PROVE  DayInv'
<1> DEFINE ttl == [k \in KeyIds |-> StoreTtl(k)]
           s == Select(View(r), rr, ttl, now, today)
           over == [Ended(r, Refused(r, s.error)) EXCEPT !.tries = req[r].tries + 1]
           y == [req[r] EXCEPT !.pc = "commit", !.tries = req[r].tries + 1, !.key = s.key,
                               !.row = BlankRow, !.old = View(r), !.new = s.rows]
           x == IF s.key = 0 THEN over ELSE y
<1>1. /\ req[r].pc = "select" /\ req' = [req EXCEPT ![r] = x]
      /\ UNCHANGED <<keys, today, servedToday, blurred>>
  BY Facts DEF SelectQuery, history, ReqStates
<1>2. /\ keys \in [KeyIds -> KeyRow] /\ today \in Nat /\ req[r] \in ReqStates /\ req[r].row \in KeyRow
      /\ DayCopies(req[r], keys, servedToday, blurred, today)
      /\ \A k \in KeyIds : DayRow(k, keys[k], servedToday, blurred, today)
      /\ servedToday \in [KeyIds -> Nat] /\ blurred \subseteq KeyIds
  BY Facts DEF Typed, DayInv
<1>3. DayMove
  BY <1>1, <1>2 DEF DayMove, Behind, KeyRow
<1>4. over.pc = "done"
  BY EndedQuiet DEF Ended, Blank
<1>5. y.pc = "commit" /\ y.old = View(r) /\ y.new = s.rows
  BY <1>2 DEF ReqStates
<1>6. s = Select(View(r), rr, ttl, now, today)
  OBVIOUS
<1>7. over.key \notin KeyIds
  BY DEF Ended, Blank, KeyIds
<1> HIDE DEF s, over, y, ttl
<1>8. ASSUME NEW k \in KeyIds
      PROVE  Pending(k, View(r)[k], s.rows[k], keys', servedToday', blurred', today')
  <2> DEFINE old == View(r)[k]
             new == s.rows[k]
  <2>1. old \in KeyRow /\ old.usage \in Nat /\ old.day <= today /\ Behind(k, old.usage, keys, servedToday, blurred)
    BY <1>1, <1>2 DEF View, DayCopies, DayRow, Behind, KeyRow
  <2>2. /\ new.day \in {old.day, today}
        /\ new.day = old.day => new.usage = old.usage
        /\ new.day # old.day => new.usage = 0
    BY <1>2, <1>6, <2>1, SelectedDays
  <2> HIDE DEF old, new
  <2>3. new.day <= today
    BY <1>2, <2>1, <2>2
  <2>4. Pending(k, old, new, keys', servedToday', blurred', today')
    BY <1>1, <2>1, <2>2, <2>3 DEF Pending
  <2>5. QED
    BY <2>4 DEF old, new
<1>9. DayCopies(x, keys', servedToday', blurred', today')
  <2>1. CASE s.key = 0
    BY <1>4, <1>7, <2>1 DEF DayCopies
  <2>2. CASE s.key # 0
    <3>1. DayCopies(y, keys', servedToday', blurred', today')
      BY <1>5, <1>8 DEF DayCopies
    <3>2. QED
      BY <2>2, <3>1
  <2>3. QED
    BY <2>1, <2>2
<1> HIDE DEF x
<1> QED
  BY <1>1, <1>3, <1>9, DayKept

\* The commit of a selection: a row it dates today was reset by it or had
\* been charged for calls of today only.
LEMMA SelectCommitDay ==
    ASSUME ForwarderInv, DayInv, keys' \in [KeyIds -> KeyRow], NEW r \in Requests, NEW ok, SelectCommit(r, ok)
    PROVE  DayInv'
<1>1. /\ req[r].pc = "commit" /\ UNCHANGED <<today, servedToday, blurred>>
      /\ keys' = IF ok THEN [j \in KeyIds |-> Merge(keys[j], req[r].old[j], req[r].new[j])] ELSE keys
  BY DEF SelectCommit, history
<1>2. /\ keys \in [KeyIds -> KeyRow] /\ today \in Nat /\ req[r] \in ReqStates
      /\ DayCopies(req[r], keys, servedToday, blurred, today)
      /\ \A k \in KeyIds : DayRow(k, keys[k], servedToday, blurred, today)
      /\ servedToday \in [KeyIds -> Nat] /\ blurred \subseteq KeyIds
  BY Facts DEF Typed, DayInv
<1>3. ASSUME NEW k \in KeyIds
      PROVE  /\ DayRow(k, keys'[k], servedToday', blurred', today)
             /\ Behind(k, keys[k].usage, keys', servedToday', blurred')
  <2> DEFINE old == req[r].old[k]
             new == req[r].new[k]
  <2>0. keys[k].usage \in Nat /\ keys[k].day \in Nat /\ servedToday[k] \in Nat /\ DayRow(k, keys[k], servedToday, blurred, today)
    BY <1>2 DEF KeyRow
  <2>1. CASE ~ok
    BY <1>1, <2>0, <2>1 DEF Behind
  <2>2. CASE ok
    <3>1. Pending(k, old, new, keys, servedToday, blurred, today)
      BY <1>1, <1>2 DEF DayCopies
    <3>2. old \in KeyRow /\ new \in KeyRow
      BY <1>2 DEF ReqStates
    <3>3. /\ keys'[k].day = IF new.day # old.day THEN new.day ELSE keys[k].day
          /\ keys'[k].usage = IF new.usage # old.usage THEN new.usage ELSE keys[k].usage
      BY <1>1, <1>2, <2>2 DEF Merge, KeyRow
    <3>4. old.usage \in Nat /\ new.usage \in Nat /\ old.day \in Nat /\ new.day \in Nat
      BY <3>2 DEF KeyRow
    <3> HIDE DEF old, new
    <3>5. CASE new.day = old.day
      BY <1>1, <2>0, <3>1, <3>3, <3>5 DEF Pending, DayRow, Behind
    <3>6. CASE new.day # old.day
      <4>1. new.usage = 0 /\ new.day <= today /\ (new.day = today => Behind(k, old.usage, keys, servedToday, blurred))
        BY <3>1, <3>6 DEF Pending
      <4>2. keys'[k].day = new.day /\ keys'[k].usage \in {0, keys[k].usage}
              /\ (keys'[k].usage # 0 => old.usage = 0)
        BY <3>3, <3>6, <4>1
      <4>3. Behind(k, keys[k].usage, keys', servedToday', blurred')
        BY <1>1, <2>0, <4>2 DEF Behind
      <4>4. DayRow(k, keys'[k], servedToday', blurred', today)
        BY <1>1, <2>0, <3>3, <3>4, <4>1, <4>2 DEF DayRow, Behind
      <4>5. QED
        BY <4>3, <4>4
    <3>7. QED
      BY <3>5, <3>6
  <2>3. QED
    BY <2>1, <2>2
<1>4. DayMove
  BY <1>1, <1>2, <1>3 DEF DayMove
<1> DEFINE y == [req[r] EXCEPT !.pc = "gate", !.row = keys'[req[r].key], !.cview = None,
                               !.old = BlankRows, !.new = BlankRows]
           x == IF ok THEN y ELSE Ended(r, "DB_UNAVAILABLE")
<1>5. req' = [req EXCEPT ![r] = x]
  BY Facts DEF SelectCommit, ReqStates
<1>6. DayCopies(x, keys', servedToday', blurred', today')
  <2>1. CASE ~ok
    BY <2>1, EndedQuiet DEF DayCopies
  <2>2. CASE ok
    <3> DEFINE k == req[r].key
    <3>1. y.pc = "gate" /\ y.key = k /\ y.row = keys'[k]
      BY <1>2 DEF ReqStates
    <3>2. ASSUME k \in KeyIds
          PROVE  DayRow(k, keys'[k], servedToday', blurred', today') /\ Behind(k, keys'[k].usage, keys', servedToday', blurred')
      BY <1>1, <1>3, <3>2 DEF Behind, KeyRow
    <3> HIDE DEF y
    <3>3. DayCopies(y, keys', servedToday', blurred', today')
      BY <3>1, <3>2 DEF DayCopies
    <3>4. QED
      BY <2>2, <3>3
  <2>3. QED
    BY <2>1, <2>2
<1> HIDE DEF x
<1> QED
  BY <1>4, <1>5, <1>6, DayKept
\* One more call is charged to the day of the copy that is written.
LEMMA ChargeDay ==
    ASSUME ForwarderInv, DayInv, keys' \in [KeyIds -> KeyRow], NEW r \in Requests, req[r].pc # "commit",
           req[r].key \in KeyIds, NEW ok, NEW new, CommitRow(r, new, ok), today' = today,
           new.day = req[r].row.day, new.usage \in {req[r].row.usage, req[r].row.usage + 1},
           IF ok THEN /\ Serve(req[r].key)
                      /\ blurred' \in {blurred, blurred \cup {req[r].key}}
                      /\ \/ new.usage = req[r].row.usage
                         \/ req[r].row.day = today
                         \/ req[r].key \in blurred'
           ELSE UNCHANGED history,
           NEW result, req' = [req EXCEPT ![r] = Ended(r, result)]
    PROVE  DayInv'
<1> DEFINE k == req[r].key
           row == req[r].row
<1>1. /\ keys \in [KeyIds -> KeyRow] /\ today \in Nat /\ row \in KeyRow
      /\ DayCopies(req[r], keys, servedToday, blurred, today)
      /\ \A j \in KeyIds : DayRow(j, keys[j], servedToday, blurred, today)
      /\ servedToday \in [KeyIds -> Nat] /\ blurred \subseteq KeyIds
  BY Facts DEF Typed, DayInv
<1>2. /\ servedToday' \in [KeyIds -> Nat] /\ blurred \subseteq blurred' /\ blurred' \subseteq KeyIds
      /\ \A j \in KeyIds : servedToday[j] <= servedToday'[j]
      /\ ok => servedToday'[k] = servedToday[k] + 1
  BY <1>1 DEF Serve, history
<1>3. ASSUME NEW j \in KeyIds
      PROVE  /\ DayRow(j, keys'[j], servedToday', blurred', today)
             /\ Behind(j, keys[j].usage, keys', servedToday', blurred')
  <2>1. /\ keys[j].usage \in Nat /\ keys[j].day \in Nat /\ servedToday[j] \in Nat /\ servedToday'[j] \in Nat
        /\ servedToday[j] <= servedToday'[j] /\ DayRow(j, keys[j], servedToday, blurred, today)
    BY <1>1, <1>2 DEF KeyRow
  <2>2. CASE keys'[j].usage = keys[j].usage /\ keys'[j].day = keys[j].day
    BY <1>2, <2>1, <2>2 DEF DayRow, Behind
  <2>3. CASE ok /\ j = k
    <3> DEFINE merged == Merge(keys[k], row, new)
    <3>1. keys'[k] = merged
      BY <1>1, <2>3 DEF CommitRow
    <3>2. /\ merged.day = keys[k].day
          /\ merged.usage = IF new.usage # row.usage THEN new.usage ELSE keys[k].usage
      BY <1>1, <2>3 DEF Merge, KeyRow
    <3> HIDE DEF merged
    <3>3. row.usage \in Nat
      BY <1>1 DEF KeyRow
    <3>4. CASE new.usage = row.usage
      BY <2>2, <2>3, <3>1, <3>2, <3>4
    <3>5. CASE new.usage = row.usage + 1
      <4>1. k \in blurred' \/ (row.day = today /\ k \notin blurred)
        BY <1>2, <2>3, <3>3, <3>5
      <4>2. CASE k \in blurred'
        BY <2>1, <2>3, <3>1, <3>2, <4>2 DEF DayRow, Behind
      <4>3. CASE row.day = today /\ k \notin blurred
        <5>1. row.usage <= servedToday[k]
          BY <1>1, <4>3 DEF DayCopies, DayRow
        <5>2. keys'[k].usage = row.usage + 1 /\ keys'[k].day = keys[k].day
          BY <3>1, <3>2, <3>3, <3>5
        <5>3. keys'[k].usage <= servedToday'[k]
          BY <1>2, <2>1, <2>3, <3>3, <5>1, <5>2
        <5>4. QED
          BY <2>1, <2>3, <5>2, <5>3 DEF DayRow, Behind
      <4>4. QED
        BY <4>1, <4>2, <4>3
    <3>6. QED
      BY <3>4, <3>5
  <2>4. CASE ~(ok /\ j = k)
    <3>1. keys'[j] = keys[j]
      BY <1>1, <2>4 DEF CommitRow
    <3>2. QED
      BY <2>2, <3>1
  <2>5. QED
    BY <2>3, <2>4
<1>4. DayMove
  BY <1>2, <1>3 DEF DayMove
<1>5. DayCopies(Ended(r, result), keys', servedToday', blurred', today')
  BY EndedQuiet DEF DayCopies
<1> QED
  BY <1>4, <1>5, DayKept

LEMMA ConsumeDay ==
    ASSUME ForwarderInv, DayInv, keys' \in [KeyIds -> KeyRow], NEW r \in Requests, NEW ok \in BOOLEAN, Consume(r, ok)
    PROVE  DayInv'
<1> DEFINE k == req[r].key
           used == CountUse(r, req[r].row)
           new == IF OverQuota(k, used) THEN [used EXCEPT !.status = "quota_exceeded"] ELSE used
           result == IF ok THEN "answered" ELSE "DB_UNAVAILABLE"
<1>1. /\ req[r].pc = "consume" /\ CommitRow(r, new, ok) /\ UNCHANGED today
      /\ IF ok THEN /\ Serve(k)
                    /\ blurred' = blurred \cup (IF req[r].row.day = today THEN {} ELSE {k})
         ELSE UNCHANGED history
      /\ req' = [req EXCEPT ![r] = Ended(r, result)]
  BY DEF Consume
<1>2. req[r].key \in KeyIds /\ req[r].row \in KeyRow
  BY <1>1, Facts DEF HasKey
<1>3. new.usage = req[r].row.usage + 1 /\ new.day = req[r].row.day
  <2>1. Spent(req[r].row) \in KeyRow /\ Spent(req[r].row).usage = req[r].row.usage
          /\ Spent(req[r].row).day = req[r].row.day
    <3> DEFINE row == req[r].row
               left == Greater(row.credits - CreditCost, 0)
    <3>1. row.credits # None => left \in Nat
      BY <1>2, Constants DEF Greater, KeyRow, None
    <3>2. Spent(row) = IF row.credits = None THEN row ELSE [row EXCEPT !.credits = left]
      BY DEF Spent
    <3> HIDE DEF left
    <3>3. QED
      BY <1>2, <3>1, <3>2 DEF KeyRow
  <2>2. used.usage = req[r].row.usage + 1 /\ used.day = req[r].row.day
        /\ [used EXCEPT !.status = "quota_exceeded"].usage = used.usage
        /\ [used EXCEPT !.status = "quota_exceeded"].day = used.day
    BY <2>1 DEF CountUse, KeyRow
  <2>3. QED
    BY <2>2
<1> HIDE DEF new, result
<1>4. ok => /\ blurred' \in {blurred, blurred \cup {k}}
            /\ req[r].row.day = today \/ k \in blurred'
  BY <1>1
<1>5. req[r].pc # "commit" /\ new.usage \in {req[r].row.usage, req[r].row.usage + 1}
  BY <1>1, <1>3
<1> QED
  BY <1>1, <1>2, <1>3, <1>4, <1>5, ChargeDay

LEMMA SaveCreditsDay ==
    ASSUME ForwarderInv, DayInv, keys' \in [KeyIds -> KeyRow], NEW r \in Requests, NEW ok \in BOOLEAN, SaveCredits(r, ok)
    PROVE  DayInv'
<1> DEFINE new == Spent(req[r].row)
<1>1. /\ req[r].pc = "handle" /\ CommitRow(r, new, ok) /\ UNCHANGED today
      /\ IF ok THEN Serve(req[r].key) /\ UNCHANGED blurred ELSE UNCHANGED history
      /\ req' = [req EXCEPT ![r] = Ended(r, "answered")]
  BY DEF SaveCredits
<1>2. req[r].key \in KeyIds /\ req[r].row \in KeyRow
  BY <1>1, Facts DEF HasKey
<1>3. new.usage = req[r].row.usage /\ new.day = req[r].row.day
  BY <1>2 DEF Spent, KeyRow
<1> HIDE DEF new
<1> QED
  BY <1>1, <1>2, <1>3, ChargeDay

LEMMA DayStep ==
    ASSUME ForwarderInv, ForwarderInv', DayInv, [Next]_vars
    PROVE  DayInv'
<1>1. keys' \in [KeyIds -> KeyRow] /\ keys \in [KeyIds -> KeyRow]
  BY DEF ForwarderInv, Typed
<1>2. ASSUME UNCHANGED <<req, today, servedToday, blurred>>,
             \A k \in KeyIds : keys'[k].usage = keys[k].usage /\ keys'[k].day = keys[k].day
      PROVE  DayInv'
  <2>1. \A k \in KeyIds : DayRow(k, keys'[k], servedToday', blurred', today')
    BY <1>2 DEF DayInv, DayRow
  <2>2. ASSUME NEW r \in Requests PROVE DayCopies(req'[r], keys', servedToday', blurred', today')
    <3>1. DayCopies(req[r], keys, servedToday, blurred, today)
      BY DEF DayInv
    <3>2. QED
      BY <1>2, <3>1 DEF DayCopies, DayRow, Pending, Behind
  <2>3. QED
    BY <1>2, <2>1, <2>2 DEF DayInv
<1>3. ASSUME NEW r \in Requests, Step(r) PROVE DayInv'
  <2>1. CommitOutcomes \subseteq BOOLEAN
    BY DEF CommitOutcomes
  <2>2. CASE \/ Start(r) \/ SelectExhausted(r) \/ RateDenied(r) \/ NoLease(r) \/ Acquire(r)
             \/ \E a \in Answers, h \in RetryAfters \cup {None} : Answered(r, a, h)
             \/ OtherAnswer(r) \/ ReadClient(r)
    BY <1>1, <2>2, QuietSteps, QuietKept
  <2>3. CASE \E ok \in CommitOutcomes : \/ DecryptFail(r, ok) \/ Failed(r, ok) \/ TooMany(r, ok)
                                        \/ Unauthorized(r, ok) \/ TestOk(r, ok)
    BY <1>1, <2>3, QuietHandling, QuietKept
  <2>4. CASE SelectQuery(r) \/ \E ok \in CommitOutcomes : SelectCommit(r, ok) \/ Consume(r, ok) \/ SaveCredits(r, ok)
    BY <1>1, <2>1, <2>4, SelectQueryDay, SelectCommitDay, ConsumeDay, SaveCreditsDay
  <2>5. QED
    BY <1>3, <2>2, <2>3, <2>4, Zenon DEF Step
<1>4. ASSUME NEW k \in KeyIds, AdminDisable(k) \/ AdminEnable(k) PROVE DayInv'
  <2>1. \A j \in KeyIds : keys'[j].usage = keys[j].usage /\ keys'[j].day = keys[j].day
    BY <1>1, <1>4 DEF AdminDisable, AdminEnable, KeyRow
  <2>2. QED
    BY <1>2, <1>4, <2>1 DEF AdminDisable, AdminEnable, history
<1>5. CASE Tick
  BY <1>2, <1>5 DEF Tick, history
<1>6. CASE NewDay
  <2>1. /\ today' = today + 1 /\ UNCHANGED <<keys, req>> /\ today \in Nat
        /\ servedToday' = [k \in KeyIds |-> 0]
        /\ blurred' = {k \in KeyIds : \E r \in Requests : req[r].key = k}
    BY <1>6 DEF NewDay, ForwarderInv, Typed
  <2>2. ASSUME NEW k \in KeyIds PROVE DayRow(k, keys'[k], servedToday', blurred', today')
    <3>1. keys[k].day \in Nat /\ keys[k].day <= today
      BY <1>1 DEF DayInv, DayRow, KeyRow
    <3>2. QED
      BY <2>1, <3>1 DEF DayRow
  <2>3. ASSUME NEW r \in Requests PROVE DayCopies(req'[r], keys', servedToday', blurred', today')
    <3>1. req[r] \in ReqStates /\ DayCopies(req[r], keys, servedToday, blurred, today) /\ req'[r] = req[r]
      BY <2>1, Facts DEF DayInv
    <3>2. req[r].key \in KeyIds => req[r].key \in blurred' /\ req[r].row.day \in Nat
      BY <2>1, <3>1 DEF ReqStates, KeyRow
    <3>3. \A k \in KeyIds : req[r].new[k].day \in Nat
      BY <3>1 DEF ReqStates, KeyRow
    <3>4. req[r].pc = "commit" =>
             \A k \in KeyIds : Pending(k, req[r].old[k], req[r].new[k], keys', servedToday', blurred', today')
      BY <2>1, <3>1, <3>3 DEF DayCopies, Pending
    <3>5. req[r].pc # "commit" /\ req[r].key \in KeyIds =>
             /\ DayRow(req[r].key, req[r].row, servedToday', blurred', today')
             /\ Behind(req[r].key, req[r].row.usage, keys', servedToday', blurred')
      BY <2>1, <3>1, <3>2 DEF DayCopies, DayRow, Behind
    <3>6. QED
      BY <3>1, <3>4, <3>5 DEF DayCopies
  <2>4. servedToday' \in [KeyIds -> Nat] /\ blurred' \subseteq KeyIds
    BY <2>1
  <2>5. QED
    BY <2>2, <2>3, <2>4 DEF DayInv
<1>7. CASE UNCHANGED vars
  BY <1>2, <1>7 DEF vars
<1> QED
  BY <1>3, <1>4, <1>5, <1>6, <1>7 DEF Next, Quiet
-----------------------------------------------------------------------------
\* Theorems.

LEMMA RequestStep ==
    ASSUME ForwarderInv, NEW r \in Requests, Step(r)
    PROVE  ForwarderInv'
<1>1. PICK x : Moves(r, x)
  BY StepMoves
<1>2. /\ req \in [Requests -> ReqStates] /\ req' = [req EXCEPT ![r] = x] /\ Control(r, x) /\ x \in ReqStates
      /\ FairCopies(x, served') /\ OthersTyped' /\ RowsMove /\ inUse' \in [KeyIds -> Nat] /\ SlotsCounted'
  BY <1>1, SlotsMove DEF Moves, ForwarderInv, Typed, Control
<1>3. req' \in [Requests -> ReqStates] /\ req'[r] = x /\ \A q \in Requests : q # r => req'[q] = req[q]
  BY <1>2
<1>4. Typed'
  BY <1>2, <1>3 DEF Typed, OthersTyped, RowsMove
<1>5. ASSUME NEW q \in Requests PROVE Control(q, req'[q]) /\ FairCopies(req'[q], served')
  <2>1. CASE q = r
    BY <1>2, <1>3, <2>1
  <2>2. CASE q # r
    <3>1. Control(q, req[q]) /\ req'[q] = req[q]
      BY <1>3, <2>2 DEF ForwarderInv, Controlled
    <3>2. FairCopies(req[q], served')
      BY <1>2, CopiesGrow
    <3>3. QED
      BY <3>1, <3>2
  <2>3. QED
    BY <2>1, <2>2
<1>6. Controlled'
  BY <1>5 DEF Controlled
<1>7. Charged'
  BY <1>2, <1>5 DEF Charged, RowsMove
<1> QED
  BY <1>2, <1>4, <1>6, <1>7 DEF ForwarderInv

\* Administrators and clocks leave the requests, the slots and the charges
\* alone.
LEMMA EnvironmentStep ==
    ASSUME ForwarderInv, UNCHANGED <<req, inUse, served>>, keys' \in [KeyIds -> KeyRow], OthersTyped',
           \A k \in KeyIds : keys'[k].usage = keys[k].usage /\ keys'[k].credits = keys[k].credits
    PROVE  ForwarderInv'
<1>1. Typed'
  BY DEF ForwarderInv, Typed, OthersTyped
<1>2. Controlled'
  BY DEF ForwarderInv, Controlled
<1>3. Charged'
  BY DEF ForwarderInv, Charged, Fair
<1>4. SlotsCounted'
  BY DEF ForwarderInv, SlotsCounted, HoldersOf
<1> QED
  BY <1>1, <1>2, <1>3, <1>4 DEF ForwarderInv

LEMMA InvariantStep ==
    ASSUME ForwarderInv, [Next]_vars
    PROVE  ForwarderInv'
<1>1. /\ keys \in [KeyIds -> KeyRow] /\ OthersTyped
  BY DEF ForwarderInv, Typed, OthersTyped
<1>2. CASE UNCHANGED vars
  BY <1>1, <1>2, EnvironmentStep DEF vars, OthersTyped
<1>3. ASSUME NEW r \in Requests, Step(r) PROVE ForwarderInv'
  BY <1>3, RequestStep
<1>4. ASSUME NEW k \in KeyIds, AdminDisable(k) \/ AdminEnable(k) PROVE ForwarderInv'
  <2>1. PICK row \in KeyRow : /\ row.usage = keys[k].usage /\ row.credits = keys[k].credits
                              /\ keys' = [keys EXCEPT ![k] = row]
    <3>1. CASE AdminDisable(k)
      <4> DEFINE row == [keys[k] EXCEPT !.active = FALSE, !.status = "disabled"]
      <4>1. row \in KeyRow /\ row.usage = keys[k].usage /\ row.credits = keys[k].credits
        BY <1>1 DEF KeyRow, Statuses
      <4>2. keys' = [keys EXCEPT ![k] = row]
        BY <1>1, <3>1 DEF AdminDisable, KeyRow
      <4>3. QED
        BY <4>1, <4>2
    <3>2. CASE AdminEnable(k)
      <4> DEFINE st == IF keys[k].status = "disabled" THEN "active" ELSE keys[k].status
                 row == [keys[k] EXCEPT !.active = TRUE, !.status = st]
      <4>1. row \in KeyRow /\ row.usage = keys[k].usage /\ row.credits = keys[k].credits
        BY <1>1 DEF KeyRow, Statuses
      <4>2. keys' = [keys EXCEPT ![k] = row]
        BY <1>1, <3>2 DEF AdminEnable, KeyRow
      <4>3. QED
        BY <4>1, <4>2
    <3>3. QED
      BY <1>4, <3>1, <3>2
  <2>2. UNCHANGED <<client, rr, failures, store, inUse, req, now, today, served>>
    BY <1>4 DEF AdminDisable, AdminEnable, history
  <2>3. /\ keys' \in [KeyIds -> KeyRow]
        /\ \A j \in KeyIds : keys'[j].usage = keys[j].usage /\ keys'[j].credits = keys[j].credits
    BY <1>1, <2>1
  <2>4. QED
    BY <1>1, <2>2, <2>3, EnvironmentStep DEF OthersTyped
<1>5. CASE Tick \/ NewDay
  <2>1. UNCHANGED <<keys, client, rr, failures, store, inUse, req, served>>
    BY <1>5 DEF Tick, NewDay, history
  <2>2. now' \in Nat /\ today' \in Nat
    BY <1>1, <1>5 DEF Tick, NewDay, OthersTyped
  <2>3. QED
    BY <1>1, <2>1, <2>2, EnvironmentStep DEF OthersTyped
<1> QED
  BY <1>2, <1>3, <1>4, <1>5 DEF Next, Quiet

\* The inductive invariant of forwarding.
THEOREM ForwarderInvariant == Spec => []ForwarderInv
<1>1. Init => ForwarderInv
  <2> SUFFICES ASSUME Init PROVE ForwarderInv
    OBVIOUS
  <2>1. Typed
    BY BlankTyped, Constants DEF Init, Typed
  <2>2. 0 \notin KeyIds /\ \A k \in KeyIds : served[k] \in Nat
    BY DEF Init, KeyIds
  <2>3. ASSUME NEW r \in Requests PROVE Control(r, req[r]) /\ FairCopies(req[r], served)
    <3>1. req[r] = Blank
      BY DEF Init
    <3>2. Control(r, Blank)
      BY BlankTyped DEF Control, HasKey, HasAttempt, HasLease, KeepsOff, GaveUp
    <3>3. FairCopies(Blank, served)
      BY <2>2, BlankTyped, BlankFair DEF FairCopies
    <3>4. QED
      BY <3>1, <3>2, <3>3
  <2>4. Charged
    BY <2>2, <2>3, BlankFair DEF Charged, Init
  <2>5. SlotsCounted
    <3>1. ASSUME NEW k \in KeyIds PROVE HoldersOf(k) = {} /\ inUse[k] = 0
      BY BlankTyped DEF HoldersOf, Init
    <3>2. IsFiniteSet({}) /\ Cardinality({}) = 0
      BY FS_EmptySet
    <3>3. QED
      BY <3>1, <3>2, Constants DEF SlotsCounted, Limited
  <2>6. QED
    BY <2>1, <2>3, <2>4, <2>5 DEF ForwarderInv, Controlled
<1>2. ForwarderInv /\ [Next]_vars => ForwarderInv'
  BY InvariantStep
<1> QED
  BY <1>1, <1>2, PTL DEF Spec

\* The counts of the day.
THEOREM ForwarderDays == Spec => []DayInv
<1>1. Init => DayInv
  <2> SUFFICES ASSUME Init PROVE DayInv
    OBVIOUS
  <2>1. ASSUME NEW k \in KeyIds PROVE DayRow(k, keys[k], servedToday, blurred, today)
    <3>1. keys[k] = InitRow /\ today = 0 /\ servedToday[k] = 0
      BY DEF Init
    <3>2. InitRow.usage = 0 /\ InitRow.day = 0
      BY DEF InitRow, BlankRow
    <3>3. QED
      BY <3>1, <3>2 DEF DayRow
  <2>2. ASSUME NEW r \in Requests PROVE DayCopies(req[r], keys, servedToday, blurred, today)
    BY DEF Init, Blank, DayCopies, KeyIds
  <2>3. servedToday \in [KeyIds -> Nat] /\ blurred \subseteq KeyIds
    BY DEF Init
  <2>4. QED
    BY <2>1, <2>2, <2>3 DEF DayInv
<1>2. ForwarderInv /\ ForwarderInv' /\ DayInv /\ [Next]_vars => DayInv'
  BY DayStep
<1> QED
  BY <1>1, <1>2, ForwarderInvariant, PTL DEF Spec

\* Type correctness: attempts and tries stay within their bounds, and no
\* handler stores a value its column does not have.
THEOREM ForwarderTypeOK == Spec => []TypeOK
<1>1. ForwarderInv /\ DayInv => TypeOK
  BY Constants DEF ForwarderInv, Typed, DayInv, TypeOK, ReqStates
<1> QED
  BY <1>1, ForwarderInvariant, ForwarderDays, PTL

\* Every exit of forward() gives its slot back, once (forwarder.py 306-404, 530-608).
THEOREM ForwarderSlotsHeld == Spec => []SlotsHeld
<1>1. ForwarderInv => SlotsHeld
  BY DEF ForwarderInv, SlotsCounted, SlotsHeld
<1> QED
  BY <1>1, ForwarderInvariant, PTL

\* No key has more calls under way than max_concurrent.
THEOREM ForwarderCallsWithinLimit == Spec => []CallsWithinLimit
<1>1. ForwarderInv => CallsWithinLimit
  <2> SUFFICES ASSUME ForwarderInv, Limited, NEW k \in KeyIds PROVE Cardinality(Calling(k)) <= MaxConcurrent
    BY DEF CallsWithinLimit
  <2>1. \A r \in Requests : HasLease(req[r])
    BY DEF ForwarderInv, Controlled, Control
  <2>2. Calling(k) \subseteq HoldersOf(k)
    BY <2>1 DEF Calling, HoldersOf, HasLease
  <2>3. IsFiniteSet(HoldersOf(k)) /\ inUse[k] = Cardinality(HoldersOf(k)) /\ inUse[k] <= MaxConcurrent
    BY DEF ForwarderInv, SlotsCounted
  <2>4. /\ Cardinality(Calling(k)) <= Cardinality(HoldersOf(k))
        /\ Cardinality(Calling(k)) \in Nat /\ Cardinality(HoldersOf(k)) \in Nat
    BY <2>2, <2>3, FS_Subset, FS_CardinalityType
  <2>5. QED
    BY <2>3, <2>4, Constants
<1> QED
  BY <1>1, ForwarderInvariant, PTL

\* A request gives up for the reasons its answer names.
THEOREM ForwarderGivesUpWhenSpent == Spec => []GivesUpWhenSpent
<1>1. ForwarderInv => GivesUpWhenSpent
  BY DEF ForwarderInv, Controlled, Control, GaveUp, GivesUpWhenSpent
<1> QED
  BY <1>1, ForwarderInvariant, PTL

\* The usage that a key shows for today never exceeds the calls it served
\* today, although it is computed from copies that may be old, unless a
\* request had the key in hand at midnight or charged it from a copy of
\* another day.
THEOREM ForwarderNoOvercharge == Spec => []NoOvercharge
<1>1. DayInv => NoOvercharge
  BY DEF DayInv, DayRow, NoOvercharge
<1> QED
  BY <1>1, ForwarderDays, PTL

\* Nor do the credits deducted exceed the cost of the calls served.
THEOREM ForwarderCreditsNotOvercharged == Spec => []CreditsNotOvercharged
<1>1. ForwarderInv => CreditsNotOvercharged
  BY DEF ForwarderInv, Charged, Fair, CreditsNotOvercharged
<1> QED
  BY <1>1, ForwarderInvariant, PTL

\* No request puts a key back into service that was taken out of it.
THEOREM ForwarderNeverReactivated == Spec => NeverReactivated
<1>1. ForwarderInv /\ [Next]_vars
        => [req' # req => \A k \in KeyIds : ~keys[k].active => ~keys'[k].active]_vars
  <2> SUFFICES ASSUME ForwarderInv, Next, req' # req, NEW k \in KeyIds, ~keys[k].active
               PROVE  ~keys'[k].active
    BY DEF vars
  <2>1. PICK r \in Requests : Step(r)
    BY DEF Next, AdminDisable, AdminEnable, Tick, NewDay, Quiet, vars
  <2>2. PICK x : Moves(r, x)
    BY <2>1, StepMoves
  <2>3. QED
    BY <2>2 DEF Moves, RowsMove
<1> QED
  BY <1>1, ForwarderInvariant, PTL DEF Spec, NeverReactivated

\* The leases of the forwarder implement the semaphore: a step of a request
\* admits it below the limit, lets it leave, or is no step of the semaphore.
THEOREM ForwarderRefinement == Spec => ImplementsSemaphore
<1>init. Init => Sem!Init
  <2> SUFFICES ASSUME Init PROVE \A k \in KeyIds : HoldersOf(k) = {}
    BY DEF Sem!Init
  <2>1. QED
    BY BlankTyped DEF HoldersOf, Init
<1>step. ForwarderInv /\ [Next]_vars => [Sem!Next]_([k \in KeyIds |-> HoldersOf(k)])
  <2> DEFINE H == [k \in KeyIds |-> HoldersOf(k)]
  <2> SUFFICES ASSUME ForwarderInv, [Next]_vars PROVE Sem!Next \/ H' = H
    OBVIOUS
  <2>quiet. ASSUME \A k \in KeyIds : HoldersOf(k)' = HoldersOf(k) PROVE H' = H
    BY <2>quiet
  <2>env. CASE req' = req
    BY <2>env, <2>quiet DEF HoldersOf
  <2>request. ASSUME NEW r \in Requests, Step(r) PROVE Sem!Next \/ H' = H
    <3>1. PICK x : Moves(r, x)
      BY <2>request, StepMoves
    <3>2. CASE Stays(r, x)
      BY <3>1, <3>2, <2>quiet, HoldersMove
    <3>3. CASE Takes(r, x)
      <4> DEFINE k == x.key
      <4>1. ~req[r].lease /\ k \in KeyIds /\ inUse[k] < MaxConcurrent
        BY <3>3 DEF Takes
      <4>2. \A j \in KeyIds : HoldersOf(j)' = IF j = k THEN HoldersOf(j) \cup {r} ELSE HoldersOf(j)
        BY <3>1, <3>3, HoldersMove
      <4>3. ~Sem!Inside(r)
        BY <4>1 DEF Sem!Inside, HoldersOf
      <4>4. Cardinality(H[k]) < MaxConcurrent
        BY <4>1 DEF ForwarderInv, SlotsCounted
      <4>5. H' = [H EXCEPT ![k] = H[k] \cup {r}]
        BY <4>2
      <4>6. Sem!Admit(k, r, MaxConcurrent)
        BY <4>3, <4>4, <4>5 DEF Sem!Admit, Sem!Cardinality, Cardinality
      <4>7. QED
        BY <4>1, <4>6 DEF Sem!Next
    <3>4. CASE Gives(r, x)
      <4> DEFINE k == req[r].key
      <4>1. req[r].lease /\ k \in KeyIds
        BY <3>4, Facts DEF Gives, HasLease, HasKey
      <4>2. r \in HoldersOf(k) /\ \A j \in KeyIds : j # k => r \notin HoldersOf(j)
        BY <4>1 DEF HoldersOf
      <4>3. \A j \in KeyIds : HoldersOf(j)' = IF j = k THEN HoldersOf(j) \ {r} ELSE HoldersOf(j)
        BY <3>1, <3>4, <4>2, HoldersMove
      <4>4. H' = [H EXCEPT ![k] = H[k] \ {r}]
        BY <4>3
      <4>5. Sem!Leave(k, r)
        BY <4>1, <4>2, <4>4 DEF Sem!Leave
      <4>6. QED
        BY <4>1, <4>5 DEF Sem!Next
    <3>5. QED
      BY <3>1, <3>2, <3>3, <3>4 DEF Moves
  <2> QED
    BY <2>env, <2>request DEF Next, AdminDisable, AdminEnable, Tick, NewDay, Quiet, vars
<1> QED
  BY <1>init, <1>step, ForwarderInvariant, PTL DEF Spec, ImplementsSemaphore, Sem!Spec
=============================================================================
