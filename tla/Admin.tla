------------------------------- MODULE Admin -------------------------------
(***************************************************************************)
(* The administration of keys and clients (app/api/control_plane.py,       *)
(* app/core/batch_clients.py).                                             *)
(*                                                                         *)
(* A session is one request of an administrator.  It loads rows, changes   *)
(* its copies, and commits; the handlers run in threads, so other sessions *)
(* commit in between.  A commit writes the columns whose value differs     *)
(* from the loaded one and leaves the others as they are now.  Names,      *)
(* limits, tokens and the audit log are left out.                          *)
(***************************************************************************)
EXTENDS Integers, FiniteSets

CONSTANTS Sessions, Keys, Clients,
          InitKeys,    \* the keys that exist at the start
          Ops,         \* the operations administrators may ask for
          Bound,       \* the keys and clients some resource binding refers to
          ForeignKeys, \* TRUE: PostgreSQL; FALSE: SQLite, which does not check
          Faults       \* TRUE: a commit, a refresh or a test may fail

None == "none"
Statuses == {"active", "disabled", "cooling", "failed", "quota_exceeded", "decrypt_failed"}
ClientStatuses == {"active", "disabled", "deleted"}

\* A row that is not there.
Absent == [owner |-> None, active |-> FALSE, status |-> "absent", over |-> FALSE]
NoClient == [active |-> FALSE, status |-> "absent"]

\* A key's row; over: daily_usage >= daily_quota.
KeyRows == [owner : Clients \cup {None}, active : BOOLEAN, status : Statuses, over : BOOLEAN] \cup {Absent}
ClientRows == [active : BOOLEAN, status : ClientStatuses] \cup {NoClient}

\* What the payload of an operation says; "keep" where it says nothing.
KeyKinds == {"create", "import", "update", "delete", "purge", "batch", "reset_quota"}
Operations ==
    [kind : KeyKinds \cup {"create_client", "update_client", "delete_client", "batch_clients", "purge_client"},
     keys : SUBSET Keys, clients : SUBSET Clients,
     owner : Clients \cup {None, "keep"},
     over : {"keep", "yes", "no"},
     active : {"keep", "yes", "no"},
     cool : BOOLEAN, \* reset_cooldown
     off : BOOLEAN,  \* delete_key, soft_delete or delete_client
     test : BOOLEAN]

NoOp == [kind |-> "update", keys |-> {}, clients |-> {}, owner |-> "keep", over |-> "keep",
         active |-> "keep", cool |-> FALSE, off |-> FALSE, test |-> FALSE]

ASSUME AdminAssumption ==
    /\ Ops \subseteq Operations /\ InitKeys \subseteq Keys /\ Bound \subseteq Keys \cup Clients
    /\ {ForeignKeys, Faults} \subseteq BOOLEAN
    /\ \A op \in Ops : /\ op.kind \in {"create", "update", "delete", "purge"} => \E k \in Keys : op.keys = {k}
                       /\ op.keys # {} => op.kind \in KeyKinds \ {"reset_quota"}
    /\ {None, "keep"} \cap (Keys \cup Clients) = {}

VARIABLES row,    \* api_keys
          client, \* clients
          sess    \* sess[s]: the request of session s

adminVars == <<row, client, sess>>

\* pend, cpend: the rows in the session's identity map, as loaded and as they
\* are now; bad: the keys reported as failed; wrote: history, the keys whose
\* row the session has written; own: history, the keys whose own commit
\* succeeded.
Unloaded == [old |-> Absent, new |-> Absent]
Unchanged(r) == [old |-> r, new |-> r]
NoSession == [pc |-> "idle", op |-> NoOp, todo |-> {},
              pend |-> [k \in Keys |-> Unloaded],
              cpend |-> [c \in Clients |-> [old |-> NoClient, new |-> NoClient]],
              bad |-> {}, wrote |-> {}, own |-> {}]

AdminTypeOK ==
    /\ row \in [Keys -> KeyRows] /\ client \in [Clients -> ClientRows]
    /\ \A s \in Sessions :
          /\ sess[s].pc \in {"idle", "work", "save", "refresh", "commit", "client", "test", "done"}
          /\ sess[s].op \in Ops \cup {NoOp}
          /\ {sess[s].todo, sess[s].bad, sess[s].wrote, sess[s].own} \subseteq SUBSET Keys
          /\ \A k \in Keys : {sess[s].pend[k].old, sess[s].pend[k].new} \subseteq KeyRows
          /\ \A c \in Clients : {sess[s].cpend[c].old, sess[s].cpend[c].new} \subseteq ClientRows

AdminInit ==
    /\ row = [k \in Keys |-> IF k \in InitKeys
                               THEN [Absent EXCEPT !.active = TRUE, !.status = "active"] ELSE Absent]
    /\ client \in [Clients -> {[active |-> TRUE, status |-> "active"],
                               [active |-> FALSE, status |-> "disabled"]}]
    /\ sess = [s \in Sessions |-> NoSession]
-----------------------------------------------------------------------------
At(s, pc) == sess[s].pc = pc
Outcomes == IF Faults THEN BOOLEAN ELSE {TRUE}

\* The changes of a handler to one key, in the order of the code.
Cooled(op, r) ==
    IF op.cool /\ r.active /\ r.status \in {"cooling", "failed"} THEN [r EXCEPT !.status = "active"] ELSE r

Patched(op, r) ==
    LET owned == IF op.owner = "keep" THEN r ELSE [r EXCEPT !.owner = op.owner]
        quota == CASE op.over = "yes" -> [owned EXCEPT !.over = TRUE, !.status = "quota_exceeded"]
                   [] op.over = "no" -> [owned EXCEPT !.over = FALSE]
                   [] OTHER -> owned
    IN  CASE op.active = "no" -> [quota EXCEPT !.active = FALSE, !.status = "disabled"]
          [] op.active = "yes" -> [quota EXCEPT !.active = TRUE,
                                                !.status = IF @ = "disabled" THEN "active" ELSE @]
          [] OTHER -> quota

Retired(op, r) == IF op.off THEN [r EXCEPT !.active = FALSE, !.status = "disabled"] ELSE r

\* Mutant of Merge: every column is written.
MergeAll(cur, p) == p.new

\* What a commit makes of a row that is now cur.
Merge(cur, p) ==
    IF p.new.status = "absent" \/ p.old.status = "absent" THEN p.new
    ELSE [c \in DOMAIN cur |-> IF p.new[c] # p.old[c] THEN p.new[c] ELSE cur[c]]

Dirty(s) == {k \in Keys : sess[s].pend[k].new # sess[s].pend[k].old}

\* A changed row that was purged meanwhile, or a reference the database does
\* not accept, makes the commit fail.
Accepted(s) ==
    \A k \in Dirty(s) :
        LET p == sess[s].pend[k]
        IN  /\ p.old.status # "absent" => row[k].status # "absent"
            /\ ForeignKeys => /\ p.new.owner # None => client[p.new.owner].status # "absent"
                              /\ p.new.status = "absent" => k \notin Bound

Written(s) == [k \in Keys |-> IF k \in Dirty(s) THEN Merge(row[k], sess[s].pend[k]) ELSE row[k]]

NoneLoaded == [k \in Keys |-> Unloaded]

\* Mutant of RolledBack: the copies stay as the handler left them.
RolledBackNot(s) == sess[s].pend

\* db.rollback(): the session forgets its copies.  So does a commit.
RolledBack(s) == NoneLoaded

\* Mutant of Fresh: a payload that names no client is stored as it is.
FreshRaw(op) ==
    [owner |-> op.owner, active |-> op.active # "no",
     status |-> IF op.active = "no" THEN "disabled" ELSE "active", over |-> FALSE]

\* A new row of create_key or import_keys_text.
Fresh(op) ==
    [owner |-> IF op.owner = "keep" THEN None ELSE op.owner, active |-> op.active # "no",
     status |-> IF op.active = "no" THEN "disabled" ELSE "active", over |-> FALSE]

\* The insertion of a key waits for a transaction that inserted the same key.
Inserting(k) ==
    \E s \in Sessions : sess[s].pend[k].old.status = "absent" /\ sess[s].pend[k].new.status # "absent"
-----------------------------------------------------------------------------
\* Keys.

\* The client a key is to be given to is looked up before anything is done.
Begin(s, op) ==
    LET refused == op.owner \in Clients /\ client[op.owner].status = "absent"
    IN  /\ At(s, "idle")
        /\ op.kind \in KeyKinds
        /\ sess' = [sess EXCEPT ![s].op = op, ![s].todo = op.keys,
                                ![s].pc = IF refused THEN "done" ELSE "work",
                                ![s].bad = IF refused THEN op.keys ELSE {}]
        /\ UNCHANGED <<row, client>>

\* create_key: one INSERT and commit; a duplicate is refused.
CreateKey(s, k, ok) ==
    LET op == sess[s].op
        able == /\ ok /\ row[k].status = "absent"
                /\ ForeignKeys /\ op.owner \in Clients => client[op.owner].status # "absent"
    IN  /\ At(s, "work") /\ op.kind = "create" /\ k \in sess[s].todo /\ ~Inserting(k)
        /\ row' = IF able THEN [row EXCEPT ![k] = Fresh(op)] ELSE row
        /\ sess' = [sess EXCEPT ![s].pc = IF able THEN "refresh" ELSE "done", ![s].todo = {},
                                ![s].pend[k] = IF able THEN Unchanged(Fresh(op)) ELSE @,
                                ![s].bad = IF able THEN @ ELSE op.keys,
                                ![s].wrote = IF able THEN @ \cup {k} ELSE @,
                                ![s].own = IF able THEN @ \cup {k} ELSE @]
        /\ UNCHANGED client

\* update_key, delete_key, purge_key, and one round of batch_keys: the row is
\* loaded and its copy changed.  A key that is not there is reported.
Load(s, k) ==
    LET op == sess[s].op
        new == IF op.kind = "purge" THEN Absent ELSE Retired(op, Patched(op, Cooled(op, row[k])))
    IN  /\ At(s, "work") /\ k \in sess[s].todo
        /\ op.kind \in {"update", "delete", "purge", "batch"}
        /\ sess' = IF row[k].status = "absent"
                     THEN [sess EXCEPT ![s].todo = @ \ {k}, ![s].bad = @ \cup {k},
                                       ![s].pend = RolledBack(s)]
                     ELSE [sess EXCEPT ![s].pc = "save", ![s].pend[k] = [old |-> row[k], new |-> new],
                                       ![s].todo = @ \ {k}]
        /\ UNCHANGED <<row, client>>

\* The commit of that key; it fails or every changed row is written.
Save(s, k, ok) ==
    LET done == ok /\ Accepted(s)
        again == done /\ sess[s].op.kind \in {"update", "batch"}
    IN  /\ At(s, "save") /\ sess[s].pend[k] # Unloaded
        /\ row' = IF done THEN Written(s) ELSE row
        /\ sess' = [sess EXCEPT ![s].pc = IF again THEN "refresh" ELSE "work",
                                ![s].pend = CASE again -> [NoneLoaded EXCEPT ![k] = Unchanged(sess[s].pend[k].new)]
                                              [] done /\ ~again -> NoneLoaded
                                              [] OTHER -> RolledBack(s),
                                ![s].bad = IF done THEN @ ELSE @ \cup {k},
                                ![s].wrote = IF done THEN @ \cup Dirty(s) ELSE @,
                                ![s].own = IF done THEN @ \cup {k} ELSE @]
        /\ UNCHANGED client

\* create_key, update_key and batch_keys read the row again after the commit,
\* in the same try.  The row may be gone, or the read fails: then the key is
\* reported as failed although it was written.
Refresh(s, k, ok) ==
    /\ At(s, "refresh") /\ sess[s].pend[k] # Unloaded
    /\ sess' = [sess EXCEPT ![s].pc = "work", ![s].pend = NoneLoaded,
                            ![s].bad = IF ok /\ row[k].status # "absent" THEN @ ELSE @ \cup {k}]
    /\ UNCHANGED <<row, client>>

\* reset_keys_quota loads every row; its commit is one transaction.
QuotaReset(r) ==
    IF r.status = "quota_exceeded" /\ r.active
      THEN [r EXCEPT !.over = FALSE, !.status = "active"] ELSE [r EXCEPT !.over = FALSE]

LoadAll(s) ==
    /\ At(s, "work") /\ sess[s].op.kind = "reset_quota"
    /\ sess' = [sess EXCEPT ![s].pc = "commit",
                            ![s].pend = [k \in Keys |->
                                IF row[k].status = "absent" THEN Unloaded
                                ELSE [old |-> row[k], new |-> QuotaReset(row[k])]]]
    /\ UNCHANGED <<row, client>>

\* import_keys_text, one line in its savepoint: a new key is inserted, a known
\* one is given to the client if it has none; a key of another client, or an
\* error, is reported and nothing of the line remains.
ImportLine(s, k, ok) ==
    LET op == sess[s].op
        given == op.owner \in Clients
        taken == row[k].status # "absent" /\ given /\ row[k].owner \notin {None, op.owner}
        new == IF row[k].status = "absent" THEN Fresh(op)
               ELSE IF given THEN [row[k] EXCEPT !.owner = op.owner] ELSE row[k]
    IN  /\ At(s, "work") /\ op.kind = "import" /\ k \in sess[s].todo /\ ~Inserting(k)
        /\ sess' = IF ok /\ ~taken
                     THEN [sess EXCEPT ![s].todo = @ \ {k}, ![s].pend[k] = [old |-> row[k], new |-> new]]
                     ELSE [sess EXCEPT ![s].todo = @ \ {k}, ![s].bad = @ \cup {k}]
        /\ UNCHANGED <<row, client>>

ImportEnds(s) ==
    /\ At(s, "work") /\ sess[s].op.kind = "import" /\ sess[s].todo = {}
    /\ sess' = [sess EXCEPT ![s].pc = "commit"]
    /\ UNCHANGED <<row, client>>

\* The one commit of an import or a reset: all of it or nothing.
CommitAll(s, ok) ==
    LET done == ok /\ Accepted(s)
    IN  /\ At(s, "commit")
        /\ row' = IF done THEN Written(s) ELSE row
        /\ sess' = [sess EXCEPT ![s].pc = "done", ![s].pend = NoneLoaded,
                                ![s].wrote = IF done THEN Dirty(s) ELSE {},
                                ![s].own = IF done THEN {k \in Keys : sess[s].pend[k] # Unloaded} ELSE {},
                                ![s].bad = IF done THEN @ ELSE sess[s].op.keys]
        /\ UNCHANGED client

\* The rounds are over; batch_keys then tests the keys that did not fail.
WorkEnds(s) ==
    LET op == sess[s].op
    IN  /\ At(s, "work") /\ op.kind \in {"create", "update", "delete", "purge", "batch"} /\ sess[s].todo = {}
        /\ sess' = [sess EXCEPT ![s].pc = IF op.test THEN "test" ELSE "done",
                                ![s].todo = IF op.test THEN op.keys \ sess[s].bad ELSE {}]
        /\ UNCHANGED <<row, client>>

\* The tests run in threads with sessions of their own.  A test that finds no
\* row turns the key's report into a failure.
TestLoad(s, k) ==
    /\ At(s, "test") /\ k \in sess[s].todo
    /\ sess' = [sess EXCEPT ![s].todo = @ \ {k}, ![s].pend[k] = Unchanged(row[k]),
                            ![s].bad = IF row[k].status = "absent" THEN @ \cup {k} ELSE @]
    /\ UNCHANGED <<row, client>>

\* What a test makes of a row: it decrypts or not, and is answered 401, 429,
\* 2xx or with a failure (test_key).
Tested(r) ==
    LET live == r.active /\ r.status # "disabled"
        held == {[r EXCEPT !.status = st] : st \in {"active", "cooling", "failed"}}
    IN  {[r EXCEPT !.active = FALSE, !.status = st] : st \in {"disabled", "decrypt_failed"}}
          \cup {r} \cup (IF live THEN held ELSE {})

\* So does a test that raises, whose commit fails, or whose refresh after the
\* commit fails.
TestSave(s, k, ok, read) ==
    LET p == sess[s].pend[k]
        done == ok /\ row[k].status # "absent"
    IN  /\ At(s, "test") /\ p.old.status # "absent"
        /\ \E new \in Tested(p.old) :
              row' = IF done THEN [row EXCEPT ![k] = Merge(@, [old |-> p.old, new |-> new])] ELSE row
        /\ sess' = [sess EXCEPT ![s].pend[k] = Unloaded,
                                ![s].bad = IF done /\ read THEN @ ELSE @ \cup {k}]
        /\ UNCHANGED client

TestsEnd(s) ==
    /\ At(s, "test") /\ sess[s].todo = {} /\ \A k \in Keys : sess[s].pend[k] = Unloaded
    /\ sess' = [sess EXCEPT ![s].pc = "done"]
    /\ UNCHANGED <<row, client>>
-----------------------------------------------------------------------------
\* Clients.

\* create_client.
CreateClient(s, op, ok) ==
    /\ At(s, "idle") /\ op.kind = "create_client"
    /\ \E c \in op.clients :
          client' = IF ok /\ client[c].status = "absent"
                      THEN [client EXCEPT ![c] = [active |-> op.active # "no",
                                                  status |-> IF op.active = "no" THEN "disabled" ELSE "active"]]
                      ELSE client
    /\ sess' = [sess EXCEPT ![s].op = op, ![s].pc = "done"]
    /\ UNCHANGED row

\* apply_batch_action_to_client, and the same of update_client and
\* delete_client.
Acted(op, r) ==
    IF op.off THEN [active |-> FALSE, status |-> "deleted"]
    ELSE CASE op.active = "yes" -> [active |-> TRUE, status |-> "active"]
           [] op.active = "no" -> [active |-> FALSE, status |-> "disabled"]
           [] OTHER -> r

\* update_client, delete_client and batch_update_clients load the clients
\* there are; update_client does not find a deleted one.  purge_client only
\* looks for the row.
ClientLoad(s, op) ==
    LET found == {c \in op.clients : /\ client[c].status # "absent"
                                     /\ ~(op.kind = "update_client" /\ client[c].status = "deleted")}
    IN  /\ At(s, "idle") /\ op.kind \in {"update_client", "delete_client", "batch_clients", "purge_client"}
        /\ sess' = [sess EXCEPT ![s].op = op,
                                ![s].pc = IF found = {} THEN "done" ELSE "client",
                                ![s].cpend = [c \in Clients |->
                                    IF c \notin found THEN @[c]
                                    ELSE [old |-> client[c],
                                          new |-> IF op.kind = "purge_client" THEN NoClient ELSE Acted(op, client[c])]]]
        /\ UNCHANGED <<row, client>>

ClientDirty(s) == {c \in Clients : sess[s].cpend[c].new # sess[s].cpend[c].old}

\* One commit for all of them.  purge_client takes the client's keys from it
\* and deletes its idempotency records, but not its bindings.
ClientSave(s, ok) ==
    LET dirty == ClientDirty(s)
        purge == sess[s].op.kind = "purge_client"
        done == /\ ok /\ \A c \in dirty : client[c].status # "absent"
                /\ ~(purge /\ ForeignKeys /\ dirty \cap Bound # {})
    IN  /\ At(s, "client")
        /\ client' = IF done THEN [c \in Clients |-> IF c \in dirty THEN Merge(client[c], sess[s].cpend[c])
                                                      ELSE client[c]]
                             ELSE client
        /\ row' = IF done /\ purge
                    THEN [k \in Keys |-> IF row[k].owner \in dirty THEN [row[k] EXCEPT !.owner = None] ELSE row[k]]
                    ELSE row
        /\ sess' = [sess EXCEPT ![s] = [NoSession EXCEPT !.pc = "done", !.op = sess[s].op]]

AdminStep(s) ==
    \/ \E op \in Ops :
          Begin(s, op) \/ ClientLoad(s, op) \/ \E ok \in Outcomes : CreateClient(s, op, ok)
    \/ LoadAll(s) \/ ImportEnds(s) \/ WorkEnds(s) \/ TestsEnd(s)
    \/ \E k \in Keys : Load(s, k) \/ TestLoad(s, k)
    \/ \E ok \in Outcomes :
          \/ CommitAll(s, ok) \/ ClientSave(s, ok)
          \/ \E k \in Keys : \/ CreateKey(s, k, ok) \/ ImportLine(s, k, ok)
                             \/ Save(s, k, ok) \/ Refresh(s, k, ok)
                             \/ \E read \in Outcomes : TestSave(s, k, ok, read)

\* Every administrator has been answered.
AdminQuiet == (\A s \in Sessions : At(s, "done")) /\ UNCHANGED adminVars

AdminNext == AdminQuiet \/ \E s \in Sessions : AdminStep(s)

AdminSpec == AdminInit /\ [][AdminNext]_adminVars
-----------------------------------------------------------------------------
\* Properties.

\* A request writes a key only by the commit that is the key's own: what a
\* failed commit of batch_keys, or a failed line of import_keys_text, left in
\* the session is not carried along by a later commit.  And a key that a
\* finished request does not report as failed has been committed
\* (control_plane.py 495-580, 1030-1172).  The converse is not claimed: a key
\* is also reported as failed when its refresh or its test fails after its
\* commit (1082-1083, 1157-1169).
OwnCommitOnly ==
    \A s \in Sessions :
        /\ sess[s].wrote \subseteq sess[s].own
        /\ At(s, "done") => sess[s].op.keys \subseteq sess[s].bad \cup sess[s].own

\* A key or client that is out of service comes back only by a request that
\* asks for it, or a creation; a request that loaded the row earlier and
\* changes something else does not bring it back (601-665, 1257-1289).
Revived == {k \in Keys : ~row[k].active /\ row'[k].active}
             \cup {c \in Clients : ~client[c].active /\ client'[c].active}
OnlyEnablingRevives ==
    [][\A x \in Revived : \E s \in Sessions :
          /\ sess'[s] # sess[s] /\ x \in sess'[s].op.keys \cup sess'[s].op.clients
          /\ sess'[s].op.active = "yes" \/ sess'[s].op.kind \in {"create", "import", "create_client"}]_adminVars

\* A deleted client is out of service (delete_client, 1292-1309).
DeletedIsInactive == \A c \in Clients : client[c].status = "deleted" => ~client[c].active
=============================================================================
