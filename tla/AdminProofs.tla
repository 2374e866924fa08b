---------------------------- MODULE AdminProofs ----------------------------
(***************************************************************************)
(* The administration of keys and clients is correct for every set of      *)
(* sessions, keys, clients and operations, with either database, whatever  *)
(* commits fail.                                                           *)
(***************************************************************************)
EXTENDS Admin, TLAPS

FullKeys == [owner : Clients \cup {None}, active : BOOLEAN, status : Statuses, over : BOOLEAN]
FullClients == [active : BOOLEAN, status : ClientStatuses]
KeyPairs == [old : KeyRows, new : KeyRows]
ClientPairs == [old : ClientRows, new : ClientRows]
Sess == [pc : {"idle", "work", "save", "refresh", "commit", "client", "test", "done"}, op : Ops \cup {NoOp},
         todo : SUBSET Keys, pend : [Keys -> KeyPairs], cpend : [Clients -> ClientPairs],
         bad : SUBSET Keys, wrote : SUBSET Keys, own : SUBSET Keys]

\* What holds of a session x.  It starts with nothing; it works on the keys it
\* was asked for;
Idle(x) == x.pc = "idle" => x = NoSession
Asked(x) == x.todo \subseteq x.op.keys

\* it writes by own commits only, and every key it was asked for is to do, in
\* hand, failed or committed; with commits of their own keys are in hand one by
\* one;
Loaded(x) == {k \in Keys : x.pend[k] # Unloaded}
Whole == {"import", "reset_quota"}
Settled(x) ==
    /\ x.wrote \subseteq x.own
    /\ x.pc \in {"work", "save"} => x.op.keys \subseteq x.todo \cup x.bad \cup x.own \cup Loaded(x)
    /\ x.pc = "refresh" => x.op.keys \subseteq x.todo \cup x.bad \cup x.own
    /\ x.pc = "commit" => x.op.keys \subseteq x.bad \cup Loaded(x)
    /\ x.pc \in {"test", "done"} => x.op.keys \subseteq x.bad \cup x.own
    /\ x.pc = "client" => x.op.keys = {}
    /\ x.pc = "work" /\ x.op.kind \notin Whole => Loaded(x) = {}
    /\ x.pc = "save" => \E k \in Keys : Loaded(x) \subseteq {k}
    /\ x.pc \in {"save", "refresh"} => x.op.kind \notin Whole
    /\ x.pc = "work" /\ x.op.kind \in Whole => x.own = {}

\* and a copy is put into service only if the request asks for it.
Enables(op, y) ==
    /\ y \in op.keys \cup op.clients
    /\ op.active = "yes" \/ op.kind \in {"create", "import", "create_client"}
Honest(x) ==
    /\ \A k \in Keys : x.pend[k].new.active /\ ~x.pend[k].old.active => Enables(x.op, k)
    /\ \A c \in Clients : x.cpend[c].new.active /\ ~x.cpend[c].old.active => Enables(x.op, c)

SessOK(x) == x \in Sess /\ Idle(x) /\ Asked(x) /\ Settled(x) /\ Honest(x)

\* The inductive invariant.
AdminInv ==
    /\ row \in [Keys -> KeyRows] /\ client \in [Clients -> ClientRows]
    /\ sess = [s \in Sessions |-> sess[s]] /\ \A s \in Sessions : SessOK(sess[s])
-----------------------------------------------------------------------------
\* Rows.

LEMMA RowKinds ==
    /\ \A r \in KeyRows : r.status # "absent" => r \in FullKeys
    /\ \A r \in KeyRows : r.status = "absent" => r = Absent
    /\ FullKeys \subseteq KeyRows /\ Absent \in KeyRows
    /\ \A r \in FullKeys : r.status # "absent"
    /\ Absent.active = FALSE /\ Absent.status = "absent"
BY DEF KeyRows, FullKeys, Absent, Statuses

LEMMA ClientKinds ==
    /\ \A r \in ClientRows : r.status # "absent" => r \in FullClients
    /\ \A r \in ClientRows : r.status = "absent" => r = NoClient
    /\ FullClients \subseteq ClientRows /\ NoClient \in ClientRows
    /\ \A r \in FullClients : r.status # "absent"
    /\ NoClient.active = FALSE /\ NoClient.status = "absent"
BY DEF ClientRows, FullClients, NoClient, ClientStatuses

\* A creation is of one key; only operations on keys name any.
Shaped(op) ==
    /\ op.kind = "create" => \E k \in Keys : op.keys = {k}
    /\ op.keys # {} => op.kind \in KeyKinds \ {"reset_quota"}

LEMMA OpTyped ==
    ASSUME NEW op \in Ops \cup {NoOp}
    PROVE  op \in Operations /\ Shaped(op)
<1>1. NoOp \in Operations /\ Shaped(NoOp)
  BY DEF NoOp, Operations, KeyKinds, Shaped
<1> QED
  BY <1>1, AdminAssumption DEF Shaped

LEMMA UnloadedTyped ==
    /\ Unloaded \in KeyPairs /\ Unloaded.old = Absent /\ Unloaded.new = Absent
    /\ NoSession \in Sess
    /\ NoSession.pc = "idle" /\ NoSession.todo = {} /\ NoSession.bad = {} /\ NoSession.wrote = {} /\ NoSession.own = {}
    /\ NoSession.pend = [k \in Keys |-> Unloaded] /\ NoSession.op.keys = {}
    /\ NoneLoaded = [k \in Keys |-> Unloaded] /\ NoneLoaded \in [Keys -> KeyPairs]
    /\ \A c \in Clients : NoSession.cpend[c].new = NoClient /\ NoSession.cpend[c].old = NoClient
<1>1. Unloaded \in KeyPairs /\ Unloaded.old = Absent /\ Unloaded.new = Absent
  BY RowKinds DEF Unloaded, KeyPairs
<1>2. [c \in Clients |-> [old |-> NoClient, new |-> NoClient]] \in [Clients -> ClientPairs]
  BY ClientKinds DEF ClientPairs
<1>3. [k \in Keys |-> Unloaded] \in [Keys -> KeyPairs]
  BY <1>1
<1>4. NoSession \in Sess
  BY <1>2, <1>3 DEF NoSession, Sess
<1> QED
  BY <1>1, <1>3, <1>4 DEF NoSession, NoneLoaded, NoOp

\* What a handler makes of a row is a row, in service only if it was or if the
\* request says so.
LEMMA HandlerRows ==
    ASSUME NEW op \in Operations, NEW r \in FullKeys
    PROVE  LET new == Retired(op, Patched(op, Cooled(op, r)))
           IN  new \in FullKeys /\ (new.active => r.active \/ op.active = "yes")
<1>1. Cooled(op, r) \in FullKeys /\ Cooled(op, r).active = r.active
  BY DEF Cooled, FullKeys, Statuses
<1>2. ASSUME NEW q \in FullKeys
      PROVE  Patched(op, q) \in FullKeys /\ (Patched(op, q).active => q.active \/ op.active = "yes")
  <2> DEFINE owned == IF op.owner = "keep" THEN q ELSE [q EXCEPT !.owner = op.owner]
             quota == CASE op.over = "yes" -> [owned EXCEPT !.over = TRUE, !.status = "quota_exceeded"]
                        [] op.over = "no" -> [owned EXCEPT !.over = FALSE]
                        [] OTHER -> owned
  <2>1. owned \in FullKeys /\ owned.active = q.active
    BY <1>2 DEF FullKeys, Operations
  <2>2. quota \in FullKeys /\ quota.active = q.active
    <3> HIDE DEF owned
    <3> QED
      BY <2>1 DEF FullKeys, Statuses
  <2>3. Patched(op, q) = CASE op.active = "no" -> [quota EXCEPT !.active = FALSE, !.status = "disabled"]
                           [] op.active = "yes" -> [quota EXCEPT !.active = TRUE,
                                                      !.status = IF @ = "disabled" THEN "active" ELSE @]
                           [] OTHER -> quota
    BY DEF Patched
  <2>4. QED
    <3> HIDE DEF quota
    <3> QED
      BY <2>2, <2>3 DEF FullKeys, Statuses
<1>3. ASSUME NEW q \in FullKeys
      PROVE  Retired(op, q) \in FullKeys /\ (Retired(op, q).active => q.active)
  BY <1>3 DEF Retired, FullKeys, Statuses
<1> QED
  BY <1>1, <1>2, <1>3

LEMMA FreshRow ==
    ASSUME NEW op \in Operations
    PROVE  Fresh(op) \in FullKeys
BY DEF Fresh, FullKeys, Operations, Statuses

LEMMA QuotaResetRow ==
    ASSUME NEW r \in FullKeys
    PROVE  QuotaReset(r) \in FullKeys /\ QuotaReset(r).active = r.active
BY DEF QuotaReset, FullKeys, Statuses

\* A merge of two rows that are there is a row; it puts a row into service
\* only if the session's copy was put into service.
LEMMA MergedRow ==
    ASSUME NEW cur \in KeyRows, NEW p \in KeyPairs, p.old.status # "absent" => cur.status # "absent"
    PROVE  /\ Merge(cur, p) \in KeyRows
           /\ ~cur.active /\ Merge(cur, p).active => p.new.active /\ ~p.old.active
<1>1. CASE p.new.status = "absent" \/ p.old.status = "absent"
  <2>1. Merge(cur, p) = p.new /\ p.new \in KeyRows
    BY <1>1 DEF Merge, KeyPairs
  <2>2. p.new.active => ~p.old.active
    BY <1>1, RowKinds DEF KeyPairs
  <2>3. QED
    BY <2>1, <2>2
<1>2. CASE ~(p.new.status = "absent" \/ p.old.status = "absent")
  <2>1. cur \in FullKeys /\ p.new \in FullKeys /\ p.old \in FullKeys
    BY <1>2, RowKinds DEF KeyPairs
  <2>2. Merge(cur, p) = [c \in DOMAIN cur |-> IF p.new[c] # p.old[c] THEN p.new[c] ELSE cur[c]]
    BY <1>2 DEF Merge
  <2>3. Merge(cur, p) \in FullKeys
    BY <2>1, <2>2 DEF FullKeys
  <2>4. Merge(cur, p).active = IF p.new.active # p.old.active THEN p.new.active ELSE cur.active
    BY <2>1, <2>2 DEF FullKeys
  <2>5. p.new.active \in BOOLEAN /\ p.old.active \in BOOLEAN /\ cur.active \in BOOLEAN
    BY <2>1 DEF FullKeys
  <2>6. QED
    BY <2>3, <2>4, <2>5, RowKinds
<1> QED
  BY <1>1, <1>2

LEMMA MergedClient ==
    ASSUME NEW cur \in ClientRows, NEW p \in ClientPairs, cur.status # "absent"
    PROVE  /\ Merge(cur, p) \in ClientRows
           /\ ~cur.active /\ Merge(cur, p).active => p.new.active /\ ~p.old.active
<1>1. CASE p.new.status = "absent" \/ p.old.status = "absent"
  <2>1. Merge(cur, p) = p.new /\ p.new \in ClientRows
    BY <1>1 DEF Merge, ClientPairs
  <2>2. p.new.active => ~p.old.active
    BY <1>1, ClientKinds DEF ClientPairs
  <2>3. QED
    BY <2>1, <2>2
<1>2. CASE ~(p.new.status = "absent" \/ p.old.status = "absent")
  <2>1. cur \in FullClients /\ p.new \in FullClients /\ p.old \in FullClients
    BY <1>2, ClientKinds DEF ClientPairs
  <2>2. Merge(cur, p) = [c \in DOMAIN cur |-> IF p.new[c] # p.old[c] THEN p.new[c] ELSE cur[c]]
    BY <1>2 DEF Merge
  <2>3. Merge(cur, p) \in FullClients
    BY <2>1, <2>2 DEF FullClients
  <2>4. Merge(cur, p).active = IF p.new.active # p.old.active THEN p.new.active ELSE cur.active
    BY <2>1, <2>2 DEF FullClients
  <2>5. p.new.active \in BOOLEAN /\ p.old.active \in BOOLEAN /\ cur.active \in BOOLEAN
    BY <2>1 DEF FullClients
  <2>6. QED
    BY <2>3, <2>4, <2>5, ClientKinds
<1> QED
  BY <1>1, <1>2

\* The rows a commit writes.
LEMMA WrittenRows ==
    ASSUME AdminInv, NEW s \in Sessions, Accepted(s)
    PROVE  /\ Written(s) \in [Keys -> KeyRows]
           /\ \A k \in Keys : ~row[k].active /\ Written(s)[k].active => Enables(sess[s].op, k)
<1>typed. /\ row \in [Keys -> KeyRows] /\ SessOK(sess[s])
          /\ sess[s].pend \in [Keys -> KeyPairs]
  BY DEF AdminInv, SessOK, Sess
<1> SUFFICES ASSUME NEW k \in Keys
             PROVE  /\ Written(s)[k] \in KeyRows
                    /\ ~row[k].active /\ Written(s)[k].active => Enables(sess[s].op, k)
  BY DEF Written
<1>1. CASE k \in Dirty(s)
  <2>1. Written(s)[k] = Merge(row[k], sess[s].pend[k])
    BY <1>1 DEF Written
  <2>2. sess[s].pend[k].old.status # "absent" => row[k].status # "absent"
    BY <1>1 DEF Accepted
  <2>3. sess[s].pend[k] \in KeyPairs /\ row[k] \in KeyRows
    BY <1>typed
  <2>4. QED
    BY <2>1, <2>2, <2>3, <1>typed, MergedRow DEF SessOK, Honest
<1>2. CASE k \notin Dirty(s)
  BY <1>2, <1>typed DEF Written
<1> QED
  BY <1>1, <1>2
-----------------------------------------------------------------------------
\* Steps.

\* Session s moves on to x; the rows stay rows, and what comes into service
\* does so because the request of s asks for it.
Moves(s, x) ==
    /\ SessOK(x) /\ sess' = [sess EXCEPT ![s] = x]
    /\ row' \in [Keys -> KeyRows] /\ client' \in [Clients -> ClientRows]
    /\ \A k \in Keys : ~row[k].active /\ row'[k].active => Enables(x.op, k) /\ x # sess[s]
    /\ \A c \in Clients : ~client[c].active /\ client'[c].active => Enables(x.op, c) /\ x # sess[s]

\* A session that leaves the rows alone only has to be in order itself.
LEMMA OwnMove ==
    ASSUME AdminInv, NEW s \in Sessions, NEW x, SessOK(x), sess' = [sess EXCEPT ![s] = x],
           UNCHANGED <<row, client>>
    PROVE  Moves(s, x)
BY DEF Moves, AdminInv

LEMMA Typed ==
    ASSUME AdminInv, NEW s \in Sessions
    PROVE  /\ sess[s] \in Sess /\ Idle(sess[s]) /\ Asked(sess[s]) /\ Settled(sess[s]) /\ Honest(sess[s])
           /\ row \in [Keys -> KeyRows] /\ client \in [Clients -> ClientRows]
           /\ sess[s].op \in Operations /\ sess[s].op \in Ops \cup {NoOp}
           /\ sess[s].op.keys \subseteq Keys /\ Shaped(sess[s].op)
           /\ sess = [t \in Sessions |-> sess[t]]
<1>1. SessOK(sess[s]) /\ sess[s].op \in Ops \cup {NoOp}
  BY DEF AdminInv, SessOK, Sess
<1>2. sess[s].op \in Operations /\ Shaped(sess[s].op)
  BY <1>1, OpTyped
<1> QED
  BY <1>1, <1>2 DEF AdminInv, SessOK, Operations

LEMMA BeginMoves ==
    ASSUME AdminInv, NEW s \in Sessions, NEW op \in Ops, Begin(s, op)
    PROVE  \E x : Moves(s, x)
<1> DEFINE gone == op.owner \in Clients /\ client[op.owner].status = "absent"
           x == [sess[s] EXCEPT !.op = op, !.todo = op.keys, !.pc = IF gone THEN "done" ELSE "work",
                                !.bad = IF gone THEN op.keys ELSE {}]
<1>1. sess[s] = NoSession /\ sess[s] \in Sess /\ sess = [t \in Sessions |-> sess[t]]
  BY Typed DEF Begin, At, Idle
<1>2. op.keys \in SUBSET Keys
  BY AdminAssumption DEF Operations
<1>3. x \in Sess
  BY <1>1, <1>2 DEF Sess
<1>4. /\ x.op = op /\ x.todo = op.keys /\ x.pc \in {"done", "work"} /\ (x.pc = "done" => x.bad = op.keys)
      /\ x.wrote = sess[s].wrote /\ x.own = sess[s].own /\ x.pend = sess[s].pend /\ x.cpend = sess[s].cpend
  BY <1>1 DEF Sess
<1>5. sess' = [sess EXCEPT ![s] = x] /\ UNCHANGED <<row, client>>
  BY <1>1, UnloadedTyped DEF Begin, Sess
<1> HIDE DEF x
<1>6. Loaded(x) = {} /\ x.wrote = {} /\ x.own = {}
  BY <1>1, <1>4, UnloadedTyped DEF Loaded
<1>7. Settled(x) /\ Asked(x) /\ Idle(x)
  BY <1>4, <1>6 DEF Settled, Asked, Idle
<1>8. Honest(x)
  BY <1>1, <1>4, UnloadedTyped, RowKinds, ClientKinds DEF Honest
<1> QED
  BY <1>3, <1>5, <1>7, <1>8, OwnMove DEF SessOK

LEMMA CreateKeyMoves ==
    ASSUME AdminInv, NEW s \in Sessions, NEW k \in Keys, NEW ok \in BOOLEAN, CreateKey(s, k, ok)
    PROVE  \E x : Moves(s, x)
<1> DEFINE op == sess[s].op
           able == /\ ok /\ row[k].status = "absent"
                   /\ ForeignKeys /\ op.owner \in Clients => client[op.owner].status # "absent"
           x == [sess[s] EXCEPT !.pc = IF able THEN "refresh" ELSE "done", !.todo = {},
                                !.pend = [@ EXCEPT ![k] = IF able THEN Unchanged(Fresh(op)) ELSE sess[s].pend[k]],
                                !.bad = IF able THEN @ ELSE op.keys,
                                !.wrote = IF able THEN @ \cup {k} ELSE @,
                                !.own = IF able THEN @ \cup {k} ELSE @]
<1>1. /\ sess[s] \in Sess /\ sess = [t \in Sessions |-> sess[t]] /\ Honest(sess[s]) /\ Settled(sess[s])
      /\ row \in [Keys -> KeyRows] /\ client \in [Clients -> ClientRows] /\ op \in Operations
      /\ Asked(sess[s]) /\ sess[s].op.keys \subseteq Keys /\ sess[s].pend \in [Keys -> KeyPairs]
  BY Typed DEF Sess
<1>2. sess[s].pc = "work" /\ k \in sess[s].todo /\ op.kind = "create" /\ op.keys = {k}
  BY <1>1, Typed DEF CreateKey, At, Asked, Shaped
<1>3. able \in BOOLEAN
  BY DEF able
<1>4. /\ row' = IF able THEN [row EXCEPT ![k] = Fresh(op)] ELSE row
      /\ sess' = [sess EXCEPT ![s] = x] /\ client' = client
  BY <1>1 DEF CreateKey, Sess
<1> HIDE DEF able
<1> DEFINE u == Unchanged(Fresh(op))
<1>u. u \in KeyPairs /\ u.old = u.new
  BY <1>1, FreshRow, RowKinds DEF Unchanged, KeyPairs
<1> HIDE DEF u
<1>5. x \in Sess
  <2> USE DEF u
  <2>1. [sess[s].pend EXCEPT ![k] = IF able THEN u ELSE sess[s].pend[k]] \in [Keys -> KeyPairs]
    <3> HIDE DEF u
    <3> QED
      BY <1>1, <1>u
  <2>2. QED
    BY <1>1, <2>1 DEF Sess
<1>6. /\ x.op = op /\ x.todo = {} /\ x.pc = (IF able THEN "refresh" ELSE "done") /\ x.cpend = sess[s].cpend
      /\ x.pend = [sess[s].pend EXCEPT ![k] = IF able THEN u ELSE sess[s].pend[k]]
      /\ x.bad = IF able THEN sess[s].bad ELSE op.keys
      /\ x.wrote = IF able THEN sess[s].wrote \cup {k} ELSE sess[s].wrote
      /\ x.own = IF able THEN sess[s].own \cup {k} ELSE sess[s].own
  BY <1>1 DEF Sess, u
<1> HIDE DEF x
<1>7. Settled(x)
  BY <1>1, <1>2, <1>6 DEF Settled, Whole
<1>8. Asked(x) /\ Idle(x) /\ Honest(x)
  BY <1>1, <1>u, <1>6 DEF Asked, Idle, Honest
<1>9. row' \in [Keys -> KeyRows]
  BY <1>1, <1>4, FreshRow, RowKinds
<1>10. \A j \in Keys : ~row[j].active /\ row'[j].active => j = k
  BY <1>1, <1>4
<1>11. Enables(x.op, k) /\ x # sess[s]
  BY <1>1, <1>2, <1>6 DEF Enables, Asked
<1> QED
  BY <1>1, <1>4, <1>5, <1>7, <1>8, <1>9, <1>10, <1>11 DEF Moves, SessOK

LEMMA LoadMoves ==
    ASSUME AdminInv, NEW s \in Sessions, NEW k \in Keys, Load(s, k)
    PROVE  \E x : Moves(s, x)
<1> DEFINE op == sess[s].op
           new == IF op.kind = "purge" THEN Absent ELSE Retired(op, Patched(op, Cooled(op, row[k])))
           p == [old |-> row[k], new |-> new]
           y == [sess[s] EXCEPT !.todo = @ \ {k}, !.bad = @ \cup {k}, !.pend = RolledBack(s)]
           x == [sess[s] EXCEPT !.pc = "save", !.pend = [@ EXCEPT ![k] = p], !.todo = @ \ {k}]
<1>1. /\ sess[s] \in Sess /\ sess = [t \in Sessions |-> sess[t]] /\ Honest(sess[s]) /\ Settled(sess[s])
      /\ row \in [Keys -> KeyRows] /\ client \in [Clients -> ClientRows] /\ op \in Operations
      /\ Asked(sess[s]) /\ sess[s].pend \in [Keys -> KeyPairs]
  BY Typed DEF Sess
<1>2. /\ sess[s].pc = "work" /\ k \in sess[s].todo /\ op.kind \notin Whole /\ UNCHANGED <<row, client>>
      /\ k \in op.keys /\ Loaded(sess[s]) = {}
  BY <1>1 DEF Load, At, Asked, Whole, Settled
<1>3. CASE row[k].status = "absent"
  <2>1. sess' = [sess EXCEPT ![s] = y]
    BY <1>1, <1>3 DEF Load, Sess
  <2>2. RolledBack(s) \in [Keys -> KeyPairs] /\ \A j \in Keys : RolledBack(s)[j] = Unloaded
    BY UnloadedTyped DEF RolledBack
  <2>3. y \in Sess
    BY <1>1, <2>2 DEF Sess
  <2>4. /\ y.op = op /\ y.todo = sess[s].todo \ {k} /\ y.pc = "work" /\ y.pend = RolledBack(s)
        /\ y.cpend = sess[s].cpend /\ y.bad = sess[s].bad \cup {k} /\ y.wrote = sess[s].wrote /\ y.own = sess[s].own
    BY <1>1, <1>2 DEF Sess
  <2> HIDE DEF y
  <2>5. Loaded(y) = {}
    BY <2>2, <2>4 DEF Loaded
  <2>6. Settled(y)
    BY <1>1, <1>2, <2>4, <2>5 DEF Settled
  <2>7. Asked(y) /\ Idle(y) /\ Honest(y)
    BY <1>1, <2>2, <2>4, UnloadedTyped, RowKinds DEF Asked, Idle, Honest
  <2>8. QED
    BY <1>2, <2>1, <2>3, <2>6, <2>7, OwnMove DEF SessOK
<1>4. CASE row[k].status # "absent"
  <2>1. sess' = [sess EXCEPT ![s] = x]
    BY <1>1, <1>4 DEF Load, Sess
  <2>2. row[k] \in FullKeys
    BY <1>1, <1>4, RowKinds
  <2>3. new \in KeyRows /\ (new.active => row[k].active \/ op.active = "yes")
    BY <1>1, <2>2, HandlerRows, RowKinds
  <2> HIDE DEF new
  <2>4. p \in KeyPairs /\ p.old = row[k] /\ p.new = new
    BY <1>1, <2>3 DEF KeyPairs
  <2> HIDE DEF p
  <2>5. x \in Sess
    BY <1>1, <2>4 DEF Sess
  <2>6. /\ x.op = op /\ x.todo = sess[s].todo \ {k} /\ x.pc = "save"
        /\ x.pend = [sess[s].pend EXCEPT ![k] = p]
        /\ x.cpend = sess[s].cpend /\ x.bad = sess[s].bad /\ x.wrote = sess[s].wrote /\ x.own = sess[s].own
    BY <1>1, <1>2 DEF Sess
  <2> HIDE DEF x
  <2>7. Loaded(x) = {k}
    <3>1. p # Unloaded
      BY <1>4, <2>4, UnloadedTyped, RowKinds
    <3>2. QED
      BY <1>1, <1>2, <2>6, <3>1 DEF Loaded
  <2>8. Settled(x)
    BY <1>1, <1>2, <2>6, <2>7 DEF Settled
  <2>9. x.pend[k] = p /\ \A j \in Keys : j # k => x.pend[j] = sess[s].pend[j]
    BY <1>1, <2>6
  <2>10. p.new.active /\ ~p.old.active => Enables(op, k)
    BY <1>2, <2>3, <2>4 DEF Enables
  <2>11. Honest(x)
    BY <1>1, <2>6, <2>9, <2>10 DEF Honest
  <2>12. Asked(x) /\ Idle(x)
    BY <1>1, <2>6 DEF Asked, Idle
  <2>13. QED
    BY <1>2, <2>1, <2>5, <2>8, <2>11, <2>12, OwnMove DEF SessOK
<1> QED
  BY <1>3, <1>4

LEMMA SaveMoves ==
    ASSUME AdminInv, NEW s \in Sessions, NEW k \in Keys, NEW ok \in BOOLEAN, Save(s, k, ok)
    PROVE  \E x : Moves(s, x)
<1> DEFINE done == ok /\ Accepted(s)
           again == done /\ sess[s].op.kind \in {"update", "batch"}
           u == Unchanged(sess[s].pend[k].new)
           pend == IF again THEN [NoneLoaded EXCEPT ![k] = u] ELSE NoneLoaded
           x == [sess[s] EXCEPT !.pc = IF again THEN "refresh" ELSE "work", !.pend = pend,
                                !.bad = IF done THEN @ ELSE @ \cup {k},
                                !.wrote = IF done THEN @ \cup Dirty(s) ELSE @,
                                !.own = IF done THEN @ \cup {k} ELSE @]
<1>1. /\ sess[s] \in Sess /\ sess = [t \in Sessions |-> sess[t]] /\ Honest(sess[s]) /\ Settled(sess[s])
      /\ row \in [Keys -> KeyRows] /\ client \in [Clients -> ClientRows] /\ sess[s].op \in Operations
      /\ Asked(sess[s]) /\ sess[s].pend \in [Keys -> KeyPairs] /\ sess[s].op.keys \in SUBSET Keys
  BY Typed DEF Sess
<1>2. sess[s].pc = "save" /\ sess[s].pend[k] # Unloaded
  BY DEF Save, At
<1>3. done \in BOOLEAN /\ again \in BOOLEAN
  BY DEF Accepted
<1>4. /\ row' = IF done THEN Written(s) ELSE row
      /\ sess' = [sess EXCEPT ![s] = x] /\ client' = client
  BY <1>1 DEF Save, RolledBack, Sess
<1>5. Dirty(s) \subseteq Loaded(sess[s]) /\ k \in Loaded(sess[s]) /\ Loaded(sess[s]) = {k}
  BY <1>1, <1>2, UnloadedTyped DEF Dirty, Loaded, Settled
<1>6. pend \in [Keys -> KeyPairs] /\ \A j \in Keys : pend[j].old = pend[j].new
  <2>1. u \in KeyPairs /\ u.old = u.new
    BY <1>1 DEF Unchanged, KeyPairs
  <2> HIDE DEF u, again
  <2>2. QED
    BY <2>1, UnloadedTyped
<1>7. (done => Accepted(s)) /\ (~again => pend = NoneLoaded) /\ (again => done)
  BY DEF done
<1> HIDE DEF done, again, pend
<1>8. x \in Sess
  BY <1>1, <1>5, <1>6 DEF Sess
<1>9. /\ x.op = sess[s].op /\ x.todo = sess[s].todo /\ x.pc = (IF again THEN "refresh" ELSE "work")
      /\ x.pend = pend /\ x.cpend = sess[s].cpend
      /\ x.bad = IF done THEN sess[s].bad ELSE sess[s].bad \cup {k}
      /\ x.wrote = IF done THEN sess[s].wrote \cup Dirty(s) ELSE sess[s].wrote
      /\ x.own = IF done THEN sess[s].own \cup {k} ELSE sess[s].own
  BY <1>1 DEF Sess
<1> HIDE DEF x
<1>10. x.pc = "work" => Loaded(x) = {}
  BY <1>7, <1>9, UnloadedTyped DEF Loaded
<1>11. Settled(x)
  BY <1>1, <1>2, <1>5, <1>7, <1>9, <1>10 DEF Settled
<1>12. Asked(x) /\ Idle(x) /\ Honest(x)
  BY <1>1, <1>6, <1>9 DEF Asked, Idle, Honest
<1>13. row' \in [Keys -> KeyRows]
  BY <1>1, <1>4, <1>7, WrittenRows
<1>14. \A j \in Keys : ~row[j].active /\ row'[j].active => Enables(x.op, j)
  BY <1>1, <1>4, <1>7, <1>9, WrittenRows
<1>15. x # sess[s]
  BY <1>2, <1>9
<1> QED
  BY <1>1, <1>4, <1>8, <1>11, <1>12, <1>13, <1>14, <1>15 DEF Moves, SessOK

LEMMA RefreshMoves ==
    ASSUME AdminInv, NEW s \in Sessions, NEW k \in Keys, NEW ok \in BOOLEAN, Refresh(s, k, ok)
    PROVE  \E x : Moves(s, x)
<1> DEFINE found == ok /\ row[k].status # "absent"
           x == [sess[s] EXCEPT !.pc = "work", !.pend = NoneLoaded, !.bad = IF found THEN @ ELSE @ \cup {k}]
<1>1. /\ sess[s] \in Sess /\ sess = [t \in Sessions |-> sess[t]] /\ Honest(sess[s]) /\ Settled(sess[s])
      /\ Asked(sess[s])
  BY Typed
<1>2. sess[s].pc = "refresh" /\ UNCHANGED <<row, client>>
  BY DEF Refresh, At
<1>3. sess' = [sess EXCEPT ![s] = x]
  BY <1>1 DEF Refresh, Sess
<1> HIDE DEF found
<1>4. x \in Sess
  BY <1>1, UnloadedTyped DEF Sess
<1>5. /\ x.pc = "work" /\ x.op = sess[s].op /\ x.todo = sess[s].todo /\ sess[s].bad \subseteq x.bad
      /\ x.wrote = sess[s].wrote /\ x.own = sess[s].own /\ x.pend = NoneLoaded /\ x.cpend = sess[s].cpend
  BY <1>1 DEF Sess
<1> HIDE DEF x
<1>6. Loaded(x) = {}
  BY <1>5, UnloadedTyped DEF Loaded
<1>7. Settled(x)
  BY <1>1, <1>2, <1>5, <1>6 DEF Settled
<1>8. Asked(x) /\ Idle(x) /\ Honest(x)
  BY <1>1, <1>5, UnloadedTyped, RowKinds DEF Asked, Idle, Honest
<1> QED
  BY <1>2, <1>3, <1>4, <1>7, <1>8, OwnMove DEF SessOK

LEMMA CommitAllMoves ==
    ASSUME AdminInv, NEW s \in Sessions, NEW ok \in BOOLEAN, CommitAll(s, ok)
    PROVE  \E x : Moves(s, x)
<1> DEFINE done == ok /\ Accepted(s)
           x == [sess[s] EXCEPT !.pc = "done", !.pend = NoneLoaded,
                                !.wrote = IF done THEN Dirty(s) ELSE {},
                                !.own = IF done THEN Loaded(sess[s]) ELSE {},
                                !.bad = IF done THEN @ ELSE sess[s].op.keys]
<1>1. /\ sess[s] \in Sess /\ sess = [t \in Sessions |-> sess[t]] /\ Honest(sess[s]) /\ Settled(sess[s])
      /\ row \in [Keys -> KeyRows] /\ client \in [Clients -> ClientRows] /\ sess[s].op \in Operations
      /\ Asked(sess[s]) /\ sess[s].pend \in [Keys -> KeyPairs] /\ sess[s].op.keys \in SUBSET Keys
  BY Typed DEF Sess
<1>2. sess[s].pc = "commit"
  BY DEF CommitAll, At
<1>3. done \in BOOLEAN
  BY DEF Accepted
<1>4. /\ row' = IF done THEN Written(s) ELSE row
      /\ sess' = [sess EXCEPT ![s] = x] /\ client' = client
  BY <1>1 DEF CommitAll, Sess, Loaded
<1>5. Dirty(s) \subseteq Loaded(sess[s]) /\ Loaded(sess[s]) \subseteq Keys
  BY UnloadedTyped DEF Dirty, Loaded
<1>6. NoneLoaded \in [Keys -> KeyPairs]
  BY UnloadedTyped
<1>7. done => Accepted(s)
  BY DEF done
<1> HIDE DEF done
<1>8. x \in Sess
  BY <1>1, <1>5, <1>6 DEF Sess
<1>9. /\ x.op = sess[s].op /\ x.todo = sess[s].todo /\ x.pc = "done" /\ x.pend = NoneLoaded
      /\ x.cpend = sess[s].cpend
      /\ x.bad = IF done THEN sess[s].bad ELSE sess[s].op.keys
      /\ x.wrote = IF done THEN Dirty(s) ELSE {}
      /\ x.own = IF done THEN Loaded(sess[s]) ELSE {}
  BY <1>1 DEF Sess
<1> HIDE DEF x
<1>10. Settled(x)
  BY <1>1, <1>2, <1>5, <1>9 DEF Settled
<1>11. Asked(x) /\ Idle(x) /\ Honest(x)
  BY <1>1, <1>9, UnloadedTyped, RowKinds DEF Asked, Idle, Honest
<1>12. row' \in [Keys -> KeyRows]
  BY <1>1, <1>4, <1>7, WrittenRows
<1>13. \A j \in Keys : ~row[j].active /\ row'[j].active => Enables(x.op, j)
  BY <1>1, <1>4, <1>7, <1>9, WrittenRows
<1>14. x # sess[s]
  BY <1>2, <1>9
<1> QED
  BY <1>1, <1>4, <1>8, <1>10, <1>11, <1>12, <1>13, <1>14 DEF Moves, SessOK

LEMMA LoadAllMoves ==
    ASSUME AdminInv, NEW s \in Sessions, LoadAll(s)
    PROVE  \E x : Moves(s, x)
<1> DEFINE all == [k \in Keys |-> IF row[k].status = "absent" THEN Unloaded
                                  ELSE [old |-> row[k], new |-> QuotaReset(row[k])]]
           x == [sess[s] EXCEPT !.pc = "commit", !.pend = all]
<1>1. /\ sess[s] \in Sess /\ sess = [t \in Sessions |-> sess[t]] /\ Honest(sess[s]) /\ Settled(sess[s])
      /\ row \in [Keys -> KeyRows] /\ client \in [Clients -> ClientRows] /\ sess[s].op \in Operations
      /\ Asked(sess[s]) /\ sess[s].pend \in [Keys -> KeyPairs] /\ sess[s].op.keys \in SUBSET Keys
  BY Typed DEF Sess
<1>2. sess[s].pc = "work" /\ sess[s].op.keys = {} /\ UNCHANGED <<row, client>>
  BY Typed DEF LoadAll, At, Shaped
<1>3. sess' = [sess EXCEPT ![s] = x]
  BY <1>1 DEF LoadAll, Sess
<1>4. ASSUME NEW k \in Keys
      PROVE  all[k] \in KeyPairs /\ (all[k].new.active => all[k].old.active)
  <2>1. CASE row[k].status = "absent"
    BY <2>1, UnloadedTyped, RowKinds
  <2>2. CASE row[k].status # "absent"
    <3>1. row[k] \in FullKeys /\ row[k] \in KeyRows
      BY <1>1, <2>2, RowKinds
    <3>2. QuotaReset(row[k]) \in KeyRows /\ QuotaReset(row[k]).active = row[k].active
      BY <3>1, QuotaResetRow, RowKinds
    <3>3. all[k] = [old |-> row[k], new |-> QuotaReset(row[k])]
      BY <2>2
    <3>4. QED
      BY <3>1, <3>2, <3>3 DEF KeyPairs
  <2>3. QED
    BY <2>1, <2>2
<1>5. all \in [Keys -> KeyPairs] /\ \A k \in Keys : all[k].new.active => all[k].old.active
  BY <1>4
<1> HIDE DEF all
<1>6. x \in Sess
  BY <1>1, <1>5 DEF Sess
<1>7. /\ x.op = sess[s].op /\ x.todo = sess[s].todo /\ x.pc = "commit" /\ x.pend = all
      /\ x.cpend = sess[s].cpend /\ x.bad = sess[s].bad /\ x.wrote = sess[s].wrote /\ x.own = sess[s].own
  BY <1>1 DEF Sess
<1> HIDE DEF x
<1>8. Settled(x)
  BY <1>1, <1>2, <1>7 DEF Settled
<1>9. Asked(x) /\ Idle(x) /\ Honest(x)
  BY <1>1, <1>5, <1>7 DEF Asked, Idle, Honest
<1> QED
  BY <1>2, <1>3, <1>6, <1>8, <1>9, OwnMove DEF SessOK

LEMMA ImportLineMoves ==
    ASSUME AdminInv, NEW s \in Sessions, NEW k \in Keys, NEW ok \in BOOLEAN, ImportLine(s, k, ok)
    PROVE  \E x : Moves(s, x)
<1> DEFINE op == sess[s].op
           given == op.owner \in Clients
           taken == row[k].status # "absent" /\ given /\ row[k].owner \notin {None, op.owner}
           new == IF row[k].status = "absent" THEN Fresh(op)
                  ELSE IF given THEN [row[k] EXCEPT !.owner = op.owner] ELSE row[k]
           p == [old |-> row[k], new |-> new]
           x == [sess[s] EXCEPT !.todo = @ \ {k}, !.pend = [@ EXCEPT ![k] = p]]
           y == [sess[s] EXCEPT !.todo = @ \ {k}, !.bad = @ \cup {k}]
<1>1. /\ sess[s] \in Sess /\ sess = [t \in Sessions |-> sess[t]] /\ Honest(sess[s]) /\ Settled(sess[s])
      /\ row \in [Keys -> KeyRows] /\ client \in [Clients -> ClientRows] /\ sess[s].op \in Operations
      /\ Asked(sess[s]) /\ sess[s].pend \in [Keys -> KeyPairs] /\ sess[s].op.keys \in SUBSET Keys
  BY Typed DEF Sess
<1>2. /\ sess[s].pc = "work" /\ op.kind = "import" /\ k \in sess[s].todo /\ k \in op.keys
      /\ UNCHANGED <<row, client>>
  BY <1>1 DEF ImportLine, At, Asked
<1>3. CASE ok /\ ~taken
  <2>1. sess' = [sess EXCEPT ![s] = x]
    BY <1>1, <1>3 DEF ImportLine, Sess
  <2>2. new \in KeyRows
    <3>1. CASE row[k].status = "absent"
      BY <1>1, <3>1, FreshRow, RowKinds
    <3>2. CASE row[k].status # "absent"
      <4>1. row[k] \in FullKeys
        BY <1>1, <3>2, RowKinds
      <4>2. new \in FullKeys
        BY <3>2, <4>1 DEF FullKeys
      <4>3. QED
        BY <4>2, RowKinds
    <3>3. QED
      BY <3>1, <3>2
  <2> HIDE DEF new
  <2>3. p \in KeyPairs /\ p # Unloaded
    <3>1. p \in KeyPairs /\ p.old = row[k] /\ p.new = new
      BY <1>1, <2>2 DEF KeyPairs
    <3>2. row[k].status = "absent" => new = Fresh(op) /\ new.status # "absent"
      BY <1>1, FreshRow, RowKinds DEF new
    <3>3. QED
      BY <3>1, <3>2, UnloadedTyped, RowKinds
  <2> HIDE DEF p
  <2>4. x \in Sess
    BY <1>1, <2>3 DEF Sess
  <2>5. /\ x.op = op /\ x.todo = sess[s].todo \ {k} /\ x.pc = "work"
        /\ x.pend = [sess[s].pend EXCEPT ![k] = p]
        /\ x.cpend = sess[s].cpend /\ x.bad = sess[s].bad /\ x.wrote = sess[s].wrote /\ x.own = sess[s].own
    BY <1>1, <1>2 DEF Sess
  <2> HIDE DEF x
  <2>6. Loaded(x) = Loaded(sess[s]) \cup {k}
    BY <1>1, <2>3, <2>5 DEF Loaded
  <2>7. Settled(x)
    BY <1>1, <1>2, <2>5, <2>6 DEF Settled, Whole
  <2>8. \A j \in Keys : j # k => x.pend[j] = sess[s].pend[j]
    BY <1>1, <2>5
  <2>9. Enables(op, k)
    BY <1>2 DEF Enables
  <2>10. Honest(x)
    BY <1>1, <2>5, <2>8, <2>9 DEF Honest
  <2>11. Asked(x) /\ Idle(x)
    BY <1>1, <2>5 DEF Asked, Idle
  <2>12. QED
    BY <1>2, <2>1, <2>4, <2>7, <2>10, <2>11, OwnMove DEF SessOK
<1>4. CASE ~(ok /\ ~taken)
  <2>1. sess' = [sess EXCEPT ![s] = y]
    BY <1>1, <1>4 DEF ImportLine, Sess
  <2>2. y \in Sess
    BY <1>1 DEF Sess
  <2>3. /\ y.op = op /\ y.todo = sess[s].todo \ {k} /\ y.pc = "work" /\ y.pend = sess[s].pend
        /\ y.cpend = sess[s].cpend /\ y.bad = sess[s].bad \cup {k} /\ y.wrote = sess[s].wrote /\ y.own = sess[s].own
    BY <1>1, <1>2 DEF Sess
  <2> HIDE DEF y
  <2>4. Loaded(y) = Loaded(sess[s])
    BY <2>3 DEF Loaded
  <2>5. Settled(y)
    BY <1>1, <1>2, <2>3, <2>4 DEF Settled, Whole
  <2>6. Asked(y) /\ Idle(y) /\ Honest(y)
    BY <1>1, <2>3 DEF Asked, Idle, Honest
  <2>7. QED
    BY <1>2, <2>1, <2>2, <2>5, <2>6, OwnMove DEF SessOK
<1> QED
  BY <1>3, <1>4

LEMMA ImportEndsMoves ==
    ASSUME AdminInv, NEW s \in Sessions, ImportEnds(s)
    PROVE  \E x : Moves(s, x)
<1> DEFINE x == [sess[s] EXCEPT !.pc = "commit"]
<1>1. /\ sess[s] \in Sess /\ sess = [t \in Sessions |-> sess[t]] /\ Honest(sess[s]) /\ Settled(sess[s])
      /\ row \in [Keys -> KeyRows] /\ client \in [Clients -> ClientRows] /\ sess[s].op \in Operations
      /\ Asked(sess[s]) /\ sess[s].pend \in [Keys -> KeyPairs] /\ sess[s].op.keys \in SUBSET Keys
  BY Typed DEF Sess
<1>2. sess[s].pc = "work" /\ sess[s].todo = {} /\ sess[s].op.kind \in Whole /\ UNCHANGED <<row, client>>
  BY DEF ImportEnds, At, Whole
<1>3. sess' = [sess EXCEPT ![s] = x]
  BY <1>1 DEF ImportEnds, Sess
<1>5. x \in Sess
  BY <1>1 DEF Sess
<1>6. /\ x.pc = "commit" /\ x.op = sess[s].op /\ x.todo = sess[s].todo /\ x.bad = sess[s].bad
      /\ x.wrote = sess[s].wrote /\ x.own = sess[s].own /\ x.pend = sess[s].pend /\ x.cpend = sess[s].cpend
  BY <1>1, <1>2 DEF Sess
<1> HIDE DEF x
<1>7. Settled(x)
  BY <1>1, <1>2, <1>6 DEF Settled, Loaded
<1>8. Asked(x) /\ Idle(x)
  BY <1>1, <1>2, <1>6 DEF Asked, Idle
<1>9. Honest(x)
  BY <1>1, <1>6 DEF Honest
<1> QED
  BY <1>2, <1>3, <1>5, <1>7, <1>8, <1>9, OwnMove DEF SessOK

LEMMA WorkEndsMoves ==
    ASSUME AdminInv, NEW s \in Sessions, WorkEnds(s)
    PROVE  \E x : Moves(s, x)
<1> DEFINE x == [sess[s] EXCEPT !.pc = IF sess[s].op.test THEN "test" ELSE "done",
                                !.todo = IF sess[s].op.test THEN sess[s].op.keys \ sess[s].bad ELSE {}]
<1>1. /\ sess[s] \in Sess /\ sess = [t \in Sessions |-> sess[t]] /\ Honest(sess[s]) /\ Settled(sess[s])
      /\ row \in [Keys -> KeyRows] /\ client \in [Clients -> ClientRows] /\ sess[s].op \in Operations
      /\ Asked(sess[s]) /\ sess[s].pend \in [Keys -> KeyPairs] /\ sess[s].op.keys \in SUBSET Keys
  BY Typed DEF Sess
<1>2. sess[s].pc = "work" /\ sess[s].todo = {} /\ sess[s].op.kind \notin Whole /\ UNCHANGED <<row, client>>
  BY DEF WorkEnds, At, Whole
<1>3. sess' = [sess EXCEPT ![s] = x]
  BY <1>1 DEF WorkEnds, Sess
<1>5. x \in Sess
  BY <1>1 DEF Sess
<1>6. /\ x.pc \in {"test", "done"} /\ x.todo \subseteq sess[s].op.keys /\ x.op = sess[s].op /\ x.bad = sess[s].bad
      /\ x.wrote = sess[s].wrote /\ x.own = sess[s].own /\ x.pend = sess[s].pend /\ x.cpend = sess[s].cpend
  BY <1>1, <1>2 DEF Sess
<1> HIDE DEF x
<1>7. Settled(x)
  BY <1>1, <1>2, <1>6 DEF Settled, Loaded
<1>8. Asked(x) /\ Idle(x)
  BY <1>1, <1>2, <1>6 DEF Asked, Idle
<1>9. Honest(x)
  BY <1>1, <1>6 DEF Honest
<1> QED
  BY <1>2, <1>3, <1>5, <1>7, <1>8, <1>9, OwnMove DEF SessOK

LEMMA TestLoadMoves ==
    ASSUME AdminInv, NEW s \in Sessions, NEW k \in Keys, TestLoad(s, k)
    PROVE  \E x : Moves(s, x)
<1> DEFINE gone == row[k].status = "absent"
           x == [sess[s] EXCEPT !.todo = @ \ {k}, !.pend = [@ EXCEPT ![k] = Unchanged(row[k])],
                                !.bad = IF gone THEN @ \cup {k} ELSE @]
<1>1. /\ sess[s] \in Sess /\ sess = [t \in Sessions |-> sess[t]] /\ Honest(sess[s]) /\ Settled(sess[s])
      /\ row \in [Keys -> KeyRows] /\ client \in [Clients -> ClientRows] /\ sess[s].op \in Operations
      /\ Asked(sess[s]) /\ sess[s].pend \in [Keys -> KeyPairs] /\ sess[s].op.keys \in SUBSET Keys
  BY Typed DEF Sess
<1>2. sess[s].pc = "test" /\ k \in sess[s].todo /\ UNCHANGED <<row, client>>
  BY DEF TestLoad, At
<1>3. sess' = [sess EXCEPT ![s] = x]
  BY <1>1 DEF TestLoad, Sess
<1> HIDE DEF gone
<1>4. Unchanged(row[k]) \in KeyPairs /\ Unchanged(row[k]).old = Unchanged(row[k]).new
  BY <1>1 DEF KeyPairs, Unchanged
<1>5. x \in Sess
  BY <1>1, <1>4 DEF Sess
<1>6. /\ x.pc = "test" /\ x.todo = sess[s].todo \ {k} /\ x.op = sess[s].op /\ sess[s].bad \subseteq x.bad
      /\ x.wrote = sess[s].wrote /\ x.own = sess[s].own /\ x.cpend = sess[s].cpend
      /\ x.pend = [sess[s].pend EXCEPT ![k] = Unchanged(row[k])]
  BY <1>1, <1>2 DEF Sess
<1> HIDE DEF x
<1>7. Settled(x)
  BY <1>1, <1>2, <1>6 DEF Settled, Loaded
<1>8. Asked(x) /\ Idle(x)
  BY <1>1, <1>2, <1>6 DEF Asked, Idle
<1>9. Honest(x)
  BY <1>1, <1>6, <1>4 DEF Honest
<1> QED
  BY <1>2, <1>3, <1>5, <1>7, <1>8, <1>9, OwnMove DEF SessOK

LEMMA TestsEndMoves ==
    ASSUME AdminInv, NEW s \in Sessions, TestsEnd(s)
    PROVE  \E x : Moves(s, x)
<1> DEFINE x == [sess[s] EXCEPT !.pc = "done"]
<1>1. /\ sess[s] \in Sess /\ sess = [t \in Sessions |-> sess[t]] /\ Honest(sess[s]) /\ Settled(sess[s])
      /\ row \in [Keys -> KeyRows] /\ client \in [Clients -> ClientRows] /\ sess[s].op \in Operations
      /\ Asked(sess[s]) /\ sess[s].pend \in [Keys -> KeyPairs] /\ sess[s].op.keys \in SUBSET Keys
  BY Typed DEF Sess
<1>2. sess[s].pc = "test" /\ UNCHANGED <<row, client>>
  BY DEF TestsEnd, At
<1>3. sess' = [sess EXCEPT ![s] = x]
  BY <1>1 DEF TestsEnd, Sess
<1>5. x \in Sess
  BY <1>1 DEF Sess
<1>6. /\ x.pc = "done" /\ x.op = sess[s].op /\ x.todo = sess[s].todo /\ x.bad = sess[s].bad
      /\ x.wrote = sess[s].wrote /\ x.own = sess[s].own /\ x.pend = sess[s].pend /\ x.cpend = sess[s].cpend
  BY <1>1, <1>2 DEF Sess
<1> HIDE DEF x
<1>7. Settled(x)
  BY <1>1, <1>2, <1>6 DEF Settled, Loaded
<1>8. Asked(x) /\ Idle(x)
  BY <1>1, <1>2, <1>6 DEF Asked, Idle
<1>9. Honest(x)
  BY <1>1, <1>6 DEF Honest
<1> QED
  BY <1>2, <1>3, <1>5, <1>7, <1>8, <1>9, OwnMove DEF SessOK

\* A test never puts a key into service.
LEMMA TestedRow ==
    ASSUME NEW r \in FullKeys, NEW new \in Tested(r)
    PROVE  new \in FullKeys /\ (new.active => r.active)
BY DEF Tested, FullKeys, Statuses

LEMMA TestSaveMoves ==
    ASSUME AdminInv, NEW s \in Sessions, NEW k \in Keys, NEW ok \in BOOLEAN, NEW read \in BOOLEAN,
           TestSave(s, k, ok, read)
    PROVE  \E x : Moves(s, x)
<1> DEFINE p == sess[s].pend[k]
           done == ok /\ row[k].status # "absent"
           x == [sess[s] EXCEPT !.pend = [@ EXCEPT ![k] = Unloaded], !.bad = IF done /\ read THEN @ ELSE @ \cup {k}]
<1>1. /\ sess[s] \in Sess /\ sess = [t \in Sessions |-> sess[t]] /\ Honest(sess[s]) /\ Settled(sess[s])
      /\ row \in [Keys -> KeyRows] /\ client \in [Clients -> ClientRows] /\ sess[s].op \in Operations
      /\ Asked(sess[s]) /\ sess[s].pend \in [Keys -> KeyPairs] /\ sess[s].op.keys \in SUBSET Keys
  BY Typed DEF Sess
<1>2. sess[s].pc = "test" /\ p.old.status # "absent" /\ client' = client
  BY DEF TestSave, At
<1>3. sess' = [sess EXCEPT ![s] = x]
  BY <1>1 DEF TestSave, Sess
<1>8. PICK new \in Tested(p.old) :
        row' = IF done THEN [row EXCEPT ![k] = Merge(@, [old |-> p.old, new |-> new])] ELSE row
  BY DEF TestSave
<1>d. done \in BOOLEAN /\ (done => row[k].status # "absent")
  OBVIOUS
<1> HIDE DEF done
<1>4. x \in Sess
  BY <1>1, UnloadedTyped DEF Sess
<1>5. /\ x.pc = "test" /\ x.todo = sess[s].todo /\ x.op = sess[s].op /\ sess[s].bad \subseteq x.bad
      /\ x.wrote = sess[s].wrote /\ x.own = sess[s].own /\ x.cpend = sess[s].cpend
      /\ x.pend = [sess[s].pend EXCEPT ![k] = Unloaded]
  BY <1>1, <1>2 DEF Sess
<1> HIDE DEF x
<1>6. Settled(x) /\ Asked(x) /\ Idle(x)
  BY <1>1, <1>2, <1>5 DEF Settled, Asked, Idle
<1>7. Honest(x)
  BY <1>1, <1>5, UnloadedTyped, RowKinds DEF Honest
<1>9. p.old \in FullKeys /\ p.old \in KeyRows
  <2>1. p \in KeyPairs
    BY <1>1
  <2>2. p.old \in KeyRows
    BY <2>1 DEF KeyPairs
  <2>3. QED
    BY <1>2, <2>2, RowKinds
<1>10. new \in KeyRows /\ (new.active => p.old.active)
  BY <1>9, TestedRow, RowKinds
<1> DEFINE q == [old |-> p.old, new |-> new]
<1> HIDE DEF p
<1>11. q \in KeyPairs /\ q.old = p.old /\ q.new = new
  BY <1>9, <1>10 DEF KeyPairs
<1> HIDE DEF q
<1>12. row[k].status # "absent" =>
         Merge(row[k], q) \in KeyRows /\ (Merge(row[k], q).active => row[k].active)
  BY <1>1, <1>10, <1>11, MergedRow
<1>13. row' = IF done THEN [row EXCEPT ![k] = Merge(row[k], q)] ELSE row
  BY <1>8 DEF q
<1>14. row' \in [Keys -> KeyRows]
  BY <1>d, <1>1, <1>12, <1>13
<1>15. \A j \in Keys : row'[j].active => row[j].active
  BY <1>d, <1>1, <1>12, <1>13
<1> QED
  BY <1>1, <1>2, <1>3, <1>4, <1>6, <1>7, <1>14, <1>15 DEF Moves, SessOK

LEMMA CreateClientMoves ==
    ASSUME AdminInv, NEW s \in Sessions, NEW op \in Ops, NEW ok \in BOOLEAN, CreateClient(s, op, ok)
    PROVE  \E x : Moves(s, x)
<1> DEFINE x == [sess[s] EXCEPT !.op = op, !.pc = "done"]
<1>1. /\ sess[s] = NoSession /\ sess[s] \in Sess /\ sess = [t \in Sessions |-> sess[t]]
      /\ row \in [Keys -> KeyRows] /\ client \in [Clients -> ClientRows] /\ row' = row
  BY Typed DEF CreateClient, At, Idle
<1>2. op \in Operations /\ op.clients \subseteq Clients /\ op.keys = {}
  BY OpTyped DEF Operations, Shaped, KeyKinds, CreateClient
<1>3. x \in Sess
  BY <1>1 DEF Sess
<1>4. /\ x.op = op /\ x.todo = sess[s].todo /\ x.pc = "done"
      /\ x.bad = sess[s].bad /\ x.wrote = sess[s].wrote /\ x.own = sess[s].own /\ x.pend = sess[s].pend /\ x.cpend = sess[s].cpend
  BY <1>1 DEF Sess
<1>5. sess' = [sess EXCEPT ![s] = x]
  BY <1>1 DEF CreateClient, Sess
<1> HIDE DEF x
<1>6. Settled(x) /\ Asked(x) /\ Idle(x)
  BY <1>1, <1>2, <1>4, UnloadedTyped DEF Settled, Asked, Idle
<1>7. Honest(x)
  BY <1>1, <1>4, UnloadedTyped, RowKinds, ClientKinds DEF Honest
<1> DEFINE r == [active |-> op.active # "no", status |-> IF op.active = "no" THEN "disabled" ELSE "active"]
<1>8. PICK c \in op.clients :
        client' = IF ok /\ client[c].status = "absent" THEN [client EXCEPT ![c] = r] ELSE client
  BY DEF CreateClient
<1>9. r \in ClientRows
  BY DEF ClientRows, ClientStatuses
<1> HIDE DEF r
<1>10. client' \in [Clients -> ClientRows] /\ \A d \in Clients : ~client[d].active /\ client'[d].active => d = c
  BY <1>1, <1>2, <1>8, <1>9
<1>11. Enables(x.op, c) /\ x # sess[s]
  BY <1>1, <1>4, UnloadedTyped DEF Enables, CreateClient
<1> QED
  BY <1>1, <1>3, <1>5, <1>6, <1>7, <1>10, <1>11 DEF Moves, SessOK

LEMMA ActedRow ==
    ASSUME NEW op \in Operations, NEW r \in FullClients
    PROVE  Acted(op, r) \in FullClients /\ (Acted(op, r).active => r.active \/ op.active = "yes")
BY DEF Acted, FullClients, ClientStatuses, Operations

LEMMA ClientLoadMoves ==
    ASSUME AdminInv, NEW s \in Sessions, NEW op \in Ops, ClientLoad(s, op)
    PROVE  \E x : Moves(s, x)
<1> DEFINE found == {c \in op.clients : /\ client[c].status # "absent"
                                        /\ ~(op.kind = "update_client" /\ client[c].status = "deleted")}
           pair(c) == [old |-> client[c],
                       new |-> IF op.kind = "purge_client" THEN NoClient ELSE Acted(op, client[c])]
           all == [c \in Clients |-> IF c \notin found THEN sess[s].cpend[c] ELSE pair(c)]
           x == [sess[s] EXCEPT !.op = op, !.pc = IF found = {} THEN "done" ELSE "client", !.cpend = all]
<1>1. /\ sess[s] = NoSession /\ sess[s] \in Sess /\ sess = [t \in Sessions |-> sess[t]]
      /\ client \in [Clients -> ClientRows] /\ UNCHANGED <<row, client>>
      /\ sess[s].cpend \in [Clients -> ClientPairs]
  BY Typed DEF ClientLoad, At, Idle, Sess
<1>2. op \in Operations /\ op.clients \subseteq Clients /\ op.keys = {}
  BY OpTyped DEF Operations, Shaped, KeyKinds, ClientLoad
<1>3. sess' = [sess EXCEPT ![s] = x]
  BY <1>1 DEF ClientLoad, Sess
<1>4. ASSUME NEW c \in Clients
      PROVE  all[c] \in ClientPairs /\ (all[c].new.active /\ ~all[c].old.active => Enables(op, c))
  <2>1. CASE c \notin found
    BY <1>1, <2>1, UnloadedTyped, ClientKinds
  <2>2. CASE c \in found
    <3>1. c \in op.clients /\ client[c] \in FullClients /\ client[c] \in ClientRows
      BY <1>1, <2>2, ClientKinds
    <3> DEFINE new == IF op.kind = "purge_client" THEN NoClient ELSE Acted(op, client[c])
    <3>2. new \in ClientRows /\ (new.active => client[c].active \/ op.active = "yes")
      BY <1>2, <3>1, ActedRow, ClientKinds
    <3>3. all[c] = [old |-> client[c], new |-> new]
      BY <2>2
    <3> HIDE DEF new, all
    <3>4. all[c] \in ClientPairs /\ all[c].new = new /\ all[c].old = client[c]
      BY <3>1, <3>2, <3>3 DEF ClientPairs
    <3>5. QED
      BY <3>1, <3>2, <3>4 DEF Enables
  <2>3. QED
    BY <2>1, <2>2
<1>5. all \in [Clients -> ClientPairs]
  BY <1>4
<1> HIDE DEF all, found
<1>6. x \in Sess
  BY <1>1, <1>5 DEF Sess
<1>7. /\ x.op = op /\ x.todo = sess[s].todo /\ x.pc \in {"done", "client"}
      /\ x.bad = sess[s].bad /\ x.wrote = sess[s].wrote /\ x.own = sess[s].own /\ x.pend = sess[s].pend /\ x.cpend = all
  BY <1>1 DEF Sess
<1> HIDE DEF x
<1>8. Settled(x) /\ Asked(x) /\ Idle(x)
  BY <1>1, <1>2, <1>7, UnloadedTyped DEF Settled, Asked, Idle
<1>9. Honest(x)
  BY <1>1, <1>4, <1>7, UnloadedTyped, RowKinds DEF Honest
<1> QED
  BY <1>1, <1>3, <1>6, <1>8, <1>9, OwnMove DEF SessOK

LEMMA ClientSaveMoves ==
    ASSUME AdminInv, NEW s \in Sessions, NEW ok \in BOOLEAN, ClientSave(s, ok)
    PROVE  \E x : Moves(s, x)
<1> DEFINE dirty == ClientDirty(s)
           purge == sess[s].op.kind = "purge_client"
           done == /\ ok /\ \A c \in dirty : client[c].status # "absent"
                   /\ ~(purge /\ ForeignKeys /\ dirty \cap Bound # {})
           x == [NoSession EXCEPT !.pc = "done", !.op = sess[s].op]
<1>1. /\ sess[s] \in Sess /\ sess = [t \in Sessions |-> sess[t]] /\ Honest(sess[s]) /\ Settled(sess[s])
      /\ row \in [Keys -> KeyRows] /\ client \in [Clients -> ClientRows]
      /\ sess[s].cpend \in [Clients -> ClientPairs] /\ sess[s].op \in Ops \cup {NoOp}
  BY Typed DEF Sess
<1>2. sess[s].pc = "client" /\ sess' = [sess EXCEPT ![s] = x]
  BY DEF ClientSave, At
<1>3. /\ x \in Sess /\ x.pc = "done" /\ x.op = sess[s].op /\ x.todo = {} /\ x.wrote = {}
      /\ x.pend = [k \in Keys |-> Unloaded]
      /\ \A c \in Clients : x.cpend[c].new = NoClient /\ x.cpend[c].old = NoClient
  BY <1>1, UnloadedTyped DEF Sess
<1>4. /\ client' = IF done THEN [c \in Clients |-> IF c \in dirty THEN Merge(client[c], sess[s].cpend[c])
                                                    ELSE client[c]]
                    ELSE client
      /\ row' = IF done /\ purge
                  THEN [k \in Keys |-> IF row[k].owner \in dirty THEN [row[k] EXCEPT !.owner = None] ELSE row[k]]
                  ELSE row
  BY DEF ClientSave
<1> HIDE DEF x
<1>5. Settled(x) /\ Asked(x) /\ Idle(x)
  BY <1>1, <1>2, <1>3 DEF Settled, Asked, Idle
<1>6. Honest(x)
  BY <1>3, UnloadedTyped, RowKinds, ClientKinds DEF Honest
<1>7. ASSUME NEW c \in Clients
      PROVE  client'[c] \in ClientRows /\ (~client[c].active /\ client'[c].active => Enables(x.op, c))
  <2>1. CASE done /\ c \in dirty
    <3>1. client'[c] = Merge(client[c], sess[s].cpend[c]) /\ client[c].status # "absent"
      BY <1>4, <2>1
    <3>2. client[c] \in ClientRows /\ sess[s].cpend[c] \in ClientPairs
      BY <1>1
    <3>3. QED
      BY <1>1, <1>3, <3>1, <3>2, MergedClient DEF Honest
  <2>2. CASE ~(done /\ c \in dirty)
    BY <1>1, <1>4, <2>2
  <2>3. QED
    BY <2>1, <2>2
<1>8. client' \in [Clients -> ClientRows]
  <2>1. client' = [c \in Clients |-> client'[c]]
    BY <1>1, <1>4
  <2>2. QED
    BY <1>7, <2>1
<1>9. ASSUME NEW k \in Keys
      PROVE  LET r == [row[k] EXCEPT !.owner = None] IN r \in KeyRows /\ r.active = row[k].active
  <2>1. CASE row[k].status # "absent"
    <3>1. row[k] \in FullKeys
      BY <1>1, <2>1, RowKinds
    <3>2. QED
      BY <3>1, RowKinds DEF FullKeys
  <2>2. CASE row[k].status = "absent"
    <3>1. row[k] = Absent
      BY <1>1, <2>2, RowKinds
    <3>2. Absent = [c \in DOMAIN Absent |-> Absent[c]] /\ "owner" \in DOMAIN Absent /\ Absent["owner"] = None
      BY DEF Absent
    <3>3. [Absent EXCEPT !.owner = None] = Absent
      BY <3>2
    <3>4. QED
      BY <3>1, <3>3, RowKinds
  <2>3. QED
    BY <2>1, <2>2
<1>10. row' \in [Keys -> KeyRows] /\ \A k \in Keys : row'[k].active = row[k].active
  <2> HIDE DEF done, dirty, purge
  <2> QED
    BY <1>1, <1>4, <1>9
<1>11. x # sess[s]
  BY <1>2, <1>3
<1> QED
  BY <1>2, <1>3, <1>5, <1>6, <1>7, <1>8, <1>10, <1>11 DEF Moves, SessOK
-----------------------------------------------------------------------------
\* Theorems.

LEMMA StepMoves ==
    ASSUME AdminInv, NEW s \in Sessions, AdminStep(s)
    PROVE  \E x : Moves(s, x)
<1>1. Outcomes \subseteq BOOLEAN
  BY DEF Outcomes
<1> QED
  BY <1>1, BeginMoves, CreateKeyMoves, LoadMoves, SaveMoves, RefreshMoves, LoadAllMoves, ImportLineMoves, ImportEndsMoves,
     CommitAllMoves, WorkEndsMoves, TestLoadMoves, TestSaveMoves, TestsEndMoves, CreateClientMoves,
     ClientLoadMoves, ClientSaveMoves, Zenon DEF AdminStep

LEMMA InvariantStep ==
    ASSUME AdminInv, [AdminNext]_adminVars
    PROVE  AdminInv'
<1>1. CASE UNCHANGED adminVars
  BY <1>1 DEF AdminInv, adminVars
<1>2. ASSUME NEW s \in Sessions, AdminStep(s)
      PROVE  AdminInv'
  <2>1. PICK x : Moves(s, x)
    BY <1>2, StepMoves
  <2>2. /\ sess' = [sess EXCEPT ![s] = x] /\ SessOK(x) /\ sess = [t \in Sessions |-> sess[t]]
        /\ \A t \in Sessions : SessOK(sess[t])
    BY <2>1 DEF Moves, AdminInv
  <2>3. sess' = [t \in Sessions |-> sess'[t]]
    BY <2>2
  <2>4. ASSUME NEW t \in Sessions PROVE SessOK(sess'[t])
    <3>1. CASE t = s
      <4>1. sess'[t] = x
        BY <2>2, <3>1
      <4>2. QED
        BY <2>2, <4>1
    <3>2. CASE t # s
      <4>1. sess'[t] = sess[t]
        BY <2>2, <3>2
      <4>2. QED
        BY <2>2, <4>1
    <3>3. QED
      BY <3>1, <3>2
  <2>5. QED
    BY <2>1, <2>3, <2>4 DEF AdminInv, Moves
<1> QED
  BY <1>1, <1>2 DEF AdminNext, AdminQuiet

\* The handlers keep rows rows, lose no key of a request between to do, in
\* hand, failed and committed, write by own commits only, and put a copy into
\* service only if asked.
THEOREM AdminInvariant == AdminSpec => []AdminInv
<1>1. AdminInit => AdminInv
  <2> SUFFICES ASSUME AdminInit PROVE AdminInv
    OBVIOUS
  <2>1. [Absent EXCEPT !.active = TRUE, !.status = "active"] \in KeyRows
    BY DEF Absent, KeyRows, Statuses
  <2>2. row \in [Keys -> KeyRows]
    BY <2>1, RowKinds DEF AdminInit
  <2>3. client \in [Clients -> ClientRows]
    <3>1. /\ [active |-> TRUE, status |-> "active"] \in ClientRows
          /\ [active |-> FALSE, status |-> "disabled"] \in ClientRows
      BY DEF ClientRows, ClientStatuses
    <3>2. QED
      BY <3>1 DEF AdminInit
  <2>4. SessOK(NoSession)
    <3>1. Loaded(NoSession) = {}
      BY UnloadedTyped DEF Loaded
    <3>2. Settled(NoSession) /\ Asked(NoSession) /\ Idle(NoSession)
      BY <3>1, UnloadedTyped DEF Settled, Asked, Idle
    <3>3. Honest(NoSession)
      BY UnloadedTyped, RowKinds, ClientKinds DEF Honest
    <3>4. QED
      BY <3>2, <3>3, UnloadedTyped DEF SessOK
  <2>5. QED
    BY <2>2, <2>3, <2>4 DEF AdminInit, AdminInv
<1>2. AdminInv /\ [AdminNext]_adminVars => AdminInv'
  BY InvariantStep
<1> QED
  BY <1>1, <1>2, PTL DEF AdminSpec

\* Rows and requests keep their form: no handler stores a column the schema
\* does not have.
THEOREM AdminTyped == AdminSpec => []AdminTypeOK
<1>1. AdminInv => AdminTypeOK
  <2> SUFFICES ASSUME AdminInv PROVE AdminTypeOK
    OBVIOUS
  <2>1. ASSUME NEW s \in Sessions
        PROVE  /\ sess[s] \in Sess
               /\ \A k \in Keys : sess[s].pend[k] \in KeyPairs
               /\ \A c \in Clients : sess[s].cpend[c] \in ClientPairs
    BY DEF AdminInv, SessOK, Sess
  <2>2. QED
    BY <2>1 DEF AdminInv, AdminTypeOK, Sess, KeyPairs, ClientPairs
<1> QED
  BY <1>1, AdminInvariant, PTL

\* A request writes a key only by the commit that is the key's own, and has
\* committed every key that it does not report as failed (control_plane.py
\* 495-580, 1030-1172).
THEOREM AdminOwnCommitOnly == AdminSpec => []OwnCommitOnly
<1>1. AdminInv => OwnCommitOnly
  BY DEF AdminInv, SessOK, Settled, OwnCommitOnly, At
<1> QED
  BY <1>1, AdminInvariant, PTL

\* Out-of-date copies never put a key or a client back into service (601-665,
\* 1257-1289).
THEOREM AdminOnlyEnablingRevives == AdminSpec => OnlyEnablingRevives
<1>1. AdminInv /\ [AdminNext]_adminVars =>
        [\A x \in Revived : \E s \in Sessions :
          /\ sess'[s] # sess[s] /\ x \in sess'[s].op.keys \cup sess'[s].op.clients
          /\ sess'[s].op.active = "yes" \/ sess'[s].op.kind \in {"create", "import", "create_client"}]_adminVars
  <2> SUFFICES ASSUME AdminInv, AdminNext, ~UNCHANGED adminVars, NEW y \in Revived
               PROVE  \E s \in Sessions :
                        /\ sess'[s] # sess[s] /\ y \in sess'[s].op.keys \cup sess'[s].op.clients
                        /\ \/ sess'[s].op.active = "yes"
                           \/ sess'[s].op.kind \in {"create", "import", "create_client"}
    BY DEF adminVars
  <2>1. PICK s \in Sessions : AdminStep(s)
    BY DEF AdminNext, AdminQuiet
  <2>2. PICK x : Moves(s, x)
    BY <2>1, StepMoves
  <2>3. sess'[s] = x
    BY <2>2 DEF Moves, AdminInv
  <2>4. Enables(x.op, y) /\ x # sess[s]
    BY <2>2 DEF Revived, Moves
  <2>5. QED
    BY <2>3, <2>4 DEF Enables
<1> QED
  BY <1>1, AdminInvariant, PTL DEF AdminSpec, OnlyEnablingRevives
=============================================================================
