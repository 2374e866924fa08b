------------------------- MODULE IdempotencyProofs -------------------------
(***************************************************************************)
(* Idempotent creation is correct for every set of requests, keys and      *)
(* bodies, every lifetime of a record and every number of attempts,        *)
(* whatever commits fail and whenever the retention job runs.  That a key  *)
(* is exclusive holds with either database; that an answer belongs to the  *)
(* request needs ids that are never given twice (module Idempotency's      *)
(* ReuseIds, run v_reuse).                                                 *)
(***************************************************************************)
EXTENDS Idempotency, WellFoundedInduction, TLAPS

\* What the place of a request says about its local variables: attempts are
\* left while it may call, a record is only asked for with a key, and its
\* clock reading is not ahead of the clock.
PathOf(r) ==
    /\ req[r].pc \in {"start", "cleaned", "lookup", "forward"} => req[r].sends < Attempts
    /\ req[r].pc \in {"cleaned", "lookup"} => Key[r] # NoKey
    /\ req[r].stamp <= now

IdsKnown == \A rec \in recs : rec.id \in 1..lastId

TypeInv == TypeOK /\ IdsKnown /\ \A r \in Requests : PathOf(r)

\* The new row of r.
NewRec(r) == [id |-> FreshId, key |-> Key[r], hash |-> Payload[r], status |-> "in_progress",
              response |-> NoKey, expires |-> req[r].stamp + Ttl, owner |-> r]

\* The id of a new row is an id, and a sequence never gives one twice.
LEMMA FreshIdTyped ==
    ASSUME lastId \in Nat, IdsKnown
    PROVE  /\ FreshId \in Nat \ {0}
           /\ ~ReuseIds => FreshId = lastId + 1
<1> DEFINE gaps == {lastId - rec.id : rec \in recs}
<1>1. CASE ~ReuseIds
  BY <1>1 DEF FreshId
<1>2. CASE ReuseIds
  <2>1. \E n \in 0..lastId : (\A rec \in recs : rec.id <= n) /\ (n = 0 \/ \E rec \in recs : rec.id = n)
    <3>1. CASE recs = {}
      BY <3>1
    <3>2. CASE recs # {}
      <4>1. gaps \subseteq Nat /\ gaps # {}
        BY <3>2 DEF IdsKnown
      <4>2. PICK x \in gaps : \A y \in gaps : ~(<<y, x>> \in OpToRel(<, Nat))
        BY <4>1, NatLessThanWellFounded, WFMin
      <4>3. ASSUME NEW y \in gaps PROVE x <= y
        <5>1. x \in Nat /\ y \in Nat
          BY <4>1
        <5>2. ~(y < x)
          BY <5>1, <4>2 DEF OpToRel
        <5>3. QED
          BY <5>1, <5>2
      <4>4. PICK last \in recs : x = lastId - last.id
        BY <4>2
      <4>5. ASSUME NEW rec \in recs PROVE rec.id <= last.id
        <5>1. x <= lastId - rec.id
          BY <4>3
        <5>2. rec.id \in Nat /\ last.id \in Nat
          BY DEF IdsKnown
        <5>3. QED
          BY <5>1, <5>2, <4>4
      <4>6. last.id \in 0..lastId
        BY <4>4 DEF IdsKnown
      <4>7. QED
        BY <4>5, <4>6
    <3>3. QED
      BY <3>1, <3>2
  <2>2. MaxId \in 0..lastId
    BY <2>1 DEF MaxId
  <2>3. QED
    BY <1>2, <2>2 DEF FreshId
<1>3. QED
  BY <1>1, <1>2

\* Type correctness (the IdempotencyRecord table and the locals of
\* start_or_replay and forward): a forward never calls more than Attempts
\* times, and a record is only made for a request that names a key.
THEOREM IdempotencyTypeInv == Spec => []TypeInv
<1>consts. /\ NoKey \notin IdemKeys /\ Key \in [Requests -> IdemKeys \cup {NoKey}]
           /\ Attempts \in Nat \ {0} /\ Ttl \in Nat \ {0}
  BY IdempotencyAssumption
<1>init. Init => TypeInv
  <2> SUFFICES ASSUME Init PROVE TypeInv
    OBVIOUS
  <2> DEFINE x == [pc |-> "start", stamp |-> 0, ctx |-> 0, sends |-> 0, result |-> "pending", response |-> NoKey]
  <2>1. x \in Req /\ 0 < Attempts
    BY <1>consts DEF Req, Results
  <2>2. req = [r \in Requests |-> x] /\ recs = {} /\ lastId = 0 /\ now = 0
    BY DEF Init
  <2>3. QED
    BY <2>1, <2>2 DEF TypeInv, TypeOK, IdsKnown, PathOf
<1>step. TypeInv /\ [Next]_vars => TypeInv'
  <2> SUFFICES ASSUME TypeInv, [Next]_vars PROVE TypeInv'
    OBVIOUS
  <2>typed. /\ recs \subseteq Rec /\ lastId \in Nat /\ now \in Nat
            /\ req \in [Requests -> Req] /\ IdsKnown /\ \A r \in Requests : PathOf(r)
    BY DEF TypeInv, TypeOK
  \* A step of r: r's record stays typed, the rest is judged by the step.
  <2>frame. ASSUME NEW r \in Requests, NEW x \in Req, req' = [req EXCEPT ![r] = x], now' = now,
                   recs' \subseteq Rec, lastId' \in Nat, IdsKnown',
                   x.pc \in {"start", "cleaned", "lookup", "forward"} => x.sends < Attempts,
                   x.pc \in {"cleaned", "lookup"} => Key[r] # NoKey, x.stamp <= now
        PROVE  TypeInv'
    <3>1. req' \in [Requests -> Req]
      BY <2>frame, <2>typed
    <3>2. ASSUME NEW q \in Requests PROVE PathOf(q)'
      BY <2>frame, <2>typed DEF PathOf
    <3>3. QED
      BY <3>1, <3>2, <2>frame, <2>typed DEF TypeInv, TypeOK
  <2>fewer. ASSUME recs' \subseteq recs, lastId' = lastId
        PROVE  recs' \subseteq Rec /\ lastId' \in Nat /\ IdsKnown'
    BY <2>fewer, <2>typed DEF IdsKnown
  <2>local. ASSUME NEW r \in Requests PROVE req[r] \in Req /\ PathOf(r)
    BY <2>typed
  <2>stutter. CASE UNCHANGED vars
    BY <2>stutter, <2>typed DEF vars, TypeInv, TypeOK, IdsKnown, PathOf
  <2>ended. ASSUME NEW r \in Requests, NEW result \in Results, End(r, result), UNCHANGED <<lastId, now>>,
                   recs' \subseteq recs
        PROVE  TypeInv'
    <3> DEFINE x == [req[r] EXCEPT !.pc = "done", !.result = result]
    <3>1. x \in Req /\ x.pc = "done" /\ x.stamp = req[r].stamp
      BY <2>ended, <2>local DEF Req
    <3>2. req' = [req EXCEPT ![r] = x]
      BY <2>ended, <2>typed DEF End
    <3>3. QED
      BY <3>1, <3>2, <2>ended, <2>frame, <2>fewer, <2>local DEF PathOf
  <2>keyless. ASSUME NEW r \in Requests, Keyless(r)
        PROVE  TypeInv'
    <3>1. CASE r \in Required
      BY <3>1, <2>keyless, <2>ended DEF Keyless, Results
    <3>2. CASE r \notin Required
      <4> DEFINE x == [req[r] EXCEPT !.pc = "forward"]
      <4>1. x \in Req /\ x.pc = "forward" /\ x.stamp = req[r].stamp /\ x.sends = req[r].sends
        BY <2>local DEF Req
      <4>2. req' = [req EXCEPT ![r] = x] /\ req[r].pc = "start" /\ UNCHANGED <<recs, lastId, now>>
        BY <3>2, <2>keyless, <2>typed DEF Keyless
      <4>3. QED
        BY <4>1, <4>2, <2>frame, <2>fewer, <2>local DEF PathOf
    <3>3. QED
      BY <3>1, <3>2
  <2>cleanup. ASSUME NEW r \in Requests, NEW ok \in Outcomes, Cleanup(r, ok)
        PROVE  TypeInv'
    <3> DEFINE x == [req[r] EXCEPT !.pc = "cleaned", !.stamp = now]
    <3>1. x \in Req /\ x.pc = "cleaned" /\ x.stamp = now /\ x.sends = req[r].sends
      BY <2>local, <2>typed DEF Req
    <3>2. req' = [req EXCEPT ![r] = x] /\ req[r].pc = "start" /\ Key[r] # NoKey /\ UNCHANGED <<lastId, now>>
      BY <2>cleanup, <2>typed DEF Cleanup
    <3>3. recs' \subseteq recs
      BY <2>cleanup DEF Cleanup
    <3>4. x.stamp <= now /\ x.sends < Attempts
      BY <3>1, <3>2, <2>local, <2>typed DEF PathOf
    <3>5. QED
      BY <3>1, <3>2, <3>3, <3>4, <2>frame, <2>fewer
  <2>insert. ASSUME NEW r \in Requests, Insert(r)
        PROVE  TypeInv'
    <3> DEFINE x == [req[r] EXCEPT !.pc = "forward", !.ctx = FreshId]
    <3>1. FreshId \in Nat \ {0}
      BY <2>typed, FreshIdTyped
    <3>2. x \in Req /\ x.pc = "forward" /\ x.stamp = req[r].stamp /\ x.sends = req[r].sends
      BY <3>1, <2>local DEF Req
    <3>3. /\ req' = [req EXCEPT ![r] = x] /\ req[r].pc = "cleaned" /\ now' = now
          /\ recs' = recs \cup {NewRec(r)} /\ lastId' = IF FreshId > lastId THEN FreshId ELSE lastId
      BY <2>insert, <2>typed DEF Insert, NewRec
    <3>4. lastId' \in Nat /\ lastId' >= lastId /\ FreshId \in 1..lastId'
      BY <3>1, <3>3, <2>typed
    <3>5. Key[r] \in IdemKeys /\ req[r].stamp + Ttl \in Nat
      BY <3>3, <2>local, <1>consts DEF PathOf, Req
    <3>6. NewRec(r) \in Rec /\ NewRec(r).id = FreshId
      BY <3>1, <3>5 DEF NewRec, Rec
    <3>7. IdsKnown' /\ recs' \subseteq Rec
      BY <3>3, <3>4, <3>6, <2>typed DEF IdsKnown, Rec
    <3>8. QED
      BY <3>2, <3>3, <3>4, <3>7, <2>frame, <2>local DEF PathOf
  <2>insertFails. ASSUME NEW r \in Requests, InsertFails(r)
        PROVE  TypeInv'
    <3> DEFINE x == [req[r] EXCEPT !.pc = "lookup"]
    <3>1. CASE End(r, "DB_UNAVAILABLE")
      BY <3>1, <2>insertFails, <2>ended DEF InsertFails, Results
    <3>2. CASE req' = [req EXCEPT ![r].pc = "lookup"]
      <4>1. x \in Req /\ x.pc = "lookup" /\ x.stamp = req[r].stamp /\ x.sends = req[r].sends
        BY <2>local DEF Req
      <4>2. req' = [req EXCEPT ![r] = x] /\ req[r].pc = "cleaned" /\ UNCHANGED <<recs, lastId, now>>
        BY <3>2, <2>insertFails, <2>typed DEF InsertFails
      <4>3. QED
        BY <4>1, <4>2, <2>frame, <2>fewer, <2>local DEF PathOf
    <3>3. QED
      BY <3>1, <3>2, <2>insertFails DEF InsertFails
  <2>gone. ASSUME NEW r \in Requests, LookupGone(r)
        PROVE  TypeInv'
    BY <2>gone, <2>ended DEF LookupGone, Results
  <2>expired. ASSUME NEW r \in Requests, NEW ok \in Outcomes, LookupExpired(r, ok)
        PROVE  TypeInv'
    <3>1. recs' \subseteq recs /\ UNCHANGED <<lastId, now>> /\ req[r].pc = "lookup"
      BY <2>expired DEF LookupExpired
    <3>2. CASE End(r, "DB_UNAVAILABLE")
      BY <3>1, <3>2, <2>ended DEF Results
    <3>3. CASE req' = [req EXCEPT ![r].pc = "start"]
      <4> DEFINE x == [req[r] EXCEPT !.pc = "start"]
      <4>1. x \in Req /\ x.pc = "start" /\ x.stamp = req[r].stamp /\ x.sends = req[r].sends
        BY <2>local DEF Req
      <4>2. req' = [req EXCEPT ![r] = x]
        BY <3>3, <2>typed
      <4>3. QED
        BY <3>1, <4>1, <4>2, <2>frame, <2>fewer, <2>local DEF PathOf
    <3>4. QED
      BY <3>2, <3>3, <2>expired DEF LookupExpired
  <2>live. ASSUME NEW r \in Requests, LookupLive(r)
        PROVE  TypeInv'
    <3>1. PICK result \in Results, response \in Requests \cup {NoKey} :
             req' = [req EXCEPT ![r] = [@ EXCEPT !.pc = "done", !.result = result, !.response = response]]
      <4>1. PICK rec \in recs : req' = [req EXCEPT ![r] = [@ EXCEPT !.pc = "done",
                !.result = IF ~SameRequest(rec, r) THEN "IDEMPOTENCY_KEY_CONFLICT"
                           ELSE IF rec.status = "completed" THEN "replayed"
                           ELSE "IDEMPOTENCY_IN_PROGRESS",
                !.response = IF SameRequest(rec, r) /\ rec.status = "completed"
                             THEN rec.response ELSE NoKey]]
        BY <2>live DEF LookupLive
      <4>2. rec.response \in Requests \cup {NoKey}
        BY <2>typed DEF Rec
      <4>3. QED
        BY <4>1, <4>2 DEF Results
    <3> DEFINE x == [req[r] EXCEPT !.pc = "done", !.result = result, !.response = response]
    <3>2. x \in Req /\ x.pc = "done" /\ x.stamp = req[r].stamp
      BY <2>local DEF Req
    <3>3. req' = [req EXCEPT ![r] = x] /\ UNCHANGED <<recs, lastId, now>>
      BY <3>1, <2>live, <2>typed DEF LookupLive
    <3>4. QED
      BY <3>2, <3>3, <2>frame, <2>fewer, <2>local DEF PathOf
  <2>answers. ASSUME NEW r \in Requests, UpstreamAnswers(r)
        PROVE  TypeInv'
    <3> DEFINE x == [req[r] EXCEPT !.pc = "complete", !.sends = req[r].sends + 1]
    <3>1. req[r].pc = "forward" /\ UNCHANGED <<recs, lastId, now>> /\ req' = [req EXCEPT ![r] = x]
      BY <2>answers, <2>typed DEF UpstreamAnswers
    <3>2. req[r].sends + 1 \in 0..Attempts
      BY <3>1, <2>local, <1>consts DEF PathOf, Req
    <3>3. x \in Req /\ x.pc = "complete" /\ x.stamp = req[r].stamp
      BY <3>2, <2>local DEF Req
    <3>4. QED
      BY <3>1, <3>3, <2>frame, <2>fewer, <2>local DEF PathOf
  <2>fails. ASSUME NEW r \in Requests, UpstreamFails(r)
        PROVE  TypeInv'
    <3>1. req[r].pc = "forward" /\ UNCHANGED <<recs, lastId, now>>
      BY <2>fails DEF UpstreamFails
    <3>2. req[r].sends + 1 \in 0..Attempts
      BY <3>1, <2>local, <1>consts DEF PathOf, Req
    <3>3. CASE AttemptsLeft(r)
      <4> DEFINE x == [req[r] EXCEPT !.sends = req[r].sends + 1]
      <4>1. req' = [req EXCEPT ![r].sends = req[r].sends + 1, ![r].pc = "forward", ![r].result = req[r].result]
        BY <3>3, <2>fails, <2>typed DEF UpstreamFails
      <4>2. req' = [req EXCEPT ![r] = x]
        BY <4>1, <3>1, <2>typed DEF Req
      <4>3. x \in Req /\ x.pc = "forward" /\ x.stamp = req[r].stamp /\ x.sends < Attempts
        BY <3>1, <3>2, <3>3, <2>local DEF Req, AttemptsLeft
      <4>4. QED
        BY <3>1, <4>2, <4>3, <2>frame, <2>fewer, <2>local DEF PathOf
    <3>4. CASE ~AttemptsLeft(r)
      <4> DEFINE x == [req[r] EXCEPT !.sends = req[r].sends + 1, !.pc = "done", !.result = "UPSTREAM"]
      <4>1. req' = [req EXCEPT ![r] = x]
        BY <3>4, <2>fails, <2>typed DEF UpstreamFails
      <4>2. x \in Req /\ x.pc = "done" /\ x.stamp = req[r].stamp
        BY <3>2, <2>local DEF Req, Results
      <4>3. QED
        BY <3>1, <4>1, <4>2, <2>frame, <2>fewer, <2>local DEF PathOf
    <3>5. QED
      BY <3>3, <3>4
  <2>complete. ASSUME NEW r \in Requests, NEW ok \in Outcomes, Complete(r, ok)
        PROVE  TypeInv'
    <3> DEFINE x == [req[r] EXCEPT !.pc = "done", !.result = "created", !.response = r]
    <3>1. req' = [req EXCEPT ![r] = x] /\ UNCHANGED <<lastId, now>>
      BY <2>complete, <2>typed DEF Complete
    <3>2. x \in Req /\ x.pc = "done" /\ x.stamp = req[r].stamp
      BY <2>local DEF Req, Results
    <3>3. ASSUME NEW rec \in Rec PROVE Completed(rec, r) \in Rec /\ Completed(rec, r).id = rec.id
      BY DEF Completed, Rec
    <3>4. recs' \subseteq Rec /\ IdsKnown'
      BY <3>1, <3>3, <2>complete, <2>typed DEF Complete, IdsKnown
    <3>5. QED
      BY <3>1, <3>2, <3>4, <2>frame, <2>typed, <2>local DEF PathOf
  <2>retention. CASE Retention
    BY <2>retention, <2>typed, <2>fewer DEF Retention, TypeInv, TypeOK, PathOf
  <2>tick. CASE Tick
    <3>1. now' = now + 1 /\ UNCHANGED <<recs, lastId, req>>
      BY <2>tick DEF Tick
    <3>2. ASSUME NEW q \in Requests PROVE PathOf(q)'
      BY <3>1, <2>local, <2>typed DEF PathOf, Req
    <3>3. QED
      BY <3>1, <3>2, <2>typed, <2>fewer DEF TypeInv, TypeOK
  <2> QED
    BY <2>stutter, <2>keyless, <2>cleanup, <2>insert, <2>insertFails, <2>gone, <2>expired, <2>live,
       <2>answers, <2>fails, <2>complete, <2>retention, <2>tick DEF Next, Step
<1> QED
  BY <1>init, <1>step, PTL DEF Spec

\* Type correctness, as the runs check it.
THEOREM IdempotencyTypeOK == Spec => []TypeOK
<1>1. TypeInv => TypeOK
  BY DEF TypeInv
<1> QED
  BY <1>1, IdempotencyTypeInv, PTL
-----------------------------------------------------------------------------
\* The unique constraint, and what a request under way may rely on: until it
\* runs out, the row of its key is there and is its own.
UniqueKeys == \A rec, other \in recs : rec.key = other.key => rec = other

Owns(r, rec) == rec.key = Key[r] /\ rec.owner = r /\ rec.expires = req[r].stamp + Ttl

OwnsRecord ==
    \A r \in Requests : InFlight(r) /\ now <= req[r].stamp + Ttl => \E rec \in recs : Owns(r, rec)

OwnInv == UniqueKeys /\ OwnsRecord

\* The steps that neither add nor change a row: what they delete has expired,
\* nobody enters the forward with a key or is given a row, and who is done
\* stays as it is.
Keeps(q) ==
    /\ InFlight(q)' => InFlight(q) /\ req'[q].stamp = req[q].stamp
    /\ req'[q].ctx = req[q].ctx
    /\ req[q].pc = "done" => req'[q] = req[q]

Prunes ==
    /\ recs' \subseteq recs
    /\ \A rec \in recs : ~Expired(rec, now) => rec \in recs'
    /\ now' = now
    /\ \A q \in Requests : Keeps(q)

LEMMA PruningSteps ==
    ASSUME TypeInv, NEW r \in Requests,
           \/ Keyless(r) \/ InsertFails(r) \/ LookupGone(r) \/ LookupLive(r)
           \/ UpstreamAnswers(r) \/ UpstreamFails(r)
           \/ \E ok \in Outcomes : Cleanup(r, ok) \/ LookupExpired(r, ok)
    PROVE  Prunes
<1>typed. /\ recs \subseteq Rec /\ lastId \in Nat /\ now \in Nat
          /\ req \in [Requests -> Req] /\ \A q \in Requests : PathOf(q)
  BY DEF TypeInv, TypeOK
<1>local. req[r] \in Req /\ req[r].stamp \in Nat /\ req[r].stamp <= now
  BY <1>typed DEF PathOf, Req
<1>notDone. req[r].pc # "done"
  BY DEF Keyless, InsertFails, LookupGone, LookupLive, UpstreamAnswers, UpstreamFails, Cleanup, LookupExpired
<1>moved. ASSUME NEW x, req' = [req EXCEPT ![r] = x], x.ctx = req[r].ctx,
                 Key[r] = NoKey \/ x.pc \notin {"forward", "complete"}
                   \/ (req[r].pc = "forward" /\ x.stamp = req[r].stamp)
          PROVE  \A q \in Requests : Keeps(q)
  BY <1>moved, <1>typed, <1>notDone DEF InFlight, Keeps
<1>same. ASSUME UNCHANGED <<recs, now>>
         PROVE  recs' \subseteq recs /\ (\A rec \in recs : ~Expired(rec, now) => rec \in recs') /\ now' = now
  BY <1>same
<1>ended. ASSUME NEW result, End(r, result)
          PROVE  \A q \in Requests : Keeps(q)
  <2> DEFINE x == [req[r] EXCEPT !.pc = "done", !.result = result]
  <2>1. req' = [req EXCEPT ![r] = x] /\ x.pc = "done" /\ x.ctx = req[r].ctx
    BY <1>ended, <1>typed DEF End, Req
  <2>2. QED
    BY <2>1, <1>moved
<1>keyless. CASE Keyless(r)
  <2>1. CASE r \in Required
    BY <2>1, <1>keyless, <1>ended, <1>same DEF Keyless, Prunes
  <2>2. CASE r \notin Required
    <3> DEFINE x == [req[r] EXCEPT !.pc = "forward"]
    <3>1. req' = [req EXCEPT ![r] = x] /\ Key[r] = NoKey /\ x.ctx = req[r].ctx
      BY <2>2, <1>keyless, <1>typed DEF Keyless, Req
    <3>2. QED
      BY <3>1, <1>keyless, <1>moved, <1>same DEF Keyless, Prunes
  <2>3. QED
    BY <2>1, <2>2
<1>insertFails. CASE InsertFails(r)
  <2>1. CASE End(r, "DB_UNAVAILABLE")
    BY <2>1, <1>insertFails, <1>ended, <1>same DEF InsertFails, Prunes
  <2>2. CASE req' = [req EXCEPT ![r].pc = "lookup"]
    <3> DEFINE x == [req[r] EXCEPT !.pc = "lookup"]
    <3>1. req' = [req EXCEPT ![r] = x] /\ x.pc = "lookup" /\ x.ctx = req[r].ctx
      BY <2>2, <1>typed DEF Req
    <3>2. QED
      BY <3>1, <1>insertFails, <1>moved, <1>same DEF InsertFails, Prunes
  <2>3. QED
    BY <2>1, <2>2, <1>insertFails DEF InsertFails
<1>gone. CASE LookupGone(r)
  BY <1>gone, <1>ended, <1>same DEF LookupGone, Prunes
<1>live. CASE LookupLive(r)
  <2>1. \E x : req' = [req EXCEPT ![r] = x] /\ x.pc = "done" /\ x.ctx = req[r].ctx
    <3>1. PICK result, response :
             req' = [req EXCEPT ![r] = [req[r] EXCEPT !.pc = "done", !.result = result, !.response = response]]
      BY <1>live, <1>typed DEF LookupLive
    <3> DEFINE x == [req[r] EXCEPT !.pc = "done", !.result = result, !.response = response]
    <3>2. x.pc = "done" /\ x.ctx = req[r].ctx
      BY <1>local DEF Req
    <3>3. QED
      BY <3>1, <3>2
  <2>2. QED
    BY <2>1, <1>live, <1>moved, <1>same DEF LookupLive, Prunes
<1>answers. CASE UpstreamAnswers(r)
  <2> DEFINE x == [req[r] EXCEPT !.pc = "complete", !.sends = req[r].sends + 1]
  <2>1. req' = [req EXCEPT ![r] = x] /\ req[r].pc = "forward"
    BY <1>answers, <1>typed DEF UpstreamAnswers
  <2>2. x.ctx = req[r].ctx /\ x.stamp = req[r].stamp
    BY <1>local DEF Req
  <2>3. QED
    BY <2>1, <2>2, <1>answers, <1>moved, <1>same DEF UpstreamAnswers, Prunes
<1>fails. CASE UpstreamFails(r)
  <2>1. PICK pc, result :
           req' = [req EXCEPT ![r] = [req[r] EXCEPT !.sends = req[r].sends + 1, !.pc = pc, !.result = result]]
    BY <1>fails, <1>typed DEF UpstreamFails
  <2> DEFINE x == [req[r] EXCEPT !.sends = req[r].sends + 1, !.pc = pc, !.result = result]
  <2>2. x.ctx = req[r].ctx /\ x.stamp = req[r].stamp /\ req[r].pc = "forward"
    BY <1>local, <1>fails DEF Req, UpstreamFails
  <2>3. QED
    BY <2>1, <2>2, <1>fails, <1>moved, <1>same DEF UpstreamFails, Prunes
<1>cleanup. ASSUME NEW ok \in Outcomes, Cleanup(r, ok)
      PROVE  Prunes
  <2> DEFINE x == [req[r] EXCEPT !.pc = "cleaned", !.stamp = now]
  <2>1. req' = [req EXCEPT ![r] = x] /\ x.pc = "cleaned" /\ x.ctx = req[r].ctx
    BY <1>cleanup, <1>typed DEF Cleanup, Req
  <2>2. QED
    BY <2>1, <1>cleanup, <1>moved DEF Cleanup, Prunes
<1>expired. ASSUME NEW ok \in Outcomes, LookupExpired(r, ok)
      PROVE  Prunes
  <2>1. PICK old \in recs : Expired(old, req[r].stamp) /\ recs' = IF ok THEN recs \ {old} ELSE recs
    BY <1>expired DEF LookupExpired
  <2>2. Expired(old, now)
    BY <2>1, <1>typed, <1>local DEF Expired, Rec
  <2>3. CASE End(r, "DB_UNAVAILABLE")
    BY <2>1, <2>2, <2>3, <1>expired, <1>ended DEF LookupExpired, Prunes
  <2>4. CASE req' = [req EXCEPT ![r].pc = "start"]
    <3> DEFINE x == [req[r] EXCEPT !.pc = "start"]
    <3>1. req' = [req EXCEPT ![r] = x] /\ x.pc = "start" /\ x.ctx = req[r].ctx
      BY <2>4, <1>typed DEF Req
    <3>2. QED
      BY <2>1, <2>2, <3>1, <1>expired, <1>moved DEF LookupExpired, Prunes
  <2>5. QED
    BY <2>3, <2>4, <1>expired DEF LookupExpired
<1> QED
  BY <1>keyless, <1>insertFails, <1>gone, <1>live, <1>answers, <1>fails, <1>cleanup, <1>expired

\* The two steps that change rows.
LEMMA InsertStep ==
    ASSUME TypeInv, NEW r \in Requests, Insert(r)
    PROVE  /\ recs' = recs \cup {NewRec(r)} /\ now' = now
           /\ req[r].pc = "cleaned" /\ req[r].stamp <= now /\ Key[r] # NoKey
           /\ \A rec \in recs : rec.key # Key[r]
           /\ \A q \in Requests : q # r => req'[q] = req[q]
           /\ req'[r].pc = "forward" /\ req'[r].stamp = req[r].stamp /\ req'[r].ctx = FreshId
           /\ req'[r].result = req[r].result /\ req'[r].response = req[r].response
           /\ FreshId \in Nat \ {0} /\ lastId \in Nat /\ lastId' = IF FreshId > lastId THEN FreshId ELSE lastId
<1>typed. /\ recs \subseteq Rec /\ lastId \in Nat /\ now \in Nat
          /\ req \in [Requests -> Req] /\ IdsKnown /\ PathOf(r)
  BY DEF TypeInv, TypeOK
<1> DEFINE x == [req[r] EXCEPT !.pc = "forward", !.ctx = FreshId]
<1>1. req' = [req EXCEPT ![r] = x]
  BY <1>typed DEF Insert
<1>2. /\ x.pc = "forward" /\ x.stamp = req[r].stamp /\ x.ctx = FreshId
      /\ x.result = req[r].result /\ x.response = req[r].response
  BY <1>typed DEF Req
<1>3. req'[r] = x /\ \A q \in Requests : q # r => req'[q] = req[q]
  BY <1>1, <1>typed
<1>4. FreshId \in Nat \ {0}
  BY <1>typed, FreshIdTyped
<1>5. QED
  BY <1>2, <1>3, <1>4, <1>typed DEF Insert, NewRec, Blocked, Present, PathOf

Stored(rec, r, ok) == IF ok /\ req[r].ctx # 0 /\ Matches(rec, r) THEN Completed(rec, r) ELSE rec

LEMMA CompleteStep ==
    ASSUME TypeInv, NEW r \in Requests, NEW ok, Complete(r, ok)
    PROVE  /\ recs' = {Stored(rec, r, ok) : rec \in recs} /\ now' = now /\ lastId' = lastId
           /\ \A rec \in recs : /\ Stored(rec, r, ok).id = rec.id /\ Stored(rec, r, ok).key = rec.key
                                 /\ Stored(rec, r, ok).hash = rec.hash /\ Stored(rec, r, ok).owner = rec.owner
                                 /\ Stored(rec, r, ok).expires = rec.expires
                                 /\ \/ Stored(rec, r, ok) = rec
                                    \/ rec.id = req[r].ctx /\ Stored(rec, r, ok).response = r
           /\ req[r].pc = "complete" /\ \A q \in Requests : q # r => req'[q] = req[q]
           /\ req'[r].pc = "done" /\ req'[r].result = "created" /\ req'[r].ctx = req[r].ctx
<1>typed. recs \subseteq Rec /\ req \in [Requests -> Req]
  BY DEF TypeInv, TypeOK
<1> DEFINE x == [req[r] EXCEPT !.pc = "done", !.result = "created", !.response = r]
<1>1. req' = [req EXCEPT ![r] = x] /\ x.pc = "done" /\ x.result = "created" /\ x.ctx = req[r].ctx
  BY <1>typed DEF Complete, Req
<1>2. req'[r] = x /\ \A q \in Requests : q # r => req'[q] = req[q]
  BY <1>1, <1>typed
<1>3. ASSUME NEW rec \in recs
      PROVE  LET c == Completed(rec, r)
             IN  /\ c.id = rec.id /\ c.key = rec.key /\ c.hash = rec.hash /\ c.owner = rec.owner
                 /\ c.expires = rec.expires /\ c.response = r
  BY <1>typed DEF Completed, Rec
<1>4. ASSUME NEW rec \in recs
      PROVE  /\ Stored(rec, r, ok).id = rec.id /\ Stored(rec, r, ok).key = rec.key
             /\ Stored(rec, r, ok).hash = rec.hash /\ Stored(rec, r, ok).owner = rec.owner
             /\ Stored(rec, r, ok).expires = rec.expires
             /\ \/ Stored(rec, r, ok) = rec
                \/ rec.id = req[r].ctx /\ Stored(rec, r, ok).response = r
  BY <1>3 DEF Stored, Matches
<1>5. recs' = {Stored(rec, r, ok) : rec \in recs}
  BY DEF Complete, Stored
<1>6. QED
  BY <1>1, <1>2, <1>4, <1>5 DEF Complete

\* The row of a request under way is there and its own until it runs out.
THEOREM IdempotencyOwnership == Spec => []OwnInv
<1>consts. Ttl \in Nat
  BY IdempotencyAssumption
<1>init. Init => OwnInv
  BY DEF Init, OwnInv, UniqueKeys, OwnsRecord, InFlight
<1>step. TypeInv /\ TypeInv' /\ OwnInv /\ [Next]_vars => OwnInv'
  <2> SUFFICES ASSUME TypeInv, TypeInv', OwnInv, [Next]_vars PROVE OwnInv'
    OBVIOUS
  <2>typed. /\ recs \subseteq Rec /\ now \in Nat /\ now' \in Nat /\ recs' \subseteq Rec
            /\ \A q \in Requests : req[q].stamp \in Nat
    BY DEF TypeInv, TypeOK, Req
  <2>inv. UniqueKeys /\ OwnsRecord
    BY DEF OwnInv
  <2>stutter. CASE UNCHANGED vars
    BY <2>stutter, <2>inv DEF vars, OwnInv, UniqueKeys, OwnsRecord, Owns, InFlight
  <2>prunes. CASE Prunes
    <3>1. UniqueKeys'
      BY <2>prunes, <2>inv DEF Prunes, UniqueKeys
    <3>2. ASSUME NEW q \in Requests, InFlight(q)', now' <= req'[q].stamp + Ttl
          PROVE  \E rec \in recs' : Owns(q, rec)'
      <4>1. InFlight(q) /\ req'[q].stamp = req[q].stamp /\ now <= req[q].stamp + Ttl
        BY <2>prunes, <3>2 DEF Prunes, Keeps
      <4>2. PICK rec \in recs : Owns(q, rec)
        BY <4>1, <2>inv DEF OwnsRecord
      <4>3. ~Expired(rec, now)
        BY <4>1, <4>2, <2>typed, <1>consts DEF Owns, Expired
      <4>4. QED
        BY <4>1, <4>2, <4>3, <2>prunes DEF Prunes, Owns
    <3>3. QED
      BY <3>1, <3>2 DEF OwnInv, OwnsRecord
  <2>insert. ASSUME NEW r \in Requests, Insert(r)
        PROVE  OwnInv'
    <3>1. NewRec(r).key = Key[r] /\ NewRec(r).owner = r /\ NewRec(r).expires = req[r].stamp + Ttl
      BY DEF NewRec
    <3>2. UniqueKeys'
      BY <2>insert, <3>1, <2>inv, InsertStep DEF UniqueKeys
    <3>3. ASSUME NEW q \in Requests, InFlight(q)', now' <= req'[q].stamp + Ttl
          PROVE  \E rec \in recs' : Owns(q, rec)'
      <4>1. CASE q = r
        BY <2>insert, <3>1, <4>1, InsertStep DEF Owns
      <4>2. CASE q # r
        <5>1. req'[q] = req[q] /\ now' = now /\ recs \subseteq recs'
          BY <4>2, <2>insert, InsertStep
        <5>2. PICK rec \in recs : Owns(q, rec)
          BY <5>1, <3>3, <2>inv DEF OwnsRecord, InFlight
        <5>3. QED
          BY <5>1, <5>2 DEF Owns
      <4>3. QED
        BY <4>1, <4>2
    <3>4. QED
      BY <3>2, <3>3 DEF OwnInv, OwnsRecord
  <2>complete. ASSUME NEW r \in Requests, NEW ok \in Outcomes, Complete(r, ok)
        PROVE  OwnInv'
    <3>1. UniqueKeys'
      <4> SUFFICES ASSUME NEW rec \in recs', NEW other \in recs', rec.key = other.key PROVE rec = other
        BY DEF UniqueKeys
      <4>1. PICK a \in recs : rec = Stored(a, r, ok)
        BY <2>complete, CompleteStep
      <4>2. PICK b \in recs : other = Stored(b, r, ok)
        BY <2>complete, CompleteStep
      <4>3. a.key = b.key
        BY <4>1, <4>2, <2>complete, CompleteStep
      <4>4. QED
        BY <4>1, <4>2, <4>3, <2>inv DEF UniqueKeys
    <3>2. ASSUME NEW q \in Requests, InFlight(q)', now' <= req'[q].stamp + Ttl
          PROVE  \E rec \in recs' : Owns(q, rec)'
      <4>1. q # r /\ req'[q] = req[q] /\ now' = now
        BY <3>2, <2>complete, CompleteStep DEF InFlight
      <4>2. PICK rec \in recs : Owns(q, rec)
        BY <4>1, <3>2, <2>inv DEF OwnsRecord, InFlight
      <4>3. PICK new \in recs' : new = Stored(rec, r, ok)
        BY <2>complete, CompleteStep
      <4>4. Owns(q, new)'
        BY <4>1, <4>2, <4>3, <2>complete, CompleteStep DEF Owns
      <4>5. QED
        BY <4>3, <4>4
    <3>3. QED
      BY <3>1, <3>2 DEF OwnInv, OwnsRecord
  <2>retention. CASE Retention
    BY <2>retention, <2>prunes DEF Retention, Prunes, Keeps, InFlight
  <2>tick. CASE Tick
    <3>1. now' = now + 1 /\ UNCHANGED <<recs, req>>
      BY <2>tick DEF Tick
    <3>2. ASSUME NEW q \in Requests, InFlight(q)', now' <= req'[q].stamp + Ttl
          PROVE  \E rec \in recs' : Owns(q, rec)'
      BY <3>1, <3>2, <2>inv, <2>typed, <1>consts DEF OwnsRecord, InFlight, Owns
    <3>3. QED
      BY <3>1, <3>2, <2>inv DEF OwnInv, OwnsRecord, UniqueKeys
  <2> QED
    BY <2>stutter, <2>prunes, <2>insert, <2>complete, <2>retention, <2>tick, PruningSteps DEF Next, Step
<1> QED
  BY <1>init, <1>step, IdempotencyTypeInv, PTL DEF Spec

\* While a record lives one request at most works for its key, with either
\* database and whatever the cleanups delete (idempotency.py 106-154).
THEOREM IdempotencyExclusive == Spec => []ExclusiveWithinTtl
<1>1. TypeInv /\ OwnInv => ExclusiveWithinTtl
  <2> SUFFICES ASSUME TypeInv, OwnInv, NEW r \in Requests, NEW s \in Requests, r # s,
                      InFlight(r), InFlight(s), Key[r] = Key[s],
                      ~(now > req[r].stamp + Ttl), ~(now > req[s].stamp + Ttl)
               PROVE  FALSE
    BY DEF ExclusiveWithinTtl
  <2>1. now \in Nat /\ Ttl \in Nat /\ req[r].stamp \in Nat /\ req[s].stamp \in Nat
    BY IdempotencyAssumption DEF TypeInv, TypeOK, Req
  <2>2. PICK a \in recs : Owns(r, a)
    BY <2>1 DEF OwnInv, OwnsRecord
  <2>3. PICK b \in recs : Owns(s, b)
    BY <2>1 DEF OwnInv, OwnsRecord
  <2>4. QED
    BY <2>2, <2>3 DEF OwnInv, UniqueKeys, Owns
<1> QED
  BY <1>1, IdempotencyTypeInv, IdempotencyOwnership, PTL
-----------------------------------------------------------------------------
\* Who a row and an answer belong to, when ids are never given twice: the id
\* in a request's context finds its own row or none, a row holds the key and
\* body of its owner, and a stored answer is the owner's, who is done.
CtxOwns ==
    \A r \in Requests : req[r].ctx <= lastId /\ \A rec \in recs : rec.id = req[r].ctx => rec.owner = r

RecOwned == \A rec \in recs : rec.key = Key[rec.owner] /\ rec.hash = Payload[rec.owner]

AnswerOwned == \A rec \in recs : rec.status = "completed" => rec.response = rec.owner /\ req[rec.owner].pc = "done"

AnswerInv == CtxOwns /\ RecOwned /\ AnswerOwned /\ ReplayFaithful

\* A request is replayed by a completed row of its key and body only.
Replayed(r) ==
    req'[r].result = "replayed" =>
        \/ req[r].result = "replayed" /\ req'[r].response = req[r].response
        \/ \E rec \in recs : /\ rec.status = "completed" /\ rec.key = Key[r] /\ rec.hash = Payload[r]
                             /\ req'[r].response = rec.response

LEMMA ReplaySteps ==
    ASSUME TypeInv, NEW r \in Requests,
           \/ Keyless(r) \/ InsertFails(r) \/ LookupGone(r) \/ LookupLive(r)
           \/ UpstreamAnswers(r) \/ UpstreamFails(r)
           \/ \E ok \in Outcomes : Cleanup(r, ok) \/ LookupExpired(r, ok)
    PROVE  Replayed(r) /\ \A q \in Requests : q # r => req'[q] = req[q]
<1>typed. req \in [Requests -> Req] /\ req[r] \in Req
  BY DEF TypeInv, TypeOK
<1>end. ASSUME NEW result, result # "replayed", End(r, result)
        PROVE  Replayed(r) /\ \A q \in Requests : q # r => req'[q] = req[q]
  BY <1>end, <1>typed DEF End, Req, Replayed
<1>goes. ASSUME NEW pc, req' = [req EXCEPT ![r].pc = pc]
         PROVE  Replayed(r) /\ \A q \in Requests : q # r => req'[q] = req[q]
  BY <1>goes, <1>typed DEF Req, Replayed
<1>keyless. CASE Keyless(r)
  BY <1>keyless, <1>end, <1>goes DEF Keyless
<1>insertFails. CASE InsertFails(r)
  BY <1>insertFails, <1>end, <1>goes DEF InsertFails
<1>gone. CASE LookupGone(r)
  BY <1>gone, <1>end DEF LookupGone
<1>live. CASE LookupLive(r)
  <2>1. PICK rec \in recs : /\ rec.key = Key[r]
                            /\ req' = [req EXCEPT ![r] = [@ EXCEPT !.pc = "done",
                                  !.result = IF ~SameRequest(rec, r) THEN "IDEMPOTENCY_KEY_CONFLICT"
                                             ELSE IF rec.status = "completed" THEN "replayed"
                                             ELSE "IDEMPOTENCY_IN_PROGRESS",
                                  !.response = IF SameRequest(rec, r) /\ rec.status = "completed"
                                               THEN rec.response ELSE NoKey]]
    BY <1>live DEF LookupLive
  <2>2. /\ \A q \in Requests : q # r => req'[q] = req[q]
        /\ req'[r].result = IF ~SameRequest(rec, r) THEN "IDEMPOTENCY_KEY_CONFLICT"
                            ELSE IF rec.status = "completed" THEN "replayed" ELSE "IDEMPOTENCY_IN_PROGRESS"
        /\ req'[r].response = IF SameRequest(rec, r) /\ rec.status = "completed" THEN rec.response ELSE NoKey
    BY <2>1, <1>typed DEF Req
  <2>3. QED
    BY <2>1, <2>2 DEF SameRequest, Replayed
<1>answers. CASE UpstreamAnswers(r)
  BY <1>answers, <1>typed DEF UpstreamAnswers, Req, Replayed
<1>fails. CASE UpstreamFails(r)
  BY <1>fails, <1>typed DEF UpstreamFails, Req, Replayed
<1>cleanup. ASSUME NEW ok \in Outcomes, Cleanup(r, ok)
      PROVE  Replayed(r) /\ \A q \in Requests : q # r => req'[q] = req[q]
  BY <1>cleanup, <1>typed DEF Cleanup, Req, Replayed
<1>expired. ASSUME NEW ok \in Outcomes, LookupExpired(r, ok)
      PROVE  Replayed(r) /\ \A q \in Requests : q # r => req'[q] = req[q]
  BY <1>expired, <1>end, <1>goes DEF LookupExpired
<1> QED
  BY <1>keyless, <1>insertFails, <1>gone, <1>live, <1>answers, <1>fails, <1>cleanup, <1>expired

\* With ids from a sequence, complete() stores an answer in its own row or
\* nowhere, however old its context is.
THEOREM IdempotencyAnswers == ASSUME ~ReuseIds PROVE Spec => []AnswerInv
<1>init. Init => AnswerInv
  <2> SUFFICES ASSUME Init PROVE AnswerInv
    OBVIOUS
  <2>1. recs = {} /\ lastId = 0 /\ \A r \in Requests : req[r].ctx = 0 /\ req[r].result = "pending"
    BY DEF Init
  <2>2. QED
    BY <2>1 DEF AnswerInv, CtxOwns, RecOwned, AnswerOwned, ReplayFaithful
<1>step. TypeInv /\ TypeInv' /\ AnswerInv /\ [Next]_vars => AnswerInv'
  <2> SUFFICES ASSUME TypeInv, TypeInv', AnswerInv, [Next]_vars PROVE AnswerInv'
    OBVIOUS
  <2>typed. /\ recs \subseteq Rec /\ lastId \in Nat /\ IdsKnown
            /\ \A q \in Requests : req[q].ctx \in Nat /\ req'[q].ctx \in Nat
    BY DEF TypeInv, TypeOK, Req
  <2>inv. CtxOwns /\ RecOwned /\ AnswerOwned /\ ReplayFaithful
    BY DEF AnswerInv
  <2>owner. \A rec \in recs : rec.owner \in Requests
    BY <2>typed DEF Rec
  <2>replay. ASSUME \A q \in Requests : Replayed(q)
        PROVE  ReplayFaithful'
    <3> SUFFICES ASSUME NEW q \in Requests, req'[q].result = "replayed"
                 PROVE  /\ req'[q].response \in Requests /\ Key[req'[q].response] = Key[q]
                        /\ Payload[req'[q].response] = Payload[q]
      BY DEF ReplayFaithful
    <3>1. CASE req[q].result = "replayed" /\ req'[q].response = req[q].response
      BY <3>1, <2>inv DEF ReplayFaithful
    <3>2. ASSUME NEW rec \in recs, rec.status = "completed", rec.key = Key[q], rec.hash = Payload[q],
                 req'[q].response = rec.response
          PROVE  /\ req'[q].response \in Requests /\ Key[req'[q].response] = Key[q]
                 /\ Payload[req'[q].response] = Payload[q]
      BY <3>2, <2>inv, <2>owner DEF AnswerOwned, RecOwned
    <3>3. QED
      BY <3>1, <3>2, <2>replay DEF Replayed
  <2>prunes. ASSUME Prunes, lastId' = lastId, \A q \in Requests : Replayed(q)
        PROVE  AnswerInv'
    <3>1. CtxOwns'
      BY <2>prunes, <2>inv DEF Prunes, Keeps, CtxOwns
    <3>2. RecOwned'
      BY <2>prunes, <2>inv DEF Prunes, RecOwned
    <3>3. AnswerOwned'
      BY <2>prunes, <2>inv, <2>owner DEF Prunes, Keeps, AnswerOwned
    <3>4. QED
      BY <3>1, <3>2, <3>3, <2>prunes, <2>replay DEF AnswerInv
  <2>stutter. CASE UNCHANGED vars
    BY <2>stutter, <2>inv DEF vars, AnswerInv, CtxOwns, RecOwned, AnswerOwned, ReplayFaithful
  <2>steps. ASSUME NEW r \in Requests,
                   \/ Keyless(r) \/ InsertFails(r) \/ LookupGone(r) \/ LookupLive(r)
                   \/ UpstreamAnswers(r) \/ UpstreamFails(r)
                   \/ \E ok \in Outcomes : Cleanup(r, ok) \/ LookupExpired(r, ok)
        PROVE  AnswerInv'
    <3>1. lastId' = lastId
      BY <2>steps DEF Keyless, InsertFails, LookupGone, LookupLive, UpstreamAnswers, UpstreamFails, Cleanup, LookupExpired
    <3>2. Replayed(r) /\ \A q \in Requests : q # r => req'[q] = req[q]
      BY <2>steps, ReplaySteps
    <3>3. \A q \in Requests : Replayed(q)
      BY <3>2 DEF Replayed
    <3>4. Prunes
      BY <2>steps, PruningSteps
    <3>5. QED
      BY <3>1, <3>3, <3>4, <2>prunes
  <2>insert. ASSUME NEW r \in Requests, Insert(r)
        PROVE  AnswerInv'
    <3>1. FreshId = lastId + 1 /\ lastId' = lastId + 1
      BY <2>insert, <2>typed, FreshIdTyped, InsertStep
    <3>2. /\ NewRec(r).id = FreshId /\ NewRec(r).key = Key[r] /\ NewRec(r).hash = Payload[r]
          /\ NewRec(r).owner = r /\ NewRec(r).status = "in_progress"
      BY DEF NewRec
    <3>3. recs' = recs \cup {NewRec(r)} /\ \A q \in Requests : q # r => req'[q] = req[q]
      BY <2>insert, InsertStep
    <3>4. /\ req'[r].ctx = FreshId /\ req[r].pc # "done"
          /\ req'[r].result = req[r].result /\ req'[r].response = req[r].response
      BY <2>insert, InsertStep
    <3>5. CtxOwns'
      <4> SUFFICES ASSUME NEW q \in Requests
                   PROVE  req'[q].ctx <= lastId' /\ \A rec \in recs' : rec.id = req'[q].ctx => rec.owner = q
        BY DEF CtxOwns
      <4>1. CASE q = r
        BY <4>1, <3>1, <3>2, <3>3, <3>4, <2>typed DEF IdsKnown
      <4>2. CASE q # r
        BY <4>2, <3>1, <3>2, <3>3, <2>typed, <2>inv DEF CtxOwns
      <4>3. QED
        BY <4>1, <4>2
    <3>6. RecOwned'
      BY <3>2, <3>3, <2>inv DEF RecOwned
    <3>7. AnswerOwned'
      BY <3>2, <3>3, <3>4, <2>inv, <2>owner DEF AnswerOwned
    <3>8. \A q \in Requests : Replayed(q)
      BY <3>3, <3>4 DEF Replayed
    <3>9. QED
      BY <3>5, <3>6, <3>7, <3>8, <2>replay DEF AnswerInv
  <2>complete. ASSUME NEW r \in Requests, NEW ok \in Outcomes, Complete(r, ok)
        PROVE  AnswerInv'
    <3>1. ASSUME NEW new \in recs'
          PROVE  \E rec \in recs : /\ new.id = rec.id /\ new.key = rec.key /\ new.hash = rec.hash
                                   /\ new.owner = rec.owner
                                   /\ new = rec \/ (rec.id = req[r].ctx /\ new.response = r)
      BY <2>complete, CompleteStep
    <3>2. /\ lastId' = lastId /\ \A q \in Requests : q # r => req'[q] = req[q]
          /\ req'[r].pc = "done" /\ req'[r].result = "created" /\ req'[r].ctx = req[r].ctx
      BY <2>complete, CompleteStep
    <3>3. CtxOwns'
      BY <3>1, <3>2, <2>inv DEF CtxOwns
    <3>4. RecOwned'
      BY <3>1, <2>inv DEF RecOwned
    <3>5. AnswerOwned'
      <4> SUFFICES ASSUME NEW new \in recs', new.status = "completed"
                   PROVE  new.response = new.owner /\ req'[new.owner].pc = "done"
        BY DEF AnswerOwned
      <4>1. PICK rec \in recs : new.owner = rec.owner /\ (new = rec \/ (rec.id = req[r].ctx /\ new.response = r))
        BY <3>1
      <4>2. CASE new = rec
        BY <4>2, <3>2, <2>inv, <2>owner DEF AnswerOwned
      <4>3. CASE rec.id = req[r].ctx /\ new.response = r
        BY <4>1, <4>3, <3>2, <2>inv DEF CtxOwns
      <4>4. QED
        BY <4>1, <4>2, <4>3
    <3>6. \A q \in Requests : Replayed(q)
      BY <3>2 DEF Replayed
    <3>7. QED
      BY <3>3, <3>4, <3>5, <3>6, <2>replay DEF AnswerInv
  <2>retention. CASE Retention
    <3>1. Prunes /\ lastId' = lastId
      BY <2>retention DEF Retention, Prunes, Keeps, InFlight
    <3>2. \A q \in Requests : Replayed(q)
      BY <2>retention DEF Retention, Replayed
    <3>3. QED
      BY <3>1, <3>2, <2>prunes
  <2>tick. CASE Tick
    BY <2>tick, <2>inv DEF Tick, AnswerInv, CtxOwns, RecOwned, AnswerOwned, ReplayFaithful
  <2> QED
    BY <2>stutter, <2>steps, <2>insert, <2>complete, <2>retention, <2>tick DEF Next, Step
<1> QED
  BY <1>init, <1>step, IdempotencyTypeInv, PTL DEF Spec

\* A replayed answer is the answer to the same key and body (idempotency.py
\* 153-166), if ids come from a sequence.
THEOREM IdempotencyReplayFaithful == ASSUME ~ReuseIds PROVE Spec => []ReplayFaithful
<1>1. AnswerInv => ReplayFaithful
  BY DEF AnswerInv
<1> QED
  BY <1>1, IdempotencyAnswers, PTL

\* Nobody replaces a stored answer before it expires (idempotency.py 193-205),
\* if ids come from a sequence.
THEOREM IdempotencyStoredAnswerFinal == ASSUME ~ReuseIds PROVE Spec => StoredAnswerFinal
<1>1. TypeInv /\ AnswerInv /\ [Next]_vars
        => [\A rec \in recs : rec.status = "completed" /\ ~Expired(rec, now) => rec \in recs']_vars
  <2> SUFFICES ASSUME TypeInv, AnswerInv, [Next]_vars, NEW rec \in recs, rec.status = "completed", ~Expired(rec, now)
               PROVE  rec \in recs'
    OBVIOUS
  <2>prunes. CASE Prunes
    BY <2>prunes DEF Prunes
  <2>insert. ASSUME NEW r \in Requests, Insert(r) PROVE rec \in recs'
    BY <2>insert DEF Insert
  <2>complete. ASSUME NEW r \in Requests, NEW ok \in Outcomes, Complete(r, ok) PROVE rec \in recs'
    <3>1. req[r].pc = "complete" /\ rec.owner \in Requests
      BY <2>complete, CompleteStep DEF TypeInv, TypeOK, Rec
    <3>2. req[rec.owner].pc = "done" /\ (rec.id = req[r].ctx => rec.owner = r)
      BY DEF AnswerInv, AnswerOwned, CtxOwns
    <3>3. rec.id # req[r].ctx
      BY <3>1, <3>2
    <3>4. Stored(rec, r, ok) = rec
      BY <3>3 DEF Stored, Matches
    <3>5. QED
      BY <3>4, <2>complete, CompleteStep
  <2>rest. CASE Retention \/ Tick \/ UNCHANGED vars
    BY <2>rest DEF Retention, Tick, vars
  <2> QED
    BY <2>prunes, <2>insert, <2>complete, <2>rest, PruningSteps DEF Next, Step
<1> QED
  BY <1>1, IdempotencyTypeInv, IdempotencyAnswers, PTL DEF Spec, StoredAnswerFinal
=============================================================================
