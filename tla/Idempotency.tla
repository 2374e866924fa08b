---------------------------- MODULE Idempotency ----------------------------
(***************************************************************************)
(* Idempotent creation requests: start_or_replay() and complete() of       *)
(* app/core/idempotency.py around the forward of a crawl or agent handler, *)
(* for the requests of one client.  Every database operation commits on    *)
(* its own, so requests interleave between the cleanup, the insert, the    *)
(* lookup, the upstream calls and the completion.                          *)
(***************************************************************************)
EXTENDS Integers

CONSTANTS Requests,
          IdemKeys,   \* values of X-Idempotency-Key
          NoKey,      \* the header is absent
          Key,        \* Key[r]: the header of request r
          Payload,    \* Payload[r]: its request_hash
          Required,   \* requests to an endpoint in idempotency.require_on
          Attempts,   \* upstream attempts of one forward()
          Ttl,        \* max(ttl_seconds, 1)
          ReuseIds,   \* TRUE: SQLite gives a new row the id max(id) + 1;
                      \* FALSE: ids come from a sequence (PostgreSQL)
          Faults,     \* TRUE: a commit may fail
          MaxNow

ASSUME IdempotencyAssumption ==
    /\ NoKey \notin IdemKeys
    /\ Key \in [Requests -> IdemKeys \cup {NoKey}]
    /\ Attempts \in Nat \ {0} /\ Ttl \in Nat \ {0} /\ MaxNow \in Nat
    /\ Required \subseteq Requests
    /\ {ReuseIds, Faults} \subseteq BOOLEAN

VARIABLES recs,   \* the rows of idempotency_records
          lastId, \* the id sequence
          req,    \* per request: thread and local variables
          now

vars == <<recs, lastId, req, now>>

\* A row; owner is history: the request that inserted it.
Rec == [id : Nat, key : IdemKeys, hash : {Payload[r] : r \in Requests},
        status : {"in_progress", "completed"}, response : Requests \cup {NoKey},
        expires : Nat, owner : Requests]

Results == {"pending", "created", "replayed", "IDEMPOTENCY_KEY_REQUIRED",
            "IDEMPOTENCY_KEY_CONFLICT", "IDEMPOTENCY_IN_PROGRESS", "DB_UNAVAILABLE", "UPSTREAM"}

Req == [pc : {"start", "cleaned", "lookup", "forward", "complete", "done"},
        stamp : Nat,          \* now of start_or_replay
        ctx : Nat,            \* record_id of the context, 0: none
        sends : 0..Attempts,  \* upstream calls made
        result : Results,
        response : Requests \cup {NoKey}] \* whose upstream answer is returned

TypeOK ==
    /\ recs \subseteq Rec
    /\ lastId \in Nat
    /\ req \in [Requests -> Req]
    /\ now \in Nat

Init ==
    /\ recs = {}
    /\ lastId = 0
    /\ req = [r \in Requests |-> [pc |-> "start", stamp |-> 0, ctx |-> 0, sends |-> 0,
                                  result |-> "pending", response |-> NoKey]]
    /\ now = 0

Outcomes == IF Faults THEN BOOLEAN ELSE {TRUE}

End(r, result) == req' = [req EXCEPT ![r].pc = "done", ![r].result = result]

Expired(rec, t) == rec.expires < t

\* Without a key the request is refused or forwarded unprotected.
Keyless(r) ==
    /\ req[r].pc = "start"
    /\ Key[r] = NoKey
    /\ IF r \in Required THEN End(r, "IDEMPOTENCY_KEY_REQUIRED")
       ELSE req' = [req EXCEPT ![r].pc = "forward"]
    /\ UNCHANGED <<recs, lastId, now>>

\* _cleanup_expired of all the client's rows; its failure is only logged.
Cleanup(r, ok) ==
    /\ req[r].pc = "start"
    /\ Key[r] # NoKey
    /\ recs' = IF ok THEN {rec \in recs : ~Expired(rec, now)} ELSE recs
    /\ req' = [req EXCEPT ![r].pc = "cleaned", ![r].stamp = now]
    /\ UNCHANGED <<lastId, now>>

Present(k) == \E rec \in recs : rec.key = k

\* Mutant of Blocked: completed rows do not keep a new one out.
BlockedInProgress(k) == \E rec \in recs : rec.key = k /\ rec.status = "completed"

\* The unique constraint on (client_id, idempotency_key).
Blocked(k) == Present(k)

\* The highest id in the table, 0 when it is empty.
MaxId == CHOOSE n \in 0..lastId : /\ \A rec \in recs : rec.id <= n
                                  /\ n = 0 \/ \E rec \in recs : rec.id = n

FreshId == (IF ReuseIds THEN MaxId ELSE lastId) + 1

\* The insert: the first request of a key owns it.
Insert(r) ==
    /\ req[r].pc = "cleaned"
    /\ ~Blocked(Key[r])
    /\ recs' = recs \cup {[id |-> FreshId, key |-> Key[r], hash |-> Payload[r],
                           status |-> "in_progress", response |-> NoKey,
                           expires |-> req[r].stamp + Ttl, owner |-> r]}
    /\ lastId' = IF FreshId > lastId THEN FreshId ELSE lastId
    /\ req' = [req EXCEPT ![r].pc = "forward", ![r].ctx = FreshId]
    /\ UNCHANGED now

\* The insert fails: IntegrityError, the existing row is looked up next; any
\* other database error ends the request.
InsertFails(r) ==
    /\ req[r].pc = "cleaned"
    /\ \/ /\ Blocked(Key[r])
          /\ req' = [req EXCEPT ![r].pc = "lookup"]
       \/ Faults /\ End(r, "DB_UNAVAILABLE")
    /\ UNCHANGED <<recs, lastId, now>>

\* The row disappeared between the failed insert and the lookup.
LookupGone(r) ==
    /\ req[r].pc = "lookup"
    /\ ~Present(Key[r])
    /\ End(r, "DB_UNAVAILABLE")
    /\ UNCHANGED <<recs, lastId, now>>

\* Mutant of LookupExpired: the expired row is left in place.
LookupExpiredKeeps(r, ok) ==
    /\ req[r].pc = "lookup"
    /\ \E rec \in recs : rec.key = Key[r] /\ Expired(rec, req[r].stamp)
    /\ IF ok THEN req' = [req EXCEPT ![r].pc = "start"] ELSE End(r, "DB_UNAVAILABLE")
    /\ UNCHANGED <<recs, lastId, now>>

\* An expired row is deleted and the request starts over.
LookupExpired(r, ok) ==
    /\ req[r].pc = "lookup"
    /\ \E rec \in recs :
          /\ rec.key = Key[r] /\ Expired(rec, req[r].stamp)
          /\ recs' = IF ok THEN recs \ {rec} ELSE recs
    /\ IF ok THEN req' = [req EXCEPT ![r].pc = "start"] ELSE End(r, "DB_UNAVAILABLE")
    /\ UNCHANGED <<lastId, now>>

\* Mutant of SameRequest: the request hash is not compared.
AnyRequest(rec, r) == TRUE

SameRequest(rec, r) == rec.hash = Payload[r]

\* A live row answers the request: conflict, replay or "in progress".
LookupLive(r) ==
    /\ req[r].pc = "lookup"
    /\ \E rec \in recs :
          /\ rec.key = Key[r] /\ ~Expired(rec, req[r].stamp)
          /\ req' = [req EXCEPT ![r] = [@ EXCEPT !.pc = "done",
                !.result = IF ~SameRequest(rec, r) THEN "IDEMPOTENCY_KEY_CONFLICT"
                           ELSE IF rec.status = "completed" THEN "replayed"
                           ELSE "IDEMPOTENCY_IN_PROGRESS",
                !.response = IF SameRequest(rec, r) /\ rec.status = "completed"
                             THEN rec.response ELSE NoKey]]
    /\ UNCHANGED <<recs, lastId, now>>

\* One upstream call of forward(): answered, or failed (a timeout may have
\* created the task all the same) and tried again while attempts are left.
UpstreamAnswers(r) ==
    /\ req[r].pc = "forward"
    /\ req' = [req EXCEPT ![r].pc = "complete", ![r].sends = @ + 1]
    /\ UNCHANGED <<recs, lastId, now>>

\* Mutant of AttemptsLeft: one attempt too many.
AttemptsLeftLate(r) == req[r].sends + 1 <= Attempts

\* forward() may try again after the call in hand.
AttemptsLeft(r) == req[r].sends + 1 < Attempts

UpstreamFails(r) ==
    /\ req[r].pc = "forward"
    /\ req' = [req EXCEPT ![r].sends = @ + 1,
                          ![r].pc = IF AttemptsLeft(r) THEN "forward" ELSE "done",
                          ![r].result = IF AttemptsLeft(r) THEN @ ELSE "UPSTREAM"]
    /\ UNCHANGED <<recs, lastId, now>>

Completed(rec, r) == [rec EXCEPT !.status = "completed", !.response = r]

\* Mutant of Matches: the row is found again by its key.
MatchesKey(rec, r) == rec.key = Key[r]

\* complete() finds its row by the id in the context.
Matches(rec, r) == rec.id = req[r].ctx

\* complete(): the row with the context's id takes the answer, if it is still
\* there, the answer is small enough to store and the commit succeeds;
\* otherwise it stays in progress.  The caller gets the answer anyway.
Complete(r, ok) ==
    /\ req[r].pc = "complete"
    /\ recs' = IF ok /\ req[r].ctx # 0
                 THEN {IF Matches(rec, r) THEN Completed(rec, r) ELSE rec : rec \in recs}
                 ELSE recs
    /\ req' = [req EXCEPT ![r].pc = "done", ![r].result = "created", ![r].response = r]
    /\ UNCHANGED <<lastId, now>>

\* The retention job (app/db/cleanup.py) deletes expired rows at any time.
Retention ==
    /\ recs' = {rec \in recs : ~Expired(rec, now)}
    /\ UNCHANGED <<lastId, req, now>>

Tick ==
    /\ now < MaxNow
    /\ now' = now + 1
    /\ UNCHANGED <<recs, lastId, req>>

Step(r) ==
    \/ Keyless(r) \/ Insert(r) \/ InsertFails(r)
    \/ LookupGone(r) \/ LookupLive(r)
    \/ UpstreamAnswers(r) \/ UpstreamFails(r)
    \/ \E ok \in Outcomes : Cleanup(r, ok) \/ LookupExpired(r, ok) \/ Complete(r, ok)

Next == (\E r \in Requests : Step(r)) \/ Retention \/ Tick

Spec == Init /\ [][Next]_vars

\* Nothing in the handler blocks: each request thread keeps going.
FairSpec == Spec /\ \A r \in Requests : WF_vars(Step(r))
-----------------------------------------------------------------------------
\* Request r is between its insert and its completion.
InFlight(r) == Key[r] # NoKey /\ req[r].pc \in {"forward", "complete"}

\* While a record lives, one request at most works for its key: two requests
\* of a key are upstream together only if the record of one of them ran out
\* while it was there (idempotency.py 106-123).
ExclusiveWithinTtl ==
    \A r, s \in Requests :
        r # s /\ InFlight(r) /\ InFlight(s) /\ Key[r] = Key[s] =>
            now > req[r].stamp + Ttl \/ now > req[s].stamp + Ttl

\* A replayed answer is the answer to the same request: same key, same body
\* (idempotency.py 153-166).
ReplayFaithful ==
    \A r \in Requests : req[r].result = "replayed" =>
        /\ req[r].response \in Requests
        /\ Key[req[r].response] = Key[r]
        /\ Payload[req[r].response] = Payload[r]

\* A stored answer is final: until the record expires nobody replaces it, so
\* every retry gets the same answer (idempotency.py 193-205).
StoredAnswerFinal ==
    [][\A rec \in recs : rec.status = "completed" /\ ~Expired(rec, now) => rec \in recs']_vars

\* Every request is answered, replayed or refused: the deletion of an expired
\* record and the renewed call of start_or_replay (idempotency.py 136-154) do
\* not go on for ever.
AllEnd == \A r \in Requests : <>(req[r].pc = "done")
=============================================================================
