----------------------------- MODULE DataPlane -----------------------------
(***************************************************************************)
(* The handlers of the data plane (app/api/data_plane.py,                  *)
(* firecrawl_compat.py, firecrawl_v2_compat.py, exa_compat.py): requests   *)
(* of one client that governance let pass, with the idempotency record and *)
(* the resource bindings (app/core/resource_binding.py) around forward().  *)
(*                                                                         *)
(* forward() is reduced to what its callers see: which key it calls, what  *)
(* the upstream does and answers, and how often it is called; the modules  *)
(* Forwarder and Idempotency hold the rest.  All requests that keep a      *)
(* record use the same idempotency key and body.  They are crawls, whose   *)
(* record is the same on /api, /v1 and /v2, or they are all agents.        *)
(***************************************************************************)
EXTENDS Integers, FiniteSets

CONSTANTS Requests,
          Offered,       \* Offered[r]: the routes r may be sent to
          Keys,          \* the client's upstream keys
          MaxTasks,      \* bound: tasks the upstream creates
          TotalAttempts, \* upstream calls of one forward()
          Faults,        \* TRUE: the database may fail
          AdminActs      \* TRUE: administrators act and records expire

None == -1
Tasks == 1..MaxTasks
Flows == {"plain", "create", "status", "delete"}
\* The routes.  What a handler does is told apart by four things: whether it
\* creates a task or asks about one, whether it keeps an idempotency record,
\* whether it keeps a binding, and whether it tries a second path when the
\* first is answered 404 or 405.

PlainRoute == [flow |-> "plain", idem |-> FALSE, bind |-> FALSE, fallback |-> FALSE]

\* /api and /v1 create tasks with a record and no binding; their agent falls
\* back to the path of the other version.
ApiCrawl == [PlainRoute EXCEPT !.flow = "create", !.idem = TRUE]
ApiAgent == [ApiCrawl EXCEPT !.fallback = TRUE]
V1Crawl == ApiCrawl
V1Agent == ApiAgent

\* They forward a question about a task to any key of the pool.
ApiStatus == [PlainRoute EXCEPT !.flow = "status"]
V1Status == ApiStatus

\* /api, /v1 and /exa forward the rest as it comes.
ApiPlain == PlainRoute
V1Plain == PlainRoute
ExaPlain == PlainRoute

\* /v2: crawl and agent create with a record and a binding; batch scrape,
\* browser and extract create with a binding only.
V2Crawl == [flow |-> "create", idem |-> TRUE, bind |-> TRUE, fallback |-> TRUE]
V2Agent == [V2Crawl EXCEPT !.fallback = FALSE]
V2Batch == [V2Crawl EXCEPT !.idem = FALSE]
V2Browser == [V2Agent EXCEPT !.idem = FALSE]
V2Extract == V2Browser

\* /v2: what asks about a task goes to the key the task is bound to.
V2CrawlStatus == [flow |-> "status", idem |-> FALSE, bind |-> TRUE, fallback |-> TRUE]
V2BatchStatus == V2CrawlStatus
V2Errors == [V2CrawlStatus EXCEPT !.fallback = FALSE]
V2AgentStatus == V2Errors
V2BrowserExecute == V2Errors
V2ExtractStatus == V2Errors
V2Delete == [V2Errors EXCEPT !.flow = "delete"]
V2BatchDelete == V2Delete
V2AgentDelete == V2Delete
V2BrowserDelete == V2Delete

V2CrawlPlain == PlainRoute
V2BrowserList == PlainRoute
V2Plain == PlainRoute
V2Team == PlainRoute
V2Passthrough == PlainRoute
RouteTable == {ApiCrawl, ApiAgent, ApiStatus, ApiPlain,
               V1Crawl, V1Agent, V1Status, V1Plain, ExaPlain,
               V2Crawl, V2Agent, V2Batch, V2Browser, V2Extract,
               V2CrawlStatus, V2BatchStatus, V2Errors, V2AgentStatus, V2BrowserExecute,
               V2ExtractStatus, V2Delete, V2BatchDelete, V2AgentDelete, V2BrowserDelete,
               V2CrawlPlain, V2BrowserList, V2Plain, V2Team, V2Passthrough}

ASSUME DataPlaneAssumption ==
    /\ \A r \in Requests : Offered[r] # {} /\ Offered[r] \subseteq RouteTable
    /\ {MaxTasks, TotalAttempts} \subseteq Nat \ {0}
    /\ {Faults, AdminActs} \subseteq BOOLEAN
    /\ Keys # {} /\ None \notin Keys

VARIABLES keys,    \* keys[k]: k is the client's, active and not disabled
          task,    \* upstream: the key that created task t, None when free
          gone,    \* upstream: tasks that were deleted
          binding, \* upstream_resource_bindings: the key t is bound to
          record,  \* the record of the idempotency key
          req,     \* per request: where it is and its local variables
          told,    \* history: tasks whose id the client was given
          excused, \* history: tasks whose binding may be of no use
          unbound  \* history: tasks created on a route that keeps no binding

upstream == <<task, gone>>
vars == <<keys, upstream, binding, record, req, told, excused, unbound>>

\* What a request can end with; "answered" stands for any upstream answer,
\* "error" for an exception of the handler.
Results == {"pending", "answered", "replayed", "error"}

Blank == [pc |-> "idle", result |-> "pending",
          route |-> PlainRoute,
          asked |-> None,    \* the task asked about
          pinned |-> None,   \* pinned_api_key_id
          blind |-> FALSE,   \* the binding could not be read
          fell |-> FALSE,    \* the second path is in use
          attempts |-> 0,    \* upstream calls of the forward() in hand
          key |-> None,      \* the key in hand, then that of the result
          stuck |-> FALSE,   \* the key in hand is the pinned one
          answer |-> "none", \* the class of the upstream's answer
          got |-> None]      \* the task id in the answer

TypeOK ==
    /\ keys \in [Keys -> BOOLEAN]
    /\ task \in [Tasks -> Keys \cup {None}] /\ gone \subseteq Tasks
    /\ binding \in [Tasks -> Keys \cup {None}]
    /\ record \in [state : {"none", "in_progress", "completed"},
                   owner : Requests \cup {None}, got : Tasks \cup {None}]
    /\ req \in [Requests ->
                  [pc : {"idle", "handler", "choose", "call", "answered", "complete", "done"},
                   result : Results, route : RouteTable, asked : Tasks \cup {None},
                   pinned : Keys \cup {None}, blind : BOOLEAN, fell : BOOLEAN,
                   attempts : 0..TotalAttempts, key : Keys \cup {None}, stuck : BOOLEAN,
                   answer : {"none", "ok", "missing", "other"}, got : Tasks \cup {None}]]
    /\ {told, excused, unbound} \subseteq SUBSET Tasks

Init ==
    /\ keys = [k \in Keys |-> TRUE]
    /\ task = [t \in Tasks |-> None]
    /\ gone = {} /\ binding = task
    /\ record = [state |-> "none", owner |-> None, got |-> None]
    /\ req = [r \in Requests |-> Blank]
    /\ told = {} /\ excused = {} /\ unbound = {}
-----------------------------------------------------------------------------
At(r, pc) == req[r].pc = pc
Goes(r, pc) == req' = [req EXCEPT ![r].pc = pc]

\* Whether a database operation succeeds.
Outcomes == IF Faults THEN BOOLEAN ELSE {TRUE}

\* Governance has let the request pass.  A client only asks about tasks whose
\* id it was given.
Arrive(r) ==
    /\ At(r, "idle")
    /\ \E route \in Offered[r], t \in told \cup {None} :
          /\ (t # None) <=> route.flow \in {"status", "delete"}
          /\ req' = [req EXCEPT ![r] = [Blank EXCEPT !.pc = "handler", !.route = route, !.asked = t]]
    /\ UNCHANGED <<keys, upstream, binding, record, told, excused, unbound>>
-----------------------------------------------------------------------------
\* Handlers.  A request that is over; of its answer only that a task was
\* missed is kept, and on which route.
Done(r, result) ==
    LET over == [Blank EXCEPT !.pc = "done", !.result = result]
    IN  IF req[r].answer = "missing"
          THEN [over EXCEPT !.route = req[r].route, !.asked = req[r].asked,
                            !.answer = "missing", !.blind = req[r].blind]
          ELSE over
Failed == [Blank EXCEPT !.pc = "done", !.result = "error"]

\* The client reads the task id in a response.
Tells(t) == told' = told \cup ({t} \ {None})

\* start_or_replay: the insert succeeds, or the record decides.
StartRecord(r, ok) ==
    /\ At(r, "handler") /\ req[r].route.idem
    /\ \/ /\ ok /\ record.state = "none"
          /\ record' = [record EXCEPT !.state = "in_progress", !.owner = r]
          /\ Goes(r, "choose")
          /\ UNCHANGED told
       \/ /\ ok /\ record.state = "completed"
          /\ req' = [req EXCEPT ![r] = Done(r, "replayed")]
          /\ Tells(record.got)
          /\ UNCHANGED record
       \/ /\ ~ok \/ record.state = "in_progress"
          /\ req' = [req EXCEPT ![r] = Failed]
          /\ UNCHANGED <<record, told>>
    /\ UNCHANGED <<keys, upstream, binding, excused, unbound>>

\* lookup_bound_key_id; an error is the same as no binding.
Lookup(r, ok) ==
    /\ At(r, "handler") /\ req[r].route.bind /\ req[r].route.flow # "create"
    /\ req' = [req EXCEPT ![r].pc = "choose", ![r].blind = ~ok,
                          ![r].pinned = IF ok THEN binding[req[r].asked] ELSE None]
    /\ UNCHANGED <<keys, upstream, binding, record, told, excused, unbound>>

\* Handlers without a record or a binding to look up.
Proceed(r) ==
    /\ At(r, "handler")
    /\ ~req[r].route.idem /\ (req[r].route.flow \in {"plain", "create"} \/ ~req[r].route.bind)
    /\ Goes(r, "choose")
    /\ UNCHANGED <<keys, upstream, binding, record, told, excused, unbound>>
-----------------------------------------------------------------------------
\* forward(), as its callers see it.

PinUsable(r) == req[r].pinned # None /\ keys[req[r].pinned]

\* The pinned key, if it is still in the client's service.
ChoosePinned(r) ==
    /\ At(r, "choose") /\ PinUsable(r)
    /\ req' = [req EXCEPT ![r].pc = "call", ![r].key = req[r].pinned, ![r].stuck = TRUE]
    /\ UNCHANGED <<keys, upstream, binding, record, told, excused, unbound>>

\* Otherwise a key of the pool.
ChoosePool(r) ==
    /\ At(r, "choose") /\ ~PinUsable(r)
    /\ \E k \in Keys : /\ keys[k]
                       /\ req' = [req EXCEPT ![r].pc = "call", ![r].key = k, ![r].stuck = FALSE]
    /\ UNCHANGED <<keys, upstream, binding, record, told, excused, unbound>>

\* No key, or none that is free, decrypts and is within its limits; or the
\* database fails.
NoKey(r) ==
    /\ At(r, "choose")
    /\ req' = [req EXCEPT ![r] = Failed]
    /\ UNCHANGED <<keys, upstream, binding, record, told, excused, unbound>>

\* The upstream: a task is known to the key that created it only.
Finds(r) == task[req[r].asked] = req[r].key /\ req[r].asked \notin gone
FreeTasks == {t \in Tasks : task[t] = None}

\* The task a creation makes, if it makes one.
Creates(r, t) ==
    /\ req[r].route.flow = "create" /\ t \in FreeTasks /\ \A u \in FreeTasks : t <= u
    /\ task' = [task EXCEPT ![t] = req[r].key]
    /\ unbound' = IF req[r].route.bind THEN unbound ELSE unbound \cup {t}
    /\ excused' = IF keys[req[r].key] THEN excused ELSE excused \cup {t}
    /\ UNCHANGED gone

Deletes(r) ==
    /\ req[r].route.flow = "delete" /\ Finds(r)
    /\ gone' = gone \cup {req[r].asked}
    /\ UNCHANGED <<task, excused, unbound>>

Reads(r) ==
    /\ req[r].route.flow \in {"plain", "create"} \/ (req[r].route.flow = "status" /\ Finds(r))
    /\ UNCHANGED <<upstream, excused, unbound>>

\* forward() returns; its caller learns the key from the result.
Returned(r, answer, t) ==
    [req[r] EXCEPT !.pc = "answered", !.answer = answer, !.got = t,
                   !.attempts = 0, !.stuck = FALSE, !.key = IF t = None THEN None ELSE @]

\* A 2xx answer; a creation may be answered without an id.  When the usage
\* cannot be written the answer is lost, not what the upstream did.
CallOk(r, ok) ==
    /\ At(r, "call")
    /\ \E t \in Tasks \cup {None} :
          /\ \/ t # None /\ Creates(r, t)
             \/ t = None /\ (Deletes(r) \/ Reads(r))
          /\ req' = [req EXCEPT ![r] = IF ok THEN Returned(r, "ok", t) ELSE Failed]
    /\ UNCHANGED <<keys, binding, record, told>>

\* An answer that is not 2xx and is returned: 404 or 405 where the key does
\* not know the task or the upstream does not know the path, or another.
CallNotOk(r) ==
    /\ At(r, "call")
    /\ \E answer \in {"missing", "other"} :
          /\ answer = "missing" => \/ req[r].route.flow \in {"status", "delete"} /\ ~Finds(r)
                                   \/ req[r].route.fallback /\ ~req[r].fell
          /\ req' = [req EXCEPT ![r] = Returned(r, answer, None)]
    /\ UNCHANGED <<keys, upstream, binding, record, told, excused, unbound>>

\* forward() calls again after a failure: the pinned key again, or another
\* key of the pool.
Again(r) == [req[r] EXCEPT !.pc = IF req[r].stuck THEN "call" ELSE "choose", !.attempts = @ + 1]

\* Mutant of HasAttempt: one call too many.
HasAttemptMore(r) == req[r].attempts <= TotalAttempts

\* A call that fails now is followed by another one.
HasAttempt(r) == req[r].attempts + 1 < TotalAttempts

\* A timeout, a transport error or a 5xx answer: the upstream may have done
\* what it was asked to do.  The last one is raised, or returned if it is an
\* answer.  A 429 that sends the request to another key is a failure too.
CallFails(r) ==
    /\ At(r, "call")
    /\ \/ UNCHANGED <<upstream, excused, unbound>>
       \/ Deletes(r)
       \/ \E t \in Tasks : Creates(r, t)
    /\ \/ HasAttempt(r) /\ req' = [req EXCEPT ![r] = Again(r)]
       \/ ~HasAttempt(r) /\ req' = [req EXCEPT ![r] = Failed]
       \/ ~HasAttempt(r) /\ req' = [req EXCEPT ![r] = Returned(r, "other", None)]
    /\ UNCHANGED <<keys, binding, record, told>>

\* 401 or 403: the key leaves the service.  The pinned key's answer is
\* returned, the pool's request goes on with another key.
CallRejected(r) ==
    /\ At(r, "call")
    /\ keys' = [keys EXCEPT ![req[r].key] = FALSE]
    /\ excused' = excused \cup {t \in Tasks : task[t] = req[r].key}
    /\ req' = [req EXCEPT ![r] =
                 IF ~req[r].stuck /\ HasAttempt(r) THEN Again(r) ELSE Returned(r, "other", None)]
    /\ UNCHANGED <<upstream, binding, record, told, unbound>>
-----------------------------------------------------------------------------
\* After forward().

\* _forward_with_fallback: the other path, with the same pinned key.
FallsBack(r) == req[r].answer = "missing" /\ req[r].route.fallback /\ ~req[r].fell

Fallback(r) ==
    /\ At(r, "answered") /\ FallsBack(r)
    /\ req' = [req EXCEPT ![r].pc = "choose", ![r].fell = TRUE, ![r].answer = "none"]
    /\ UNCHANGED <<keys, upstream, binding, record, told, excused, unbound>>

\* Mutant of Binds: what the second path created is not bound.
BindsFirstPath(r) ==
    /\ req[r].route.flow = "create" /\ req[r].route.bind
    /\ req[r].got # None /\ ~req[r].fell

\* _maybe_bind_created_resource: only a 2xx answer with an id is bound.
Binds(r) == req[r].route.flow = "create" /\ req[r].route.bind /\ req[r].got # None

\* bind_resource: an existing binding keeps its key; an error is swallowed.
Bind(r, ok) ==
    LET t == req[r].got
    IN  /\ At(r, "answered") /\ ~FallsBack(r) /\ Binds(r)
        /\ binding' = IF ok /\ binding[t] = None THEN [binding EXCEPT ![t] = req[r].key] ELSE binding
        /\ excused' = IF ok THEN excused ELSE excused \cup {t}
        /\ Goes(r, "complete")
        /\ UNCHANGED <<keys, upstream, record, told, unbound>>

\* complete(), after the binding if there is one to make: the record takes
\* the answer, if it is still the request's own and the commit succeeds; then
\* the client receives the response.
Complete(r, ok) ==
    /\ At(r, "complete") \/ (At(r, "answered") /\ ~FallsBack(r) /\ ~Binds(r))
    /\ record' = IF ok /\ req[r].route.idem /\ record.owner = r
                   THEN [record EXCEPT !.state = "completed", !.got = req[r].got] ELSE record
    /\ req' = [req EXCEPT ![r] = Done(r, "answered")]
    /\ Tells(req[r].got)
    /\ UNCHANGED <<keys, upstream, binding, excused, unbound>>
-----------------------------------------------------------------------------
\* The environment.

\* The record reaches its expires_at and is deleted.
RecordExpires ==
    /\ record.state # "none" /\ AdminActs
    /\ record' = [state |-> "none", owner |-> None, got |-> None]
    /\ UNCHANGED <<keys, upstream, binding, req, told, excused, unbound>>

\* delete_key, purge_key, or update_key with another client: the key leaves.
KeyLeaves(k) ==
    /\ AdminActs /\ keys[k]
    /\ keys' = [keys EXCEPT ![k] = FALSE]
    /\ excused' = excused \cup {t \in Tasks : task[t] = k}
    /\ UNCHANGED <<upstream, binding, record, req, told, unbound>>

\* No request is under way.
Quiet == (\A r \in Requests : At(r, "idle") \/ At(r, "done")) /\ UNCHANGED vars

Step(r) ==
    \/ Arrive(r) \/ Proceed(r)
    \/ ChoosePinned(r) \/ ChoosePool(r) \/ NoKey(r)
    \/ CallNotOk(r) \/ CallFails(r) \/ CallRejected(r)
    \/ Fallback(r)
    \/ \E ok \in Outcomes :
          \/ StartRecord(r, ok) \/ Lookup(r, ok) \/ CallOk(r, ok)
          \/ Bind(r, ok) \/ Complete(r, ok)

Next ==
    \/ \E r \in Requests : Step(r)
    \/ \E k \in Keys : KeyLeaves(k)
    \/ RecordExpires \/ Quiet

Spec == Init /\ [][Next]_vars
-----------------------------------------------------------------------------
\* Properties.

\* A task that a /v2 route created and whose id the client was given, directly
\* or by a replay, is found by every later /v2 request about it, unless the
\* client deleted it, the key that created it left the client's service, the
\* binding could not be written, or the request could not read it
\* (firecrawl_v2_compat.py 61-130, resource_binding.py).  Nothing is claimed of
\* /api and /v1, though the documents list their GET /crawl/{id}
\* (docs/API-Usage.md 206 and 262): tasks they create are bound to no key, also
\* when a /v2 request replays their answer, and their questions go to any key.
ToldIsFound ==
    \A r \in Requests :
        (At(r, "done") /\ req[r].asked # None /\ req[r].answer = "missing" /\ req[r].route.bind)
            => req[r].asked \in excused \cup unbound \cup gone \/ req[r].blind
=============================================================================
