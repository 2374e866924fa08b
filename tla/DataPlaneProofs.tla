-------------------------- MODULE DataPlaneProofs --------------------------
(***************************************************************************)
(* A client finds the tasks whose ids it was given, for every set of       *)
(* requests, routes and upstream keys, whatever the upstream, the database *)
(* and the administrators do.                                              *)
(*                                                                         *)
(* ToldIsFound speaks of the end of a request and is not inductive.  What  *)
(* is: a task that the client knows, or may come to know by a replay, is   *)
(* bound to the key that created it or is excused; a /v2 request about a   *)
(* task carries the task's key from the binding into its call; and a       *)
(* request that creates a task carries the creating key to the binding.    *)
(***************************************************************************)
EXTENDS DataPlane, TLAPS

Routes == [flow : Flows, idem : BOOLEAN, bind : BOOLEAN, fallback : BOOLEAN]

ReqStates == [pc : {"idle", "handler", "choose", "call", "answered", "complete", "done"},
              result : Results, route : RouteTable, asked : Tasks \cup {None},
              pinned : Keys \cup {None}, blind : BOOLEAN, fell : BOOLEAN,
              attempts : 0..TotalAttempts, key : Keys \cup {None}, stuck : BOOLEAN,
              answer : {"none", "ok", "missing", "other"}, got : Tasks \cup {None}]

\* Nothing is claimed of a task that was created without a binding, as of one
\* whose binding was not written.
Lost == excused \cup unbound

\* What the requests share, but for the record.
World == [keys |-> keys, task |-> task, gone |-> gone, binding |-> binding, told |-> told, excused |-> Lost]
Worlds == [keys : [Keys -> BOOLEAN], task : [Tasks -> Keys \cup {None}], gone : SUBSET Tasks,
           binding : [Tasks -> Keys \cup {None}], told : SUBSET Tasks, excused : SUBSET Tasks]

\* The task exists, and its binding leads to it or is excused.
Kept(t, w) == w.task[t] # None /\ (t \in w.excused \/ w.binding[t] = w.task[t])

WorldOK(w) ==
    /\ w \in Worlds
    /\ \A t \in Tasks : w.binding[t] \in {None, w.task[t]}
    /\ \A t \in Tasks : w.task[t] # None /\ ~w.keys[w.task[t]] => t \in w.excused
    /\ \A t \in w.told : Kept(t, w)

\* A request x about a task.
Asks(x, w) ==
    /\ x.route.flow \in {"status", "delete"} => x.asked # None
    /\ x.asked # None => x.asked \in w.told /\ (x.pc # "done" => x.route.flow \in {"status", "delete"})
    /\ x.asked # None /\ x.route.bind /\ x.pc \in {"choose", "call", "answered"} =>
          x.blind \/ x.asked \in w.excused \/ x.pinned = w.task[x.asked]
    /\ x.asked # None /\ x.route.bind /\ x.pc = "call" =>
          x.blind \/ x.asked \in w.excused \/ x.key = w.task[x.asked]

\* It misses the task with an excuse, unless it tries the second path.
Misses(x, w) ==
    /\ x.answer = "missing" => x.pc \in {"answered", "complete", "done"}
    /\ x.answer = "missing" /\ x.asked # None /\ x.route.bind /\ ~(x.pc = "answered" /\ x.route.fallback /\ ~x.fell) =>
          x.asked \in w.excused \cup w.gone \/ x.blind

\* A request x that was told of the task it created.
Made(x, w) ==
    /\ x.pc = "call" => x.key \in Keys
    /\ x.pc = "complete" => x.got # None
    /\ x.got # None =>
          /\ x.pc \in {"answered", "complete"} /\ x.route.flow = "create" /\ x.answer = "ok"
          /\ x.key \in Keys /\ x.key = w.task[x.got]
          /\ ~x.route.bind => x.got \in w.excused
          /\ x.pc = "complete" => Kept(x.got, w)

ReqOK(x, w) == x \in ReqStates /\ Asks(x, w) /\ Misses(x, w) /\ Made(x, w)

\* The answer in the record may be replayed.
RecordOK(rec, w) ==
    /\ rec \in [state : {"none", "in_progress", "completed"}, owner : Requests \cup {None}, got : Tasks \cup {None}]
    /\ rec.got # None => Kept(rec.got, w)

\* The inductive invariant.
DataPlaneInv ==
    /\ WorldOK(World) /\ RecordOK(record, World)
    /\ req = [r \in Requests |-> req[r]] /\ \A r \in Requests : ReqOK(req[r], World)
-----------------------------------------------------------------------------
\* The constants.

LEMMA Constants ==
    /\ MaxTasks \in Nat \ {0} /\ TotalAttempts \in Nat \ {0}
    /\ None \notin Keys /\ None \notin Tasks /\ None \in Int
    /\ \A r \in Requests : Offered[r] \subseteq RouteTable
    /\ Tasks \subseteq Int
<1>1. {MaxTasks, TotalAttempts} \subseteq Nat \ {0}
  BY DataPlaneAssumption
<1>2. MaxTasks \in Nat \ {0} /\ TotalAttempts \in Nat \ {0}
  BY <1>1
<1> QED
  BY <1>2, DataPlaneAssumption DEF None, Tasks

\* A route that asks about a task keeps no record; one that keeps a binding
\* creates a task or asks about one.
LEMMA RouteFacts ==
    ASSUME NEW x \in RouteTable
    PROVE  /\ x \in Routes
           /\ x.flow \in {"status", "delete"} => ~x.idem
           /\ x.bind => x.flow # "plain"
<1> DEFINE Good(y) == /\ y \in Routes /\ (y.flow \in {"status", "delete"} => ~y.idem)
                      /\ (y.bind => y.flow # "plain")
<1>1. Good(PlainRoute) /\ PlainRoute \in RouteTable
  BY DEF PlainRoute, Routes, Flows, RouteTable, ApiPlain
<1>2. Good(ApiCrawl)
  BY DEF PlainRoute, Routes, Flows, ApiCrawl
<1>3. Good(ApiAgent)
  BY <1>2 DEF Routes, Flows, ApiAgent
<1>4. Good(V2Crawl)
  BY DEF V2Crawl, Routes, Flows
<1>5. Good(V2Agent)
  BY DEF V2Crawl, V2Agent, Routes, Flows
<1>6. Good(V2Batch)
  BY DEF V2Crawl, V2Batch, Routes, Flows
<1>7. Good(V2Browser)
  BY DEF V2Crawl, V2Agent, V2Browser, Routes, Flows
<1>8. Good(V2CrawlStatus)
  BY DEF V2CrawlStatus, Routes, Flows
<1>9. Good(V2Errors)
  BY DEF V2CrawlStatus, V2Errors, Routes, Flows
<1>10. Good(V2Delete)
  BY DEF V2CrawlStatus, V2Errors, V2Delete, Routes, Flows
<1>11. Good(ApiStatus)
  BY DEF PlainRoute, Routes, Flows, ApiStatus
<1>12. Good(x)
  <2> HIDE DEF Good
  <2> QED
    BY <1>1, <1>2, <1>3, <1>4, <1>5, <1>6, <1>7, <1>8, <1>9, <1>10, <1>11
    DEF RouteTable, ApiPlain, V1Crawl, V1Agent, V1Status, V1Plain, ExaPlain, V2Extract, V2BatchStatus, V2AgentStatus,
        V2BrowserExecute, V2ExtractStatus, V2BatchDelete, V2AgentDelete, V2BrowserDelete, V2CrawlPlain,
        V2BrowserList, V2Plain, V2Team, V2Passthrough
<1> QED
  BY <1>12

LEMMA BlankTyped ==
    /\ Blank \in ReqStates
    /\ Blank.pc = "idle" /\ Blank.asked = None /\ Blank.got = None /\ Blank.answer = "none"
    /\ Blank.route = PlainRoute /\ Blank.route.flow = "plain"
<1>1. PlainRoute \in RouteTable /\ PlainRoute.flow = "plain"
  BY DEF RouteTable, ApiPlain, PlainRoute
<1>2. "pending" \in Results
  BY DEF Results
<1>3. 0 \in 0..TotalAttempts
  BY Constants
<1> QED
  BY <1>1, <1>2, <1>3 DEF Blank, ReqStates
-----------------------------------------------------------------------------
\* How the shared state grows: a task keeps its key, a binding that leads to
\* its task stays, and nothing is forgotten.
Grows(w, v) ==
    /\ \A t \in Tasks : w.task[t] # None => v.task[t] = w.task[t]
    /\ \A t \in Tasks : w.task[t] # None /\ w.binding[t] = w.task[t] => v.binding[t] = w.task[t]
    /\ w.excused \subseteq v.excused /\ w.gone \subseteq v.gone /\ w.told \subseteq v.told

LEMMA KeptGrows ==
    ASSUME NEW w, NEW v, Grows(w, v), NEW t \in Tasks, Kept(t, w)
    PROVE  Kept(t, v)
BY DEF Grows, Kept

\* A request that does nothing stays right while the others work.
LEMMA ReqGrows ==
    ASSUME NEW w, NEW v, NEW x, WorldOK(w), Grows(w, v), ReqOK(x, w)
    PROVE  ReqOK(x, v)
<1>1. x \in ReqStates /\ w.told \subseteq Tasks
  BY DEF ReqOK, WorldOK, Worlds
<1>2. x.asked # None => x.asked \in Tasks /\ x.asked \in w.told /\ v.task[x.asked] = w.task[x.asked]
  <2> SUFFICES ASSUME x.asked # None
               PROVE  x.asked \in Tasks /\ x.asked \in w.told /\ v.task[x.asked] = w.task[x.asked]
    OBVIOUS
  <2>1. x.asked \in w.told
    BY DEF ReqOK, Asks
  <2>2. Kept(x.asked, w)
    BY <2>1 DEF WorldOK
  <2>3. QED
    BY <1>1, <2>1, <2>2 DEF Kept, Grows
<1>3. Asks(x, v)
  BY <1>2 DEF ReqOK, Asks, Grows
<1>4. Misses(x, v)
  BY DEF ReqOK, Misses, Grows
<1>5. Made(x, v)
  <2>1. Made(x, w)
    BY DEF ReqOK
  <2>2. x.got # None => x.got \in Tasks /\ v.task[x.got] = w.task[x.got]
    <3>1. x.got # None => x.got \in Tasks
      BY <1>1 DEF ReqStates
    <3>2. x.got # None => w.task[x.got] # None
      BY <2>1, Constants DEF Made
    <3>3. QED
      BY <3>1, <3>2 DEF Grows
  <2>3. x.got # None /\ x.pc = "complete" => Kept(x.got, v)
    BY <2>1, <2>2, KeptGrows DEF Made
  <2>4. QED
    BY <2>1, <2>2, <2>3 DEF Made, Grows
<1> QED
  BY <1>1, <1>3, <1>4, <1>5 DEF ReqOK

LEMMA RecordGrows ==
    ASSUME NEW w, NEW v, NEW rec, Grows(w, v), RecordOK(rec, w)
    PROVE  RecordOK(rec, v)
<1>1. rec.got # None => rec.got \in Tasks
  BY DEF RecordOK
<1> QED
  BY <1>1, KeptGrows DEF RecordOK

LEMMA WorldStays ==
    ASSUME UNCHANGED <<keys, upstream, binding, told, excused, unbound>>
    PROVE  World' = World /\ Grows(World, World')
BY DEF World, upstream, Grows, Lost

\* What a step of request r establishes; x is what becomes of the request.
Moves(r, x) ==
    /\ req' = [req EXCEPT ![r] = x] /\ ReqOK(x, World')
    /\ WorldOK(World') /\ Grows(World, World') /\ RecordOK(record', World')
-----------------------------------------------------------------------------
\* The shared state under the parts of the actions that change it.

\* Facts about the request in hand.
LEMMA InHand ==
    ASSUME DataPlaneInv, NEW r \in Requests
    PROVE  /\ req[r] \in ReqStates /\ Asks(req[r], World) /\ Misses(req[r], World) /\ Made(req[r], World)
           /\ WorldOK(World) /\ RecordOK(record, World)
           /\ req = [q \in Requests |-> req[q]]
           /\ req[r].asked # None => req[r].asked \in Tasks /\ req[r].asked \in told /\ Kept(req[r].asked, World)
<1>1. /\ req[r] \in ReqStates /\ Asks(req[r], World) /\ Misses(req[r], World) /\ Made(req[r], World)
      /\ WorldOK(World) /\ RecordOK(record, World) /\ req = [q \in Requests |-> req[q]]
  BY DEF DataPlaneInv, ReqOK
<1>2. World.told = told
  BY DEF World
<1>3. req[r].asked # None => req[r].asked \in told
  BY <1>1, <1>2 DEF Asks
<1> QED
  BY <1>1, <1>2, <1>3 DEF WorldOK, ReqStates

LEMMA CreatesGrows ==
    ASSUME DataPlaneInv, NEW r \in Requests, At(r, "call"), NEW t \in Tasks, Creates(r, t),
           UNCHANGED <<keys, binding, told>>
    PROVE  /\ WorldOK(World') /\ Grows(World, World')
           /\ req[r].route.flow = "create" /\ req[r].key \in Keys
           /\ World'.task[t] = req[r].key
           /\ ~req[r].route.bind => t \in World'.excused
<1>1. /\ World = [keys |-> keys, task |-> task, gone |-> gone, binding |-> binding, told |-> told,
                  excused |-> Lost]
      /\ World' = [keys |-> keys, task |-> task', gone |-> gone, binding |-> binding, told |-> told,
                   excused |-> Lost']
  BY DEF World, Creates
<1>2. WorldOK(World) /\ req[r].key \in Keys
  BY InHand DEF Made, At
<1>3. /\ keys \in [Keys -> BOOLEAN] /\ task \in [Tasks -> Keys \cup {None}] /\ gone \subseteq Tasks
      /\ binding \in [Tasks -> Keys \cup {None}] /\ told \subseteq Tasks /\ Lost \subseteq Tasks
  BY <1>1, <1>2 DEF WorldOK, Worlds
<1>4. task[t] = None /\ task' = [task EXCEPT ![t] = req[r].key]
  BY DEF Creates, FreeTasks
<1>5. /\ Lost \subseteq Lost' /\ Lost' \subseteq Lost \cup {t}
      /\ t \in Lost' \/ (req[r].route.bind /\ keys[req[r].key])
  BY DEF Creates, Lost
<1>6. /\ \A u \in Tasks : binding[u] \in {None, task[u]}
      /\ \A u \in Tasks : task[u] # None /\ ~keys[task[u]] => u \in Lost
      /\ \A u \in told : task[u] # None /\ (u \in Lost \/ binding[u] = task[u])
  BY <1>1, <1>2 DEF WorldOK, Kept
<1>7. World' \in Worlds
  BY <1>1, <1>2, <1>3, <1>4, <1>5 DEF Worlds
<1>8. WorldOK(World')
  <2>1. \A u \in Tasks : binding[u] \in {None, task'[u]}
    BY <1>3, <1>4, <1>6
  <2>2. \A u \in Tasks : task'[u] # None /\ ~keys[task'[u]] => u \in Lost'
    BY <1>3, <1>4, <1>5, <1>6
  <2>3. \A u \in told : task'[u] # None /\ (u \in Lost' \/ binding[u] = task'[u])
    BY <1>3, <1>4, <1>5, <1>6
  <2>4. QED
    BY <1>1, <1>7, <2>1, <2>2, <2>3 DEF WorldOK, Kept
<1>9. Grows(World, World')
  BY <1>1, <1>3, <1>4, <1>5 DEF Grows
<1> QED
  BY <1>1, <1>2, <1>3, <1>4, <1>5, <1>8, <1>9 DEF Creates

LEMMA DeletesGrows ==
    ASSUME DataPlaneInv, NEW r \in Requests, Deletes(r), UNCHANGED <<keys, binding, told>>
    PROVE  WorldOK(World') /\ Grows(World, World')
<1>1. /\ World = [keys |-> keys, task |-> task, gone |-> gone, binding |-> binding, told |-> told,
                  excused |-> Lost]
      /\ World' = [keys |-> keys, task |-> task, gone |-> gone', binding |-> binding, told |-> told,
                   excused |-> Lost]
  BY DEF World, Deletes, Lost
<1>2. WorldOK(World) /\ req[r].asked \in Tasks
  BY InHand DEF Deletes, Asks
<1>3. gone' \subseteq Tasks /\ gone \subseteq gone'
  BY <1>1, <1>2 DEF Deletes, WorldOK, Worlds
<1>4. World' \in Worlds
  BY <1>1, <1>2, <1>3 DEF WorldOK, Worlds
<1> QED
  BY <1>1, <1>2, <1>3, <1>4 DEF WorldOK, Kept, Grows

LEMMA LeavesGrows ==
    ASSUME DataPlaneInv, NEW k \in Keys, keys' = [keys EXCEPT ![k] = FALSE],
           excused' = excused \cup {t \in Tasks : task[t] = k}, UNCHANGED <<upstream, binding, told, unbound>>
    PROVE  WorldOK(World') /\ Grows(World, World')
<1>1. /\ World = [keys |-> keys, task |-> task, gone |-> gone, binding |-> binding, told |-> told,
                  excused |-> Lost]
      /\ World' = [keys |-> keys', task |-> task, gone |-> gone, binding |-> binding, told |-> told,
                   excused |-> Lost']
  BY DEF World, upstream
<1>2. WorldOK(World)
  BY DEF DataPlaneInv
<1>3. /\ keys \in [Keys -> BOOLEAN] /\ task \in [Tasks -> Keys \cup {None}] /\ Lost \subseteq Tasks
      /\ \A t \in Tasks : task[t] # None /\ ~keys[task[t]] => t \in Lost
      /\ Lost' = Lost \cup {t \in Tasks : task[t] = k}
  BY <1>1, <1>2 DEF WorldOK, Worlds, Lost
<1>4. Lost \subseteq Lost' /\ Lost' \subseteq Tasks /\ keys' \in [Keys -> BOOLEAN]
  BY <1>3
<1>5. \A t \in Tasks : task[t] # None /\ ~keys'[task[t]] => t \in Lost'
  BY <1>3
<1>6. World' \in Worlds
  BY <1>1, <1>2, <1>4 DEF WorldOK, Worlds
<1> QED
  BY <1>1, <1>2, <1>4, <1>5, <1>6 DEF WorldOK, Kept, Grows

\* The client may be told of a task that is kept.
LEMMA TellsGrows ==
    ASSUME DataPlaneInv, NEW t \in Tasks \cup {None}, t # None => Kept(t, World), Tells(t),
           UNCHANGED <<keys, upstream, binding, excused, unbound>>
    PROVE  WorldOK(World') /\ Grows(World, World')
<1>1. /\ World = [keys |-> keys, task |-> task, gone |-> gone, binding |-> binding, told |-> told,
                  excused |-> Lost]
      /\ World' = [keys |-> keys, task |-> task, gone |-> gone, binding |-> binding, told |-> told',
                   excused |-> Lost]
  BY DEF World, upstream, Lost
<1>2. WorldOK(World)
  BY DEF DataPlaneInv
<1>3. told' \subseteq Tasks /\ told \subseteq told'
  BY <1>1, <1>2 DEF Tells, WorldOK, Worlds
<1>4. \A u \in told' : Kept(u, World)
  BY <1>1, <1>2 DEF Tells, WorldOK
<1>5. World' \in Worlds
  BY <1>1, <1>2, <1>3 DEF WorldOK, Worlds
<1> QED
  BY <1>1, <1>2, <1>3, <1>4, <1>5 DEF WorldOK, Kept, Grows
-----------------------------------------------------------------------------
\* The handlers.

\* A request that failed is right in every world.
LEMMA FailedOK ==
    ASSUME NEW w PROVE ReqOK(Failed, w)
<1>1. /\ Failed \in ReqStates /\ Failed.pc = "done" /\ Failed.asked = None /\ Failed.got = None
      /\ Failed.answer = "none" /\ Failed.route.flow = "plain"
  <2>1. "error" \in Results
    BY DEF Results
  <2>2. QED
    BY <2>1, BlankTyped DEF Failed, ReqStates
<1> QED
  BY <1>1, Constants DEF ReqOK, Asks, Misses, Made

\* So is one that is over, if the task it missed is excused.
LEMMA DoneOK ==
    ASSUME NEW w, NEW r \in Requests, NEW result \in Results, req[r] \in ReqStates,
           req[r].answer = "missing" /\ req[r].route.flow \in {"status", "delete"} => req[r].asked # None,
           req[r].answer = "missing" /\ req[r].asked # None => req[r].asked \in w.told,
           req[r].answer = "missing" /\ req[r].asked # None /\ req[r].route.bind =>
             (req[r].asked \in w.excused \cup w.gone \/ req[r].blind)
    PROVE  ReqOK(Done(r, result), w)
<1> DEFINE over == [Blank EXCEPT !.pc = "done", !.result = result]
           x == Done(r, result)
<1>1. /\ over \in ReqStates /\ over.pc = "done" /\ over.asked = None /\ over.got = None
      /\ over.answer = "none" /\ over.route.flow = "plain"
  BY BlankTyped DEF ReqStates
<1>2. CASE req[r].answer = "missing"
  <2>1. x = [over EXCEPT !.route = req[r].route, !.asked = req[r].asked, !.answer = "missing",
                         !.blind = req[r].blind]
    BY <1>2 DEF Done
  <2> HIDE DEF over, x
  <2>2. /\ x \in ReqStates /\ x.pc = "done" /\ x.asked = req[r].asked /\ x.got = None /\ x.blind = req[r].blind
        /\ x.route = req[r].route
    BY <1>1, <2>1 DEF ReqStates
  <2>3. ReqOK(x, w)
    BY <1>2, <2>2, Constants DEF ReqOK, Asks, Misses, Made
  <2>4. QED
    BY <2>3 DEF x
<1>3. CASE req[r].answer # "missing"
  <2>1. x = over
    BY <1>3 DEF Done
  <2> HIDE DEF over, x
  <2>2. ReqOK(x, w)
    BY <1>1, <2>1, Constants DEF ReqOK, Asks, Misses, Made
  <2>3. QED
    BY <2>2 DEF x
<1> QED
  BY <1>2, <1>3

LEMMA ArriveMoves ==
    ASSUME DataPlaneInv, NEW r \in Requests, Arrive(r)
    PROVE  \E x : Moves(r, x)
<1>1. PICK route \in Offered[r], t \in told \cup {None} :
        /\ (t # None) <=> route.flow \in {"status", "delete"}
        /\ req' = [req EXCEPT ![r] = [Blank EXCEPT !.pc = "handler", !.route = route, !.asked = t]]
  BY DEF Arrive
<1> DEFINE x == [Blank EXCEPT !.pc = "handler", !.route = route, !.asked = t]
<1>2. World' = World /\ Grows(World, World') /\ record' = record
  BY WorldStays DEF Arrive
<1>3. World.told = told /\ told \subseteq Tasks
  BY InHand DEF WorldOK, Worlds, World
<1>4. route \in RouteTable
  BY Constants
<1>5. /\ x \in ReqStates /\ x.pc = "handler" /\ x.route = route /\ x.asked = t /\ x.got = None /\ x.answer = "none"
  BY <1>3, <1>4, BlankTyped DEF ReqStates
<1> HIDE DEF x
<1>6. ReqOK(x, World)
  BY <1>1, <1>3, <1>5 DEF ReqOK, Asks, Misses, Made
<1>7. req' = [req EXCEPT ![r] = x]
  BY <1>1 DEF x
<1> QED
  BY <1>2, <1>6, <1>7, InHand DEF Moves

\* A request that moves on and changes nothing else.
LEMMA GoesMoves ==
    ASSUME DataPlaneInv, NEW r \in Requests, NEW x, req' = [req EXCEPT ![r] = x], ReqOK(x, World),
           UNCHANGED <<keys, upstream, binding, told, excused, unbound>>, RecordOK(record', World)
    PROVE  Moves(r, x)
<1>1. World' = World /\ Grows(World, World')
  BY WorldStays
<1> QED
  BY <1>1, InHand DEF Moves

LEMMA ProceedMoves ==
    ASSUME DataPlaneInv, NEW r \in Requests, Proceed(r)
    PROVE  \E x : Moves(r, x)
<1> DEFINE x == [req[r] EXCEPT !.pc = "choose"]
<1>1. x \in ReqStates /\ x.pc = "choose" /\ x.route = req[r].route /\ x.asked = req[r].asked /\ x.got = req[r].got
      /\ x.answer = req[r].answer
  BY InHand DEF ReqStates
<1>2. req' = [req EXCEPT ![r] = x]
  BY InHand DEF Proceed, Goes
<1>3. req[r].route \in RouteTable
  BY InHand DEF ReqStates
<1>4. (req[r].asked = None \/ ~req[r].route.bind) /\ req[r].got = None /\ req[r].answer # "missing"
  BY <1>3, InHand, RouteFacts DEF Proceed, At, Asks, Made, Misses
<1> HIDE DEF x
<1>5. ReqOK(x, World)
  BY <1>1, <1>4, InHand DEF ReqOK, Asks, Misses, Made, Proceed, At
<1> QED
  BY <1>2, <1>5, GoesMoves, InHand DEF Proceed

LEMMA LookupMoves ==
    ASSUME DataPlaneInv, NEW r \in Requests, NEW ok \in BOOLEAN, Lookup(r, ok)
    PROVE  \E x : Moves(r, x)
<1> DEFINE p == IF ok THEN binding[req[r].asked] ELSE None
           x == [req[r] EXCEPT !.pc = "choose", !.blind = ~ok, !.pinned = p]
<1>1. req[r].route \in RouteTable
  BY InHand DEF ReqStates
<1>2. req[r].route.flow \in {"status", "delete"}
  BY <1>1, RouteFacts DEF Lookup, Routes, Flows
<1>3. req[r].asked # None /\ req[r].asked \in Tasks /\ Kept(req[r].asked, World)
  BY <1>2, InHand DEF Asks
<1>4. binding \in [Tasks -> Keys \cup {None}] /\ World.binding = binding
  BY InHand DEF WorldOK, Worlds, World
<1>5. req[r].got = None /\ req[r].answer # "missing"
  BY InHand DEF Lookup, At, Made, Misses
<1>6. req' = [req EXCEPT ![r] = x]
  BY InHand DEF Lookup
<1>7. p \in Keys \cup {None} /\ (ok => req[r].asked \in World.excused \/ p = World.task[req[r].asked])
  BY <1>3, <1>4 DEF Kept
<1> HIDE DEF p
<1>8. /\ x \in ReqStates /\ x.pc = "choose" /\ x.route = req[r].route /\ x.asked = req[r].asked
      /\ x.got = req[r].got /\ x.answer = req[r].answer /\ x.blind = ~ok /\ x.pinned = p
  BY <1>7, InHand DEF ReqStates
<1> HIDE DEF x
<1>9. ReqOK(x, World)
  BY <1>2, <1>3, <1>5, <1>7, <1>8, InHand DEF ReqOK, Asks, Misses, Made
<1> QED
  BY <1>6, <1>9, GoesMoves, InHand DEF Lookup

\* A replay tells the client of the task in the record.
LEMMA StartRecordMoves ==
    ASSUME DataPlaneInv, NEW r \in Requests, NEW ok \in BOOLEAN, StartRecord(r, ok)
    PROVE  \E x : Moves(r, x)
<1>1. /\ record \in [state : {"none", "in_progress", "completed"}, owner : Requests \cup {None},
                     got : Tasks \cup {None}]
      /\ record.got # None => Kept(record.got, World)
  BY InHand DEF RecordOK
<1>2. req[r].route \in RouteTable
  BY InHand DEF ReqStates
<1>3. req[r].asked = None /\ req[r].got = None /\ req[r].answer # "missing"
  BY <1>2, InHand, RouteFacts DEF StartRecord, At, Asks, Made, Misses
<1>4. CASE /\ record' = [record EXCEPT !.state = "in_progress", !.owner = r]
           /\ Goes(r, "choose") /\ UNCHANGED told
  <2> DEFINE x == [req[r] EXCEPT !.pc = "choose"]
  <2>1. /\ x \in ReqStates /\ x.pc = "choose" /\ x.route = req[r].route /\ x.asked = req[r].asked
        /\ x.got = req[r].got /\ x.answer = req[r].answer
    BY InHand DEF ReqStates
  <2>2. req' = [req EXCEPT ![r] = x]
    BY <1>4, InHand DEF Goes
  <2> HIDE DEF x
  <2>3. ReqOK(x, World)
    BY <1>3, <2>1, InHand DEF ReqOK, Asks, Misses, Made
  <2>4. RecordOK(record', World)
    BY <1>1, <1>4 DEF RecordOK
  <2>5. QED
    BY <1>4, <2>2, <2>3, <2>4, GoesMoves DEF StartRecord
<1>5. CASE req' = [req EXCEPT ![r] = Done(r, "replayed")] /\ Tells(record.got) /\ UNCHANGED record
  <2>1. WorldOK(World') /\ Grows(World, World')
    BY <1>1, <1>5, TellsGrows DEF StartRecord
  <2>2. RecordOK(record', World')
    BY <1>5, <2>1, RecordGrows, InHand
  <2>3. "replayed" \in Results
    BY DEF Results
  <2>4. ReqOK(Done(r, "replayed"), World')
    BY <1>3, <2>3, DoneOK, InHand
  <2>5. QED
    BY <1>5, <2>1, <2>2, <2>4 DEF Moves
<1>6. CASE req' = [req EXCEPT ![r] = Failed] /\ UNCHANGED <<record, told>>
  BY <1>6, FailedOK, GoesMoves, InHand DEF StartRecord
<1> QED
  BY <1>4, <1>5, <1>6 DEF StartRecord
-----------------------------------------------------------------------------
\* forward().

LEMMA ChoosePinnedMoves ==
    ASSUME DataPlaneInv, NEW r \in Requests, ChoosePinned(r)
    PROVE  \E x : Moves(r, x)
<1> DEFINE x == [req[r] EXCEPT !.pc = "call", !.key = req[r].pinned, !.stuck = TRUE]
<1>1. req[r].pinned \in Keys
  BY InHand DEF ReqStates, ChoosePinned, PinUsable
<1>2. req[r].got = None /\ req[r].answer # "missing"
  BY InHand DEF ChoosePinned, At, Made, Misses
<1>3. /\ x \in ReqStates /\ x.pc = "call" /\ x.route = req[r].route /\ x.asked = req[r].asked
      /\ x.got = req[r].got /\ x.answer = req[r].answer /\ x.blind = req[r].blind
      /\ x.pinned = req[r].pinned /\ x.key = req[r].pinned
  BY <1>1, InHand DEF ReqStates
<1>4. req' = [req EXCEPT ![r] = x]
  BY InHand DEF ChoosePinned
<1> HIDE DEF x
<1>5. ReqOK(x, World)
  BY <1>1, <1>2, <1>3, InHand DEF ReqOK, Asks, Misses, Made, ChoosePinned, At
<1> QED
  BY <1>4, <1>5, GoesMoves, InHand DEF ChoosePinned

\* The pool serves a request about a task only if the task's key has left, or
\* the binding is excused.
LEMMA ChoosePoolMoves ==
    ASSUME DataPlaneInv, NEW r \in Requests, ChoosePool(r)
    PROVE  \E x : Moves(r, x)
<1>1. PICK k \in Keys : req' = [req EXCEPT ![r].pc = "call", ![r].key = k, ![r].stuck = FALSE]
  BY DEF ChoosePool
<1> DEFINE x == [req[r] EXCEPT !.pc = "call", !.key = k, !.stuck = FALSE]
<1>2. req[r].got = None /\ req[r].answer # "missing"
  BY InHand DEF ChoosePool, At, Made, Misses
<1>3. /\ x \in ReqStates /\ x.pc = "call" /\ x.route = req[r].route /\ x.asked = req[r].asked
      /\ x.got = req[r].got /\ x.answer = req[r].answer /\ x.blind = req[r].blind
      /\ x.pinned = req[r].pinned /\ x.key = k
  BY InHand DEF ReqStates
<1>4. req' = [req EXCEPT ![r] = x]
  BY <1>1, InHand
<1>5. req[r].asked # None /\ req[r].route.bind => req[r].blind \/ req[r].asked \in World.excused
  <2> SUFFICES ASSUME req[r].asked # None, req[r].route.bind, ~req[r].blind, req[r].asked \notin World.excused
               PROVE  FALSE
    OBVIOUS
  <2>1. req[r].pinned = World.task[req[r].asked] /\ req[r].asked \in Tasks /\ World.task[req[r].asked] # None
    BY InHand DEF Asks, ChoosePool, At, Kept
  <2>2. World.keys[World.task[req[r].asked]]
    BY <2>1, InHand DEF WorldOK
  <2>3. QED
    BY <2>1, <2>2 DEF ChoosePool, PinUsable, World
<1> HIDE DEF x
<1>6. ReqOK(x, World)
  BY <1>2, <1>3, <1>5, InHand DEF ReqOK, Asks, Misses, Made, ChoosePool, At
<1> QED
  BY <1>4, <1>6, GoesMoves, InHand DEF ChoosePool

LEMMA NoKeyMoves ==
    ASSUME DataPlaneInv, NEW r \in Requests, NoKey(r)
    PROVE  \E x : Moves(r, x)
BY FailedOK, GoesMoves, InHand DEF NoKey

\* forward() returns: what its caller then holds.
LEMMA ReturnedOK ==
    ASSUME NEW w, NEW r \in Requests, At(r, "call"), ReqOK(req[r], w),
           NEW answer \in {"ok", "missing", "other"}, NEW t \in Tasks \cup {None},
           answer = "missing" /\ req[r].asked # None /\ req[r].route.bind =>
             \/ req[r].asked \in w.excused \cup w.gone \/ req[r].blind
             \/ req[r].route.fallback /\ ~req[r].fell,
           t # None => /\ answer = "ok" /\ req[r].route.flow = "create"
                       /\ req[r].key \in Keys /\ req[r].key = w.task[t]
                       /\ ~req[r].route.bind => t \in w.excused
    PROVE  ReqOK(Returned(r, answer, t), w)
<1> DEFINE x == Returned(r, answer, t)
<1>1. req[r] \in ReqStates /\ req[r].key \in Keys
  BY DEF ReqOK, Made, At
<1>2. 0 \in 0..TotalAttempts
  BY Constants
<1>3. /\ x \in ReqStates /\ x.pc = "answered" /\ x.answer = answer /\ x.got = t
      /\ x.route = req[r].route /\ x.asked = req[r].asked /\ x.blind = req[r].blind /\ x.fell = req[r].fell
      /\ x.pinned = req[r].pinned /\ (t # None => x.key = req[r].key)
  BY <1>1, <1>2 DEF Returned, ReqStates
<1> HIDE DEF x
<1>4. Asks(x, w)
  BY <1>3 DEF ReqOK, Asks, At
<1>5. Misses(x, w)
  BY <1>3 DEF Misses
<1>6. Made(x, w)
  BY <1>3 DEF Made
<1>7. ReqOK(x, w)
  BY <1>3, <1>4, <1>5, <1>6 DEF ReqOK
<1> QED
  BY <1>7 DEF x

\* It calls again, with the pinned key or after another choice.
LEMMA AgainOK ==
    ASSUME NEW w, NEW r \in Requests, At(r, "call"), ReqOK(req[r], w), HasAttempt(r)
    PROVE  ReqOK(Again(r), w)
<1> DEFINE x == Again(r)
<1>1. req[r] \in ReqStates /\ req[r].key \in Keys /\ req[r].got = None /\ req[r].answer # "missing"
  BY DEF ReqOK, Made, Misses, At
<1>2. req[r].attempts + 1 \in 0..TotalAttempts
  BY <1>1, Constants DEF ReqStates, HasAttempt
<1>3. /\ x \in ReqStates /\ x.pc \in {"call", "choose"} /\ x.answer = req[r].answer /\ x.got = req[r].got
      /\ x.route = req[r].route /\ x.asked = req[r].asked /\ x.blind = req[r].blind /\ x.fell = req[r].fell
      /\ x.pinned = req[r].pinned /\ x.key = req[r].key
  BY <1>1, <1>2 DEF Again, ReqStates
<1> HIDE DEF x
<1>4. ReqOK(x, w)
  BY <1>1, <1>3 DEF ReqOK, Asks, Misses, Made, At
<1> QED
  BY <1>4 DEF x

LEMMA CallOkMoves ==
    ASSUME DataPlaneInv, NEW r \in Requests, NEW ok \in BOOLEAN, CallOk(r, ok)
    PROVE  \E x : Moves(r, x)
<1>1. PICK t \in Tasks \cup {None} :
        /\ \/ t # None /\ Creates(r, t)
           \/ t = None /\ (Deletes(r) \/ Reads(r))
        /\ req' = [req EXCEPT ![r] = IF ok THEN Returned(r, "ok", t) ELSE Failed]
  BY DEF CallOk
<1>2. At(r, "call") /\ UNCHANGED <<keys, binding, record, told>>
  BY DEF CallOk
<1>3. /\ WorldOK(World') /\ Grows(World, World')
      /\ t # None => /\ req[r].route.flow = "create" /\ req[r].key \in Keys /\ req[r].key = World'.task[t]
                     /\ ~req[r].route.bind => t \in World'.excused
  <2>1. CASE t # None /\ Creates(r, t)
    BY <1>2, <2>1, CreatesGrows
  <2>2. CASE t = None /\ Deletes(r)
    BY <1>2, <2>2, DeletesGrows
  <2>3. CASE t = None /\ Reads(r)
    BY <1>2, <2>3, WorldStays, InHand DEF Reads
  <2>4. QED
    BY <1>1, <2>1, <2>2, <2>3
<1>4. ReqOK(req[r], World')
  BY <1>3, ReqGrows DEF DataPlaneInv
<1>5. ReqOK(Returned(r, "ok", t), World')
  BY <1>2, <1>3, <1>4, ReturnedOK
<1>6. RecordOK(record', World')
  BY <1>2, <1>3, RecordGrows, InHand
<1> QED
  BY <1>1, <1>3, <1>5, <1>6, FailedOK DEF Moves

\* A key that does not know the task is not the task's key.
LEMMA CallNotOkMoves ==
    ASSUME DataPlaneInv, NEW r \in Requests, CallNotOk(r)
    PROVE  \E x : Moves(r, x)
<1>1. PICK answer \in {"missing", "other"} :
        /\ answer = "missing" => \/ req[r].route.flow \in {"status", "delete"} /\ ~Finds(r)
                                 \/ req[r].route.fallback /\ ~req[r].fell
        /\ req' = [req EXCEPT ![r] = Returned(r, answer, None)]
  BY DEF CallNotOk
<1>2. At(r, "call") /\ UNCHANGED <<keys, upstream, binding, record, told, excused, unbound>>
  BY DEF CallNotOk
<1>3. req[r].asked # None /\ req[r].route.bind /\ ~Finds(r) => req[r].asked \in World.excused \cup World.gone \/ req[r].blind
  BY <1>2, InHand DEF Finds, Asks, At, World
<1>4. ReqOK(req[r], World)
  BY DEF DataPlaneInv
<1>5. ReqOK(Returned(r, answer, None), World)
  BY <1>1, <1>2, <1>3, <1>4, ReturnedOK
<1> QED
  BY <1>1, <1>2, <1>5, GoesMoves, InHand

LEMMA CallFailsMoves ==
    ASSUME DataPlaneInv, NEW r \in Requests, CallFails(r)
    PROVE  \E x : Moves(r, x)
<1>1. At(r, "call") /\ UNCHANGED <<keys, binding, record, told>>
  BY DEF CallFails
<1>2. WorldOK(World') /\ Grows(World, World')
  <2>1. CASE UNCHANGED <<upstream, excused, unbound>>
    BY <1>1, <2>1, WorldStays, InHand
  <2>2. CASE Deletes(r)
    BY <1>1, <2>2, DeletesGrows
  <2>3. CASE \E t \in Tasks : Creates(r, t)
    BY <1>1, <2>3, CreatesGrows
  <2>4. QED
    BY <2>1, <2>2, <2>3 DEF CallFails
<1>3. ReqOK(req[r], World')
  BY <1>2, ReqGrows DEF DataPlaneInv
<1>4. RecordOK(record', World')
  BY <1>1, <1>2, RecordGrows, InHand
<1>5. ReqOK(Returned(r, "other", None), World')
  BY <1>1, <1>3, ReturnedOK
<1>6. HasAttempt(r) => ReqOK(Again(r), World')
  BY <1>1, <1>3, AgainOK
<1> QED
  BY <1>2, <1>4, <1>5, <1>6, FailedOK DEF CallFails, Moves

LEMMA CallRejectedMoves ==
    ASSUME DataPlaneInv, NEW r \in Requests, CallRejected(r)
    PROVE  \E x : Moves(r, x)
<1>1. At(r, "call") /\ UNCHANGED <<upstream, binding, record, told, unbound>>
  BY DEF CallRejected
<1>2. req[r].key \in Keys
  BY <1>1, InHand DEF Made, At
<1>3. WorldOK(World') /\ Grows(World, World')
  BY <1>2, LeavesGrows DEF CallRejected
<1>4. ReqOK(req[r], World')
  BY <1>3, ReqGrows DEF DataPlaneInv
<1>5. RecordOK(record', World')
  BY <1>1, <1>3, RecordGrows, InHand
<1>6. ReqOK(Returned(r, "other", None), World')
  BY <1>1, <1>4, ReturnedOK
<1>7. HasAttempt(r) => ReqOK(Again(r), World')
  BY <1>1, <1>4, AgainOK
<1> QED
  BY <1>3, <1>5, <1>6, <1>7 DEF CallRejected, Moves
-----------------------------------------------------------------------------
\* After forward().

LEMMA FallbackMoves ==
    ASSUME DataPlaneInv, NEW r \in Requests, Fallback(r)
    PROVE  \E x : Moves(r, x)
<1> DEFINE x == [req[r] EXCEPT !.pc = "choose", !.fell = TRUE, !.answer = "none"]
<1>1. /\ x \in ReqStates /\ x.pc = "choose" /\ x.answer = "none" /\ x.got = req[r].got
      /\ x.route = req[r].route /\ x.asked = req[r].asked /\ x.blind = req[r].blind
      /\ x.pinned = req[r].pinned
  BY InHand DEF ReqStates
<1>2. req' = [req EXCEPT ![r] = x]
  BY InHand DEF Fallback
<1> HIDE DEF x
<1>3. req[r].got = None
  BY InHand DEF Made, Fallback, FallsBack
<1>4. ReqOK(x, World)
  BY <1>1, <1>3, InHand DEF ReqOK, Asks, Misses, Made, Fallback, At
<1> QED
  BY <1>2, <1>4, GoesMoves, InHand DEF Fallback

\* The binding leads from the task to the key that created it.
LEMMA BindMoves ==
    ASSUME DataPlaneInv, NEW r \in Requests, NEW ok \in BOOLEAN, Bind(r, ok)
    PROVE  \E x : Moves(r, x)
<1> DEFINE t == req[r].got
           x == [req[r] EXCEPT !.pc = "complete"]
<1>1. /\ t \in Tasks /\ req[r].key \in Keys /\ req[r].key = task[t] /\ req[r].route.flow = "create"
      /\ req[r].answer = "ok"
  BY InHand DEF Bind, Binds, Made, ReqStates, World
<1>2. /\ World = [keys |-> keys, task |-> task, gone |-> gone, binding |-> binding, told |-> told,
                  excused |-> Lost]
      /\ World' = [keys |-> keys, task |-> task, gone |-> gone, binding |-> binding', told |-> told,
                   excused |-> Lost']
  BY DEF World, Bind, upstream
<1>3. WorldOK(World)
  BY InHand
<1>4. /\ task \in [Tasks -> Keys \cup {None}] /\ binding \in [Tasks -> Keys \cup {None}]
      /\ Lost \subseteq Tasks /\ \A u \in Tasks : binding[u] \in {None, task[u]}
  BY <1>2, <1>3 DEF WorldOK, Worlds
<1>5. /\ binding' = IF ok /\ binding[t] = None THEN [binding EXCEPT ![t] = req[r].key] ELSE binding
      /\ Lost' = IF ok THEN Lost ELSE Lost \cup {t}
  BY DEF Bind, Lost
<1>6. x \in ReqStates /\ x.pc = "complete" /\ x.answer = req[r].answer /\ x.got = t
      /\ x.route = req[r].route /\ x.asked = req[r].asked /\ x.key = req[r].key
  BY InHand DEF ReqStates
<1>7. req' = [req EXCEPT ![r] = x]
  BY InHand DEF Bind, Goes
<1> HIDE DEF t, x
<1>8. /\ binding' \in [Tasks -> Keys \cup {None}] /\ Lost' \subseteq Tasks /\ Lost \subseteq Lost'
      /\ \A u \in Tasks : binding'[u] \in {None, task[u]}
      /\ \A u \in Tasks : task[u] # None /\ binding[u] = task[u] => binding'[u] = task[u]
      /\ t \in Lost' \/ binding'[t] = task[t]
  BY <1>1, <1>4, <1>5
<1>9. WorldOK(World') /\ Grows(World, World')
  <2>1. World' \in Worlds
    BY <1>2, <1>3, <1>8 DEF WorldOK, Worlds
  <2>2. Grows(World, World')
    BY <1>2, <1>8 DEF Grows
  <2>3. \A u \in told : u \in Tasks /\ Kept(u, World')
    BY <1>2, <1>3, <2>2, KeptGrows DEF WorldOK, Worlds
  <2>4. QED
    BY <1>2, <1>3, <1>8, <2>1, <2>2, <2>3 DEF WorldOK
<1>10. Kept(t, World')
  BY <1>1, <1>2, <1>8, Constants DEF Kept
<1>11. ReqOK(x, World')
  <2>1. Made(x, World')
    <3>1. World'.task[t] = task[t] /\ t # None
      BY <1>1, <1>2, Constants
    <3>2. x.route.bind
      BY <1>6 DEF Bind, Binds
    <3>3. QED
      BY <1>1, <1>6, <1>10, <3>1, <3>2 DEF Made
  <2>2. x.asked = None
    BY <1>1, <1>6, InHand DEF Asks, Bind, At
  <2>3. QED
    BY <1>1, <1>6, <2>1, <2>2 DEF ReqOK, Asks, Misses
<1>12. RecordOK(record', World')
  BY <1>9, RecordGrows, InHand DEF Bind
<1> QED
  BY <1>7, <1>9, <1>11, <1>12 DEF Moves

\* The client, and later a replay, is given the id of a task that is kept.
LEMMA CompleteMoves ==
    ASSUME DataPlaneInv, NEW r \in Requests, NEW ok \in BOOLEAN, Complete(r, ok)
    PROVE  \E x : Moves(r, x)
<1>1. /\ req' = [req EXCEPT ![r] = Done(r, "answered")] /\ Tells(req[r].got)
      /\ UNCHANGED <<keys, upstream, binding, excused, unbound>>
  BY DEF Complete
<1>2. At(r, "complete") \/ (At(r, "answered") /\ ~FallsBack(r) /\ ~Binds(r))
  BY DEF Complete
<1>3. req[r].got \in Tasks \cup {None} /\ req[r] \in ReqStates
  BY InHand DEF ReqStates
<1>4. req[r].got # None => Kept(req[r].got, World)
  <2>1. CASE At(r, "complete")
    BY <2>1, InHand DEF Made, At
  <2>2. CASE At(r, "answered") /\ ~Binds(r)
    BY <2>2, InHand, Constants DEF Made, At, Binds, Kept
  <2>3. QED
    BY <1>2, <2>1, <2>2
<1>5. WorldOK(World') /\ Grows(World, World')
  BY <1>1, <1>3, <1>4, TellsGrows
<1>6. req[r].got # None => Kept(req[r].got, World')
  BY <1>3, <1>4, <1>5, KeptGrows
<1>7. RecordOK(record, World')
  BY <1>5, RecordGrows, InHand
<1>8. RecordOK(record', World')
  <2>1. CASE record' = record
    BY <1>7, <2>1
  <2>2. CASE record' = [record EXCEPT !.state = "completed", !.got = req[r].got]
    BY <1>3, <1>6, <1>7, <2>2 DEF RecordOK
  <2>3. QED
    BY <2>1, <2>2 DEF Complete
<1>9. "answered" \in Results
  BY DEF Results
<1>10. /\ req[r].route.flow \in {"status", "delete"} => req[r].asked # None
       /\ req[r].asked # None => req[r].asked \in World'.told
       /\ req[r].answer = "missing" /\ req[r].asked # None /\ req[r].route.bind =>
            req[r].asked \in World'.excused \cup World'.gone \/ req[r].blind
  <2>1. /\ req[r].route.flow \in {"status", "delete"} => req[r].asked # None
        /\ req[r].asked # None => req[r].asked \in World.told
        /\ req[r].answer = "missing" /\ req[r].asked # None /\ req[r].route.bind =>
             req[r].asked \in World.excused \cup World.gone \/ req[r].blind
    BY <1>2, InHand DEF Asks, Misses, FallsBack, At
  <2>2. QED
    BY <1>5, <2>1 DEF Grows
<1>11. ReqOK(Done(r, "answered"), World')
  BY <1>3, <1>9, <1>10, DoneOK
<1> QED
  BY <1>1, <1>5, <1>8, <1>11 DEF Moves
-----------------------------------------------------------------------------
\* Theorems.

LEMMA StepMoves ==
    ASSUME DataPlaneInv, NEW r \in Requests, Step(r)
    PROVE  \E x : Moves(r, x)
<1>1. Outcomes \subseteq BOOLEAN
  BY DEF Outcomes
<1> QED
  BY <1>1, ArriveMoves, ProceedMoves, ChoosePinnedMoves, ChoosePoolMoves, NoKeyMoves, CallNotOkMoves,
     CallFailsMoves, CallRejectedMoves, FallbackMoves, StartRecordMoves, LookupMoves, CallOkMoves, BindMoves,
     CompleteMoves, Zenon DEF Step

LEMMA InvariantStep ==
    ASSUME DataPlaneInv, [Next]_vars
    PROVE  DataPlaneInv'
<1>1. CASE UNCHANGED vars
  BY <1>1 DEF DataPlaneInv, vars, upstream, World, Lost
<1>2. ASSUME NEW r \in Requests, Step(r)
      PROVE  DataPlaneInv'
  <2>1. PICK x : Moves(r, x)
    BY <1>2, StepMoves
  <2>2. /\ req' = [req EXCEPT ![r] = x] /\ ReqOK(x, World') /\ req = [q \in Requests |-> req[q]]
        /\ WorldOK(World') /\ Grows(World, World') /\ RecordOK(record', World')
    BY <2>1 DEF Moves, DataPlaneInv
  <2>3. req' = [q \in Requests |-> req'[q]]
    BY <2>2
  <2>4. ASSUME NEW q \in Requests PROVE ReqOK(req'[q], World')
    <3>1. CASE q = r
      <4>1. req'[q] = x
        BY <2>2, <3>1
      <4>2. QED
        BY <2>2, <4>1
    <3>2. CASE q # r
      <4>1. req'[q] = req[q]
        BY <2>2, <3>2
      <4>2. QED
        BY <2>2, <4>1, ReqGrows DEF DataPlaneInv
    <3>3. QED
      BY <3>1, <3>2
  <2>5. QED
    BY <2>2, <2>3, <2>4 DEF DataPlaneInv
<1>3. ASSUME NEW k \in Keys, KeyLeaves(k)
      PROVE  DataPlaneInv'
  <2>1. WorldOK(World') /\ Grows(World, World') /\ UNCHANGED <<record, req>>
    BY <1>3, LeavesGrows DEF KeyLeaves
  <2>2. ASSUME NEW q \in Requests PROVE ReqOK(req'[q], World')
    BY <2>1, ReqGrows DEF DataPlaneInv
  <2>3. RecordOK(record', World')
    BY <2>1, RecordGrows DEF DataPlaneInv
  <2>4. QED
    BY <2>1, <2>2, <2>3 DEF DataPlaneInv
<1>4. CASE RecordExpires
  <2>1. World' = World /\ req' = req
    BY <1>4, WorldStays DEF RecordExpires
  <2>2. RecordOK(record', World)
    BY <1>4 DEF RecordExpires, RecordOK
  <2>3. QED
    BY <2>1, <2>2 DEF DataPlaneInv
<1> QED
  BY <1>1, <1>2, <1>3, <1>4 DEF Next, Quiet

\* A task the client knows or may be told of is bound to the key that created
\* it or is excused, and every /v2 request about it carries that key to the
\* upstream (firecrawl_v2_compat.py 61-130, resource_binding.py).
THEOREM DataPlaneInvariant == Spec => []DataPlaneInv
<1>1. Init => DataPlaneInv
  <2> SUFFICES ASSUME Init PROVE DataPlaneInv
    OBVIOUS
  <2>1. WorldOK(World)
    <3>1. World \in Worlds
      BY DEF Init, World, Worlds, Lost
    <3>2. QED
      BY <3>1 DEF Init, World, WorldOK
  <2>2. RecordOK(record, World)
    BY DEF Init, RecordOK
  <2>3. ReqOK(Blank, World)
    BY BlankTyped DEF ReqOK, Asks, Misses, Made
  <2>4. QED
    BY <2>1, <2>2, <2>3 DEF Init, DataPlaneInv
<1>2. DataPlaneInv /\ [Next]_vars => DataPlaneInv'
  BY InvariantStep
<1> QED
  BY <1>1, <1>2, PTL DEF Spec

\* Requests, record and bindings keep their form: forward() is never called
\* more often than its attempts allow, and every binding names a key.
THEOREM DataPlaneTypeOK == Spec => []TypeOK
<1>1. DataPlaneInv => TypeOK
  <2> SUFFICES ASSUME DataPlaneInv PROVE TypeOK
    OBVIOUS
  <2>1. World \in Worlds
    BY DEF DataPlaneInv, WorldOK
  <2>2. /\ keys \in [Keys -> BOOLEAN] /\ task \in [Tasks -> Keys \cup {None}] /\ gone \subseteq Tasks
        /\ binding \in [Tasks -> Keys \cup {None}] /\ told \subseteq Tasks /\ excused \subseteq Tasks
        /\ unbound \subseteq Tasks
    BY <2>1 DEF World, Worlds, Lost
  <2>3. req \in [Requests -> ReqStates]
    BY DEF DataPlaneInv, ReqOK
  <2>4. QED
    BY <2>2, <2>3 DEF DataPlaneInv, RecordOK, TypeOK, ReqStates
<1> QED
  BY <1>1, DataPlaneInvariant, PTL

\* A task that a /v2 route created and whose id the client was given is found
\* by every later /v2 request about it, unless its key has left, its binding
\* could not be written or read, or it was deleted (firecrawl_v2_compat.py
\* 61-130, resource_binding.py).
THEOREM DataPlaneToldIsFound == Spec => []ToldIsFound
<1>1. DataPlaneInv => ToldIsFound
  BY DEF DataPlaneInv, ReqOK, Misses, ToldIsFound, At, World, Lost
<1> QED
  BY <1>1, DataPlaneInvariant, PTL
=============================================================================
