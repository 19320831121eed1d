---------------------------- MODULE QueryRuntime ----------------------------
(***************************************************************************)
(* The API process: concurrent requests on the server's thread pool, the   *)
(* cached service, its retriever built on first use under a lock, and the  *)
(* readiness check, while somebody may re-index the collections.           *)
(*                                                                         *)
(* A service is named by the request that composed it, a retriever by the  *)
(* request that built it.  lru_cache computes outside its lock: requests   *)
(* that miss together each return what they composed, and the first to     *)
(* finish is the one kept.  The ids of a manual are read page by page, a   *)
(* page being a range of its point ids; what a page holds is abstracted to *)
(* a version.  What a query does after its search is the module            *)
(* QueryService.                                                           *)
(***************************************************************************)
EXTENDS Naturals, Sequences, SequencesExt, FiniteSets

CONSTANTS
  Requests,     \* HTTP requests
  Kinds,        \* of "query", "ready" and "health"
  PoolSize,     \* threads of the server's pool
  Strategies,   \* configured retrieval: "union", "sparse" or "unsupported"
  Pages,        \* pages of the manuals of contract.indexed_document_ids, as they are read
  Versions,     \* what the points of a page may be
  Frozen,       \* the version the contract freezes
  Points,       \* version -> number of points
  Stores,       \* collections the process may start on
  None,
  MaxChanges,   \* bound on re-indexed pages
  MaxFaults     \* bound on failed calls

Sides == {"dense", "hybrid"}
Pairs == Sides \X ToSet(Pages)
Cells == [ToSet(Pages) -> Versions]

ASSUME RuntimeAssumption ==
  /\ Kinds \subseteq {"query", "ready", "health"}
  /\ Strategies \subseteq {"union", "sparse", "unsupported"}
  /\ PoolSize \in Nat \ {0} /\ IsFiniteSet(Requests)
  /\ Pages \in Seq(ToSet(Pages)) /\ Pages # <<>>
  /\ Frozen \in Versions /\ Points \in [Versions -> Nat]
  /\ Stores \subseteq [Sides -> Cells]
  /\ None \notin Requests
  /\ MaxChanges \in Nat /\ MaxFaults \in Nat

VARIABLES
  strategy,     \* settings.retrieval_strategy and rerank_enabled
  collections,  \* side -> page -> version
  kind, pc,     \* request -> its route and where it is
  step,         \* request -> position in its validation
  read,         \* request -> versions read of the collection being validated
  service,      \* request -> the service it was given
  status,       \* request -> HTTP status
  cached,       \* the service lru_cache keeps
  delegate,     \* service -> its retriever
  holder,       \* service -> who holds the lock of its LazyQueryRetriever
  changes, faults,
  wasFrozen,    \* history: request -> pairs frozen at some time of its validation
  troubled      \* history: requests that met a fault or points not frozen

rtVars == <<strategy, collections, kind, pc, step, read, service, status, cached,
            delegate, holder, changes, faults, wasFrozen, troubled>>

Stages == {"idle", "depend", "compose", "authorize", "admit", "lock", "build",
           "search", "probe", "check", "health", "done"}

\* A request holds a thread in these stages only: between the dependency, the
\* authorization and the query it is back on the event loop.
InThread  == {"compose", "lock", "build", "search", "check"}

HasThread == Cardinality({r \in Requests : pc[r] \in InThread}) < PoolSize

FrozenPairs == {p \in Pairs : collections[p[1]][p[2]] = Frozen}

(***************************************************************************)
(* What a validation calls, in order                                       *)
(***************************************************************************)
Call(c, side, n) == [call |-> c, side |-> side, page |-> n]

FrozenCollection_CountOnly(side) == <<Call("count", side, 0)>>

\* _validate_frozen_collection: the count, then the ids of each manual, one scroll
\* for each of its pages (get_indexed_chunk_ids).
FrozenCollection(side) ==
  <<Call("count", side, 0)>> \o [n \in DOMAIN Pages |-> Call("ids", side, n)]

Setup(c) == <<Call(c, "hybrid", 0)>>

\* build_query_retriever
BuildPlan ==
  IF strategy = "union"
  THEN Setup("connect") \o Setup("schema") \o <<Call("schema", "dense", 0)>>
       \o FrozenCollection("hybrid") \o FrozenCollection("dense") \o Setup("models")
  ELSE Setup("connect") \o Setup("schema") \o FrozenCollection("hybrid") \o Setup("models")

\* build_readiness_checker: both collections, whatever the strategy.
ReadyPlan == Setup("connect") \o FrozenCollection("dense") \o FrozenCollection("hybrid")

Plan(r)     == IF pc[r] = "build" THEN BuildPlan ELSE ReadyPlan
NextCall(r) == Plan(r)[step[r]]
Searched    == IF strategy = "union" THEN Pairs ELSE {"hybrid"} \X ToSet(Pages)

\* A collection holds the points of each page of its manuals.
TotalPoints(cell) == Cardinality(UNION {{p} \X (1..Points[cell[p]]) : p \in ToSet(Pages)})
Expected          == Cardinality(ToSet(Pages)) * Points[Frozen]

ReadAfter(r) ==
  LET c == NextCall(r) IN
  CASE c.call = "count" -> {}
    [] c.call = "ids"   -> read[r] \cup {collections[c.side][Pages[c.page]]}
    [] OTHER            -> read[r]

\* The ids are compared after the last page of the last manual is read.
Passes(r) ==
  LET c == NextCall(r) IN
  /\ c.call = "count" => TotalPoints(collections[c.side]) = Expected
  /\ c.call = "ids" /\ c.page = Len(Pages) => ReadAfter(r) = {Frozen}

(***************************************************************************)
(* Actions                                                                 *)
(***************************************************************************)
Init ==
  /\ strategy \in Strategies
  /\ collections \in Stores
  /\ kind \in [Requests -> Kinds]
  /\ pc = [r \in Requests |-> "idle"]
  /\ step = [r \in Requests |-> 0]
  /\ read = [r \in Requests |-> {}]
  /\ service = [r \in Requests |-> None]
  /\ status = [r \in Requests |-> "none"]
  /\ cached = None
  /\ delegate = [r \in Requests |-> None]
  /\ holder = [r \in Requests |-> None]
  /\ changes = 0
  /\ faults = 0
  /\ wasFrozen = [r \in Requests |-> {}]
  /\ troubled = {}

Go(r, s) == pc' = [pc EXCEPT ![r] = s]

Respond(r, code) ==
  /\ Go(r, "done")
  /\ status' = [status EXCEPT ![r] = code]

Releases_Never(r) == UNCHANGED holder

\* Leaving the build, by success or by an exception, releases the lock.
Releases(r) ==
  holder' = IF pc[r] = "build" THEN [holder EXCEPT ![service[r]] = None] ELSE holder

BeginValidation(r, s) ==
  /\ Go(r, s)
  /\ step' = [step EXCEPT ![r] = 1]
  /\ read' = [read EXCEPT ![r] = {}]
  /\ wasFrozen' = [wasFrozen EXCEPT ![r] = FrozenPairs]

Send(r) ==
  /\ pc[r] = "idle"
  /\ Go(r, CASE kind[r] = "query" -> "depend"
             [] kind[r] = "ready" -> "probe"
             [] kind[r] = "health" -> "health")
  /\ troubled' = IF FrozenPairs = Pairs THEN troubled ELSE troubled \cup {r}
  /\ UNCHANGED <<strategy, collections, kind, step, read, service, status, cached,
                 delegate, holder, changes, faults, wasFrozen>>

Health(r) ==
  /\ pc[r] = "health"
  /\ HasThread
  /\ Respond(r, "200")
  /\ UNCHANGED <<strategy, collections, kind, step, read, service, cached, delegate,
                 holder, changes, faults, wasFrozen, troubled>>

Depend_AlwaysMisses(r) ==
  /\ pc[r] = "depend"
  /\ HasThread
  /\ Go(r, "compose")
  /\ UNCHANGED <<strategy, collections, kind, step, read, service, status, cached,
                 delegate, holder, changes, faults, wasFrozen, troubled>>

\* Depends(get_query_service): a hit of the cache, or a miss that composes.
Depend(r) ==
  /\ pc[r] = "depend"
  /\ HasThread
  /\ IF cached # None
     THEN service' = [service EXCEPT ![r] = cached] /\ Go(r, "authorize")
     ELSE UNCHANGED service /\ Go(r, "compose")
  /\ UNCHANGED <<strategy, collections, kind, step, read, status, cached, delegate,
                 holder, changes, faults, wasFrozen, troubled>>

\* build_query_service; an unsupported combination is raised outside the route.
Compose(r) ==
  /\ pc[r] = "compose"
  /\ IF strategy = "unsupported"
     THEN Respond(r, "500") /\ UNCHANGED <<service, cached>>
     ELSE /\ service' = [service EXCEPT ![r] = r]
          /\ cached' = IF cached = None THEN r ELSE cached
          /\ Go(r, "authorize")
          /\ UNCHANGED status
  /\ UNCHANGED <<strategy, collections, kind, step, read, delegate, holder, changes,
                 faults, wasFrozen, troubled>>

\* Depends(require_query_auth)
Authorize(r) ==
  /\ pc[r] = "authorize"
  /\ HasThread
  /\ \/ Go(r, "admit") /\ UNCHANGED status
     \/ Respond(r, "denied")
  /\ UNCHANGED <<strategy, collections, kind, step, read, service, cached, delegate,
                 holder, changes, faults, wasFrozen, troubled>>

\* run_in_threadpool(service.execute): the first look at the delegate.
Admit(r) ==
  /\ pc[r] = "admit"
  /\ HasThread
  /\ Go(r, IF delegate[service[r]] = None THEN "lock" ELSE "search")
  /\ UNCHANGED <<strategy, collections, kind, step, read, service, status, cached,
                 delegate, holder, changes, faults, wasFrozen, troubled>>

Lock_NoSecondLook(r) ==
  /\ pc[r] = "lock"
  /\ holder[service[r]] = None
  /\ BeginValidation(r, "build")
  /\ holder' = [holder EXCEPT ![service[r]] = r]
  /\ UNCHANGED <<strategy, collections, kind, service, status, cached, delegate,
                 changes, faults, troubled>>

\* The lock is free: look again, and build only if there is still no delegate.
Lock(r) ==
  /\ pc[r] = "lock"
  /\ holder[service[r]] = None
  /\ IF delegate[service[r]] # None
     THEN Go(r, "search") /\ UNCHANGED <<step, read, holder, wasFrozen>>
     ELSE /\ BeginValidation(r, "build")
          /\ holder' = [holder EXCEPT ![service[r]] = r]
  /\ UNCHANGED <<strategy, collections, kind, service, status, cached, delegate,
                 changes, faults, troubled>>

Probe(r) ==
  /\ pc[r] = "probe"
  /\ HasThread
  /\ IF strategy = "unsupported"
     THEN Respond(r, "500") /\ UNCHANGED <<step, read, wasFrozen>>
     ELSE BeginValidation(r, "check") /\ UNCHANGED status
  /\ UNCHANGED <<strategy, collections, kind, service, cached, delegate, holder,
                 changes, faults, troubled>>

\* One call of a validation, whose result the code accepts or rejects.
Validate(r) ==
  /\ pc[r] \in {"build", "check"}
  /\ step[r] \in DOMAIN Plan(r)
  /\ IF Passes(r)
     THEN /\ step' = [step EXCEPT ![r] = @ + 1]
          /\ read' = [read EXCEPT ![r] = ReadAfter(r)]
          /\ UNCHANGED <<pc, status, holder>>
     ELSE Respond(r, "503") /\ Releases(r) /\ UNCHANGED <<step, read>>
  /\ UNCHANGED <<strategy, collections, kind, service, cached, delegate, changes,
                 faults, wasFrozen, troubled>>

CallFails_CachesFailure(r) ==
  /\ pc[r] \in {"build", "check", "search"}
  /\ faults < MaxFaults
  /\ faults' = faults + 1
  /\ troubled' = troubled \cup {r}
  /\ pc' = [q \in Requests |-> IF q = r \/ (service[q] = service[r] /\ pc[q] = "lock")
                               THEN "done" ELSE pc[q]]
  /\ status' = [q \in Requests |-> IF q = r \/ (service[q] = service[r] /\ pc[q] = "lock")
                                   THEN "503" ELSE status[q]]
  /\ Releases(r)
  /\ UNCHANGED <<strategy, collections, kind, step, read, service, cached, delegate,
                 changes, wasFrozen>>

\* A call to Qdrant, or the construction or use of a model, fails.
CallFails(r) ==
  /\ pc[r] \in {"build", "check", "search"}
  /\ faults < MaxFaults
  /\ faults' = faults + 1
  /\ troubled' = troubled \cup {r}
  /\ Respond(r, "503")
  /\ Releases(r)
  /\ UNCHANGED <<strategy, collections, kind, step, read, service, cached, delegate,
                 changes, wasFrozen>>

Install(r) ==
  /\ pc[r] = "build"
  /\ step[r] > Len(BuildPlan)
  /\ delegate' = [delegate EXCEPT ![service[r]] = r]
  /\ Releases(r)
  /\ Go(r, "search")
  /\ UNCHANGED <<strategy, collections, kind, step, read, service, status, cached,
                 changes, faults, wasFrozen, troubled>>

\* The readiness check passed, or the query was answered.
Finish(r) ==
  /\ pc[r] = "search" \/ (pc[r] = "check" /\ step[r] > Len(ReadyPlan))
  /\ Respond(r, "200")
  /\ UNCHANGED <<strategy, collections, kind, step, read, service, cached, delegate,
                 holder, changes, faults, wasFrozen, troubled>>

\* Somebody re-indexes a manual in one collection (module CorpusIndexing); the
\* points of a page are replaced apart from those of another.
Reindex ==
  /\ changes < MaxChanges
  /\ changes' = changes + 1
  /\ \E p \in Pairs, v \in Versions :
       /\ v # collections[p[1]][p[2]]
       /\ collections' = [collections EXCEPT ![p[1]][p[2]] = v]
       /\ wasFrozen' = [r \in Requests |->
            IF v = Frozen /\ pc[r] \in {"build", "check"}
            THEN wasFrozen[r] \cup {p} ELSE wasFrozen[r]]
       /\ troubled' = IF v = Frozen THEN troubled
                      ELSE troubled \cup {r \in Requests : pc[r] \notin {"idle", "done"}}
  /\ UNCHANGED <<strategy, kind, pc, step, read, service, status, cached, delegate,
                 holder, faults>>

Advance(r) ==
  \/ Health(r) \/ Depend(r) \/ Compose(r) \/ Authorize(r) \/ Admit(r) \/ Lock(r)
  \/ Probe(r) \/ Validate(r) \/ Install(r) \/ Finish(r)

Next == Reindex \/ \E r \in Requests : Send(r) \/ Advance(r) \/ CallFails(r)

RuntimeSpec == Init /\ [][Next]_rtVars

\* Every call has a client timeout, so a thread that has work goes on; a request
\* that waits for a thread or for a lock that stays free gets it.
FairRuntimeSpec == RuntimeSpec /\ \A r \in Requests : WF_rtVars(Advance(r))

(***************************************************************************)
(* Properties                                                              *)
(***************************************************************************)

\* Every variable has its type, and the pool is never exceeded.
TypeOK ==
  /\ strategy \in Strategies /\ collections \in [Sides -> Cells]
  /\ kind \in [Requests -> Kinds] /\ pc \in [Requests -> Stages]
  /\ step \in [Requests -> Nat] /\ read \in [Requests -> SUBSET Versions]
  /\ service \in [Requests -> Requests \cup {None}]
  /\ status \in [Requests -> {"none", "200", "500", "503", "denied"}]
  /\ cached \in Requests \cup {None}
  /\ delegate \in [Requests -> Requests \cup {None}]
  /\ holder \in [Requests -> Requests \cup {None}]
  /\ changes \in 0..MaxChanges /\ faults \in 0..MaxFaults
  /\ wasFrozen \in [Requests -> SUBSET Pairs] /\ troubled \subseteq Requests
  /\ Cardinality({r \in Requests : pc[r] \in InThread}) <= PoolSize

\* "Construct and cache heavy retrieval dependencies on their first real use"
\* (retrieval.py:102): one request at a time builds the retriever of a service,
\* nobody builds it again, and nobody's search meets another retriever later.
RetrieverBuiltOnce ==
  [][\A s \in Requests :
       /\ Cardinality({r \in Requests : service[r] = s /\ pc[r] = "build"}) <= 1
       /\ delegate[s] # None =>
            /\ delegate'[s] = delegate[s]
            /\ \A r \in Requests : service[r] = s => pc[r] # "build"]_rtVars

\* What passed the validation was true: whoever is served by a retriever, or is
\* told that the service is ready, each page of ids of each collection it depends on
\* was the frozen one at some time of that validation, whatever was re-indexed
\* meanwhile.  (Not all at one time: the calls of a validation are separate.)
PassedChecksWereTrue ==
  /\ \A s \in Requests : delegate[s] # None => Searched \subseteq wasFrozen[delegate[s]]
  /\ \A r \in Requests : kind[r] = "ready" /\ status[r] = "200" => wasFrozen[r] = Pairs

\* A request is refused with 503 only for what happened to it: the failed build
\* of another request is neither cached nor passed on to those who waited for it.
FailureIsOwn ==
  \A r \in Requests : status[r] = "503" => r \in troubled

\* However many requests arrive first, the process holds at most one service, and
\* one set of models, for each thread of the pool.
ServicesBounded ==
  Cardinality({service[r] : r \in Requests} \ {None}) <= PoolSize

\* Waiting for threads and for the lock never blocks for ever, after failures too.
EveryRequestAnswered ==
  \A r \in Requests : pc[r] # "idle" ~> pc[r] = "done"
=============================================================================
