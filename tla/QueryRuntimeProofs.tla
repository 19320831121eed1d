------------------------- MODULE QueryRuntimeProofs -------------------------
(***************************************************************************)
(* Proofs about QueryRuntime, for any number of requests and threads, any  *)
(* pages of ids and versions of them, any re-indexing and any faults.      *)
(***************************************************************************)
EXTENDS QueryRuntime, FiniteSetTheorems, SequenceTheorems, TLAPS

(***************************************************************************)
(* The inductive invariant                                                 *)
(***************************************************************************)
\* The route of a request is where its stages are.
Routes ==
  \A r \in Requests :
    /\ pc[r] \in {"depend", "compose", "authorize", "admit", "lock", "build", "search"}
         => kind[r] = "query"
    /\ pc[r] \in {"probe", "check"} => kind[r] = "ready"
    /\ pc[r] = "health" => kind[r] = "health"

\* A request has a service once it is past its dependency.
Served ==
  \A r \in Requests :
    /\ pc[r] \in {"authorize", "admit", "lock", "build", "search"} => service[r] # None
    /\ pc[r] \in {"idle", "depend", "compose"} => service[r] = None

\* Who builds holds the lock of a service that has no retriever.
BuildersHoldTheLock ==
  \A r \in Requests :
    pc[r] = "build" => holder[service[r]] = r /\ delegate[service[r]] = None

\* A retriever was built by a request that validated all it searches.
DelegatesAreChecked ==
  \A s \in Requests :
    delegate[s] # None =>
      /\ pc[delegate[s]] \in {"search", "done"}
      /\ Searched \subseteq wasFrozen[delegate[s]]

ReadyIsTrue ==
  \A r \in Requests :
    status[r] = "200" => pc[r] = "done" /\ (kind[r] = "ready" => wasFrozen[r] = Pairs)

\* How far a validation has come: what it read before its last comparison was
\* frozen at some time, and what it read after, unless something it read was not.
PairOf(c) == <<c.side, Pages[c.page]>>
Closes(c) == c.call = "ids" /\ c.page = Len(Pages)

Vouched(r, k) ==
  \/ PairOf(Plan(r)[k]) \in wasFrozen[r]
  \/ /\ \E v \in read[r] : v # Frozen
     /\ \A j \in k..(step[r] - 1) : ~Closes(Plan(r)[j])

ValidationsAreHonest ==
  \A r \in Requests :
    pc[r] \in {"build", "check"} =>
      /\ FrozenPairs \subseteq wasFrozen[r]
      /\ step[r] >= 1
      /\ \A k \in DOMAIN Plan(r) :
           k < step[r] /\ Plan(r)[k].call = "ids" => Vouched(r, k)

\* Services, and requests that will make one.
Composers == {r \in Requests : pc[r] = "compose"}
Services  == {service[r] : r \in Requests} \ {None}
FewServices ==
  /\ cached = None => Services = {}
  /\ cached # None => cached \in Services
  /\ Cardinality(Services \cup Composers) <= PoolSize

RuntimeInv ==
  /\ TypeOK /\ Routes /\ Served /\ BuildersHoldTheLock /\ DelegatesAreChecked
  /\ ReadyIsTrue /\ ValidationsAreHonest /\ FewServices

(***************************************************************************)
(* The calls of a validation                                               *)
(***************************************************************************)
Calls == [call : {"count", "ids", "connect", "schema", "models"}, side : Sides, page : Nat]

\* Ids are read of pages that exist, and read to the last page.
WellPlanned(plan) ==
  /\ plan \in Seq(Calls)
  /\ \A k \in DOMAIN plan :
       plan[k].call = "ids" =>
         /\ plan[k].page \in DOMAIN Pages
         /\ \E j \in DOMAIN plan :
              k <= j /\ Closes(plan[j]) /\ \A i \in k..j : plan[i].call = "ids"

Covers(plan, pairs) ==
  \A p \in pairs : \E k \in DOMAIN plan : plan[k].call = "ids" /\ PairOf(plan[k]) = p

LEMMA PagesAssumption ==
  /\ Len(Pages) \in Nat \ {0} /\ DOMAIN Pages = 1..Len(Pages)
  /\ \A n \in DOMAIN Pages : Pages[n] \in ToSet(Pages)
  /\ \A m \in ToSet(Pages) : \E n \in DOMAIN Pages : Pages[n] = m
<1>1. Pages \in Seq(ToSet(Pages)) /\ Pages # <<>>
  BY RuntimeAssumption
<1>2. Len(Pages) \in Nat \ {0} /\ DOMAIN Pages = 1..Len(Pages)
  BY <1>1
<1>3. QED
  BY <1>2 DEF ToSet

LEMMA Joined ==
  ASSUME NEW a \in Seq(Calls), NEW b \in Seq(Calls)
  PROVE  /\ a \o b \in Seq(Calls) /\ Len(a \o b) = Len(a) + Len(b)
         /\ Len(a) \in Nat /\ Len(b) \in Nat
         /\ DOMAIN a = 1..Len(a) /\ DOMAIN b = 1..Len(b) /\ DOMAIN (a \o b) = 1..(Len(a) + Len(b))
         /\ \A k \in 1..Len(a) : (a \o b)[k] = a[k]
         /\ \A k \in 1..Len(b) : (a \o b)[Len(a) + k] = b[k]
OBVIOUS

LEMMA JoinPlans ==
  ASSUME NEW a, NEW b, WellPlanned(a), WellPlanned(b) PROVE WellPlanned(a \o b)
<1>1. a \in Seq(Calls) /\ b \in Seq(Calls)
  BY DEF WellPlanned
<1> DEFINE c == a \o b
<1>2. c \in Seq(Calls) /\ DOMAIN c = 1..(Len(a) + Len(b)) /\ Len(a) \in Nat /\ Len(b) \in Nat
  BY <1>1, Joined
<1>3. ASSUME NEW k \in 1..Len(a), c[k].call = "ids"
      PROVE  /\ c[k].page \in DOMAIN Pages
             /\ \E j \in DOMAIN c :
                  k <= j /\ Closes(c[j]) /\ \A i \in k..j : c[i].call = "ids"
  <2>1. /\ \A n \in 1..Len(a) : c[n] = a[n]
        /\ DOMAIN a = 1..Len(a)
    BY <1>1, Joined
  <2>2. PICK j \in DOMAIN a : k <= j /\ Closes(a[j]) /\ \A i \in k..j : a[i].call = "ids"
    BY <1>3, <2>1 DEF WellPlanned
  <2>3. j \in DOMAIN c /\ c[j] = a[j] /\ \A i \in k..j : c[i] = a[i]
    BY <1>2, <2>1, <2>2
  <2>4. c[k].page \in DOMAIN Pages
    BY <1>3, <2>1 DEF WellPlanned
  <2>5. QED
    BY <2>2, <2>3, <2>4
<1>4. ASSUME NEW n \in 1..Len(b), c[Len(a) + n].call = "ids"
      PROVE  /\ c[Len(a) + n].page \in DOMAIN Pages
             /\ \E j \in DOMAIN c :
                  Len(a) + n <= j /\ Closes(c[j]) /\ \A i \in (Len(a) + n)..j : c[i].call = "ids"
  <2>1. /\ \A i \in 1..Len(b) : c[Len(a) + i] = b[i]
        /\ DOMAIN b = 1..Len(b)
    BY <1>1, Joined
  <2>2. PICK j \in DOMAIN b : n <= j /\ Closes(b[j]) /\ \A i \in n..j : b[i].call = "ids"
    BY <1>4, <2>1 DEF WellPlanned
  <2>3. Len(a) + j \in DOMAIN c /\ c[Len(a) + j] = b[j] /\ Len(a) + n <= Len(a) + j
    BY <1>2, <2>1, <2>2
  <2>4. ASSUME NEW i \in (Len(a) + n)..(Len(a) + j) PROVE c[i].call = "ids"
    <3>1. i - Len(a) \in n..j /\ i - Len(a) \in 1..Len(b) /\ i = Len(a) + (i - Len(a))
      BY <1>2, <2>1, <2>2
    <3>2. QED
      BY <3>1, <2>1, <2>2
  <2>5. c[Len(a) + n].page \in DOMAIN Pages
    BY <1>4, <2>1 DEF WellPlanned
  <2>6. QED
    BY <2>2, <2>3, <2>4, <2>5
<1>5. ASSUME NEW k \in DOMAIN c PROVE k \in 1..Len(a) \/ \E n \in 1..Len(b) : k = Len(a) + n
  <2>1. k \in 1..Len(a) \/ (k - Len(a) \in 1..Len(b) /\ k = Len(a) + (k - Len(a)))
    BY <1>2
  <2>2. QED
    BY <2>1
<1> HIDE DEF c
<1>6. WellPlanned(c)
  BY <1>2, <1>3, <1>4, <1>5 DEF WellPlanned
<1>7. QED
  BY <1>6 DEF c

LEMMA JoinCovers ==
  ASSUME NEW a \in Seq(Calls), NEW b \in Seq(Calls), NEW pairs
  PROVE  Covers(a, pairs) \/ Covers(b, pairs) => Covers(a \o b, pairs)
<1> DEFINE c == a \o b
<1>1. /\ DOMAIN c = 1..(Len(a) + Len(b)) /\ Len(a) \in Nat /\ Len(b) \in Nat
      /\ DOMAIN a = 1..Len(a) /\ DOMAIN b = 1..Len(b)
      /\ \A k \in 1..Len(a) : c[k] = a[k]
      /\ \A k \in 1..Len(b) : c[Len(a) + k] = b[k]
  BY Joined
<1>2. ASSUME NEW k \in DOMAIN a PROVE \E n \in DOMAIN c : c[n] = a[k]
  BY <1>1
<1>3. ASSUME NEW k \in DOMAIN b PROVE \E n \in DOMAIN c : c[n] = b[k]
  <2>1. Len(a) + k \in DOMAIN c /\ c[Len(a) + k] = b[k]
    BY <1>1
  <2>2. QED
    BY <2>1
<1> HIDE DEF c
<1>4. Covers(a, pairs) \/ Covers(b, pairs) => Covers(c, pairs)
  BY <1>2, <1>3 DEF Covers
<1>5. QED
  BY <1>4 DEF c

LEMMA SetupPlanned ==
  ASSUME NEW c \in {"connect", "schema", "models"}, NEW side \in Sides
  PROVE  WellPlanned(<<Call(c, side, 0)>>)
<1>1. Call(c, side, 0) \in Calls /\ Call(c, side, 0).call = c
  BY DEF Call, Calls
<1>2. QED
  BY <1>1 DEF WellPlanned

LEMMA CollectionPlanned ==
  ASSUME NEW side \in Sides
  PROVE  /\ WellPlanned(FrozenCollection(side))
         /\ Covers(FrozenCollection(side), {side} \X ToSet(Pages))
<1> DEFINE a == <<Call("count", side, 0)>>
           b == [n \in DOMAIN Pages |-> Call("ids", side, n)]
<1>1. /\ Call("count", side, 0) \in Calls /\ Call("count", side, 0).call = "count"
      /\ \A n \in DOMAIN Pages : Call("ids", side, n) \in Calls
      /\ \A n \in DOMAIN Pages : b[n].call = "ids" /\ b[n].page = n /\ b[n].side = side
  BY PagesAssumption DEF Call, Calls
<1>2. a \in Seq(Calls) /\ b \in Seq(Calls) /\ Len(b) = Len(Pages) /\ DOMAIN b = 1..Len(Pages)
      /\ Len(a) = 1 /\ a[1] = Call("count", side, 0) /\ DOMAIN a = 1..1
  BY <1>1, PagesAssumption
<1>3. WellPlanned(a)
  BY <1>1, <1>2 DEF WellPlanned
<1>4. WellPlanned(b)
  <2>1. Len(Pages) \in DOMAIN b /\ Closes(b[Len(Pages)])
    BY <1>1, <1>2, PagesAssumption DEF Closes
  <2>2. ASSUME NEW k \in DOMAIN b
        PROVE  k <= Len(Pages) /\ \A i \in k..Len(Pages) : b[i].call = "ids"
    BY <1>1, <1>2, PagesAssumption
  <2>3. QED
    BY <1>1, <1>2, <2>1, <2>2, PagesAssumption DEF WellPlanned
<1>5. Covers(b, {side} \X ToSet(Pages))
  BY <1>1, <1>2, PagesAssumption DEF Covers, PairOf
<1>6. QED
  BY <1>2, <1>3, <1>4, <1>5, JoinPlans, JoinCovers DEF FrozenCollection

LEMMA PlansAreSound ==
  /\ WellPlanned(BuildPlan) /\ Covers(BuildPlan, Searched)
  /\ WellPlanned(ReadyPlan) /\ Covers(ReadyPlan, Pairs)
<1> DEFINE hybrid == FrozenCollection("hybrid")
           dense == FrozenCollection("dense")
           H == {"hybrid"} \X ToSet(Pages)
           D == {"dense"} \X ToSet(Pages)
<1>1. /\ "hybrid" \in Sides /\ "dense" \in Sides /\ Pairs = H \cup D
      /\ Searched \in {H, Pairs} /\ (strategy # "union" => Searched = H)
  BY DEF Sides, Pairs, Searched
<1>2. /\ WellPlanned(hybrid) /\ Covers(hybrid, H) /\ WellPlanned(dense) /\ Covers(dense, D)
  BY <1>1, CollectionPlanned
<1>3. /\ \A c \in {"connect", "schema", "models"} : WellPlanned(Setup(c))
      /\ WellPlanned(<<Call("schema", "dense", 0)>>)
  BY <1>1, SetupPlanned DEF Setup
<1> HIDE DEF hybrid, dense, H, D
<1>4. \A a, b : WellPlanned(a) /\ WellPlanned(b) =>
        /\ WellPlanned(a \o b)
        /\ \A pairs : Covers(a, pairs) \/ Covers(b, pairs) => Covers(a \o b, pairs)
  BY JoinPlans, JoinCovers DEF WellPlanned
<1>5. \A a : Covers(a, H) /\ Covers(a, D) => Covers(a, Pairs)
  BY <1>1 DEF Covers
<1>6. WellPlanned(ReadyPlan) /\ Covers(ReadyPlan, Pairs)
  <2>1. /\ WellPlanned(Setup("connect") \o dense) /\ Covers(Setup("connect") \o dense, D)
    BY <1>2, <1>3, <1>4
  <2>2. QED
    BY <1>2, <1>4, <1>5, <2>1 DEF ReadyPlan, dense, hybrid
<1>7. WellPlanned(BuildPlan) /\ Covers(BuildPlan, Searched)
  <2> DEFINE start == Setup("connect") \o Setup("schema")
  <2>1. WellPlanned(start)
    BY <1>3, <1>4
  <2>2. CASE strategy = "union"
    <3> DEFINE both == start \o <<Call("schema", "dense", 0)>> \o hybrid
    <3>1. WellPlanned(start \o <<Call("schema", "dense", 0)>>)
      BY <1>3, <1>4, <2>1
    <3>2. WellPlanned(both) /\ Covers(both, H)
      BY <1>2, <1>4, <3>1
    <3>3. WellPlanned(both \o dense) /\ Covers(both \o dense, H) /\ Covers(both \o dense, D)
      BY <1>2, <1>4, <3>2
    <3> DEFINE all == both \o dense \o Setup("models")
    <3>4. WellPlanned(all) /\ Covers(all, H) /\ Covers(all, D)
      BY <1>3, <1>4, <3>3
    <3>5. BuildPlan = all
      BY <2>2 DEF BuildPlan, hybrid, dense
    <3> HIDE DEF all
    <3>6. QED
      BY <1>1, <1>5, <3>4, <3>5
  <2>3. CASE strategy # "union"
    <3>1. WellPlanned(start \o hybrid) /\ Covers(start \o hybrid, H)
      BY <1>2, <1>4, <2>1
    <3> DEFINE all == start \o hybrid \o Setup("models")
    <3>2. WellPlanned(all) /\ Covers(all, H)
      BY <1>3, <1>4, <3>1
    <3>3. BuildPlan = all
      BY <2>3 DEF BuildPlan, hybrid
    <3> HIDE DEF all
    <3>4. QED
      BY <1>1, <2>3, <3>2, <3>3
  <2>4. QED
    BY <2>2, <2>3
<1>8. QED
  BY <1>6, <1>7

(***************************************************************************)
(* The invariant holds at the start                                        *)
(***************************************************************************)
LEMMA InitRuntime == Init => RuntimeInv
<1> SUFFICES ASSUME Init PROVE RuntimeInv
  OBVIOUS
<1>0. Cardinality({}) <= PoolSize
  <2>1. 0 <= PoolSize
    BY RuntimeAssumption
  <2>2. QED
    BY <2>1, FS_EmptySet
<1>1. TypeOK
  <2>1. {r \in Requests : pc[r] \in InThread} = {}
    BY DEF Init, InThread
  <2>2. Cardinality({r \in Requests : pc[r] \in InThread}) <= PoolSize
    BY <1>0, <2>1, Zenon
  <2>3. QED
    BY <2>2, RuntimeAssumption DEF Init, TypeOK, Stages
<1>2. FewServices
  <2>1. Services = {} /\ Services \cup Composers = {}
    BY DEF Init, Services, Composers
  <2>2. QED
    BY <1>0, <2>1 DEF Init, FewServices
<1>3. QED
  BY <1>1, <1>2, RuntimeAssumption
     DEF Init, RuntimeInv, Routes, Served, BuildersHoldTheLock, DelegatesAreChecked, ReadyIsTrue,
         ValidationsAreHonest

(***************************************************************************)
(* Every step keeps the invariant                                          *)
(***************************************************************************)
StepOf(r) == Send(r) \/ Advance(r) \/ CallFails(r)

LEMMA Tables ==
  ASSUME TypeOK
  PROVE  /\ kind \in [Requests -> Kinds] /\ pc \in [Requests -> Stages]
         /\ step \in [Requests -> Nat] /\ read \in [Requests -> SUBSET Versions]
         /\ service \in [Requests -> Requests \cup {None}]
         /\ status \in [Requests -> {"none", "200", "500", "503", "denied"}]
         /\ cached \in Requests \cup {None}
         /\ delegate \in [Requests -> Requests \cup {None}]
         /\ holder \in [Requests -> Requests \cup {None}]
         /\ wasFrozen \in [Requests -> SUBSET Pairs]
BY DEF TypeOK

LEMMA NoneIsNoRequest == None \notin Requests
BY RuntimeAssumption

LEMMA RoutesKept ==
  ASSUME TypeOK, Routes, NEW r \in Requests, StepOf(r) PROVE Routes'
<1> USE Tables, NoneIsNoRequest DEF Routes
<1>1. CASE Send(r)
  BY <1>1, RuntimeAssumption DEF Send, Go
<1>2. CASE Health(r)
  BY <1>2 DEF Health, Go, Respond
<1>3. CASE Depend(r)
  BY <1>3 DEF Depend, Go
<1>4. CASE Compose(r)
  BY <1>4 DEF Compose, Go, Respond
<1>5. CASE Authorize(r)
  BY <1>5 DEF Authorize, Go, Respond
<1>6. CASE Admit(r)
  BY <1>6 DEF Admit, Go
<1>7. CASE Lock(r)
  BY <1>7 DEF Lock, Go, BeginValidation
<1>8. CASE Probe(r)
  BY <1>8 DEF Probe, Go, Respond, BeginValidation
<1>9. CASE Validate(r)
  BY <1>9 DEF Validate, Go, Respond, Releases
<1>10. CASE CallFails(r)
  BY <1>10 DEF CallFails, Go, Respond, Releases
<1>11. CASE Install(r)
  BY <1>11 DEF Install, Go, Releases
<1>12. CASE Finish(r)
  BY <1>12 DEF Finish, Go, Respond
<1>13. QED
  BY <1>1, <1>2, <1>3, <1>4, <1>5, <1>6, <1>7, <1>8, <1>9, <1>10, <1>11, <1>12 DEF StepOf, Advance

LEMMA ServedKept ==
  ASSUME TypeOK, Served, NEW r \in Requests, StepOf(r) PROVE Served'
<1> USE Tables, NoneIsNoRequest DEF Served
<1>1. CASE Send(r)
  BY <1>1, RuntimeAssumption DEF Send, Go
<1>2. CASE Health(r)
  BY <1>2 DEF Health, Go, Respond
<1>3. CASE Depend(r)
  BY <1>3 DEF Depend, Go
<1>4. CASE Compose(r)
  BY <1>4 DEF Compose, Go, Respond
<1>5. CASE Authorize(r)
  BY <1>5 DEF Authorize, Go, Respond
<1>6. CASE Admit(r)
  BY <1>6 DEF Admit, Go
<1>7. CASE Lock(r)
  BY <1>7 DEF Lock, Go, BeginValidation
<1>8. CASE Probe(r)
  BY <1>8 DEF Probe, Go, Respond, BeginValidation
<1>9. CASE Validate(r)
  BY <1>9 DEF Validate, Go, Respond, Releases
<1>10. CASE CallFails(r)
  BY <1>10 DEF CallFails, Go, Respond, Releases
<1>11. CASE Install(r)
  BY <1>11 DEF Install, Go, Releases
<1>12. CASE Finish(r)
  BY <1>12 DEF Finish, Go, Respond
<1>13. QED
  BY <1>1, <1>2, <1>3, <1>4, <1>5, <1>6, <1>7, <1>8, <1>9, <1>10, <1>11, <1>12 DEF StepOf, Advance

LEMMA BuildersHoldTheLockKept ==
  ASSUME TypeOK, Served, BuildersHoldTheLock,
         NEW r \in Requests, StepOf(r)
  PROVE  BuildersHoldTheLock'
<1> USE Tables, NoneIsNoRequest DEF BuildersHoldTheLock, Served
<1>1. CASE Send(r)
  BY <1>1, RuntimeAssumption DEF Send, Go
<1>2. CASE Health(r)
  BY <1>2 DEF Health, Go, Respond
<1>3. CASE Depend(r)
  BY <1>3 DEF Depend, Go
<1>4. CASE Compose(r)
  BY <1>4 DEF Compose, Go, Respond
<1>5. CASE Authorize(r)
  BY <1>5 DEF Authorize, Go, Respond
<1>6. CASE Admit(r)
  BY <1>6 DEF Admit, Go
<1>7. CASE Lock(r)
  BY <1>7 DEF Lock, Go, BeginValidation
<1>8. CASE Probe(r)
  BY <1>8 DEF Probe, Go, Respond, BeginValidation
<1>9. CASE Validate(r)
  BY <1>9 DEF Validate, Go, Respond, Releases
<1>10. CASE CallFails(r)
  BY <1>10 DEF CallFails, Go, Respond, Releases
<1>11. CASE Install(r)
  BY <1>11 DEF Install, Go, Releases
<1>12. CASE Finish(r)
  BY <1>12 DEF Finish, Go, Respond
<1>13. QED
  BY <1>1, <1>2, <1>3, <1>4, <1>5, <1>6, <1>7, <1>8, <1>9, <1>10, <1>11, <1>12 DEF StepOf, Advance

\* A validation that ends has found each page frozen, each at some time.
LEMMA PlanIsSound ==
  ASSUME NEW r \in Requests, pc[r] \in {"build", "check"}
  PROVE  WellPlanned(Plan(r)) /\ Covers(Plan(r), IF pc[r] = "build" THEN Searched ELSE Pairs)
BY PlansAreSound DEF Plan

LEMMA ValidationEnds ==
  ASSUME TypeOK, ValidationsAreHonest, NEW r \in Requests,
         pc[r] \in {"build", "check"}, step[r] > Len(Plan(r))
  PROVE  (IF pc[r] = "build" THEN Searched ELSE Pairs) \subseteq wasFrozen[r]
<1> DEFINE plan == Plan(r)
           needed == IF pc[r] = "build" THEN Searched ELSE Pairs
<1>1. /\ WellPlanned(plan) /\ Covers(plan, needed)
      /\ DOMAIN plan = 1..Len(plan) /\ Len(plan) \in Nat
      /\ step[r] \in Nat /\ step[r] > Len(plan)
  BY PlanIsSound, Tables DEF WellPlanned
<1>2. \A k \in DOMAIN plan : k < step[r] /\ plan[k].call = "ids" => Vouched(r, k)
  BY DEF ValidationsAreHonest
<1>3. ASSUME NEW p \in needed PROVE p \in wasFrozen[r]
  <2>1. PICK k \in DOMAIN plan : plan[k].call = "ids" /\ PairOf(plan[k]) = p
    BY <1>1, <1>3 DEF Covers
  <2>2. PICK j \in DOMAIN plan : k <= j /\ Closes(plan[j])
    BY <1>1, <2>1 DEF WellPlanned
  <2>3. k < step[r] /\ j \in k..(step[r] - 1)
    BY <1>1, <2>2
  <2>4. Vouched(r, k)
    BY <1>2, <2>1, <2>3
  <2>5. QED
    BY <2>1, <2>2, <2>3, <2>4 DEF Vouched
<1>4. QED
  BY <1>3

LEMMA ReadyIsTrueKept ==
  ASSUME TypeOK, Routes, ReadyIsTrue, ValidationsAreHonest,
         NEW r \in Requests, StepOf(r)
  PROVE  ReadyIsTrue'
<1> USE Tables, NoneIsNoRequest DEF ReadyIsTrue, Searched
<1>1. CASE Send(r)
  BY <1>1, RuntimeAssumption DEF Send, Go
<1>2. CASE Health(r)
  BY <1>2 DEF Health, Go, Respond, Routes
<1>3. CASE Depend(r)
  BY <1>3 DEF Depend, Go
<1>4. CASE Compose(r)
  BY <1>4 DEF Compose, Go, Respond
<1>5. CASE Authorize(r)
  BY <1>5 DEF Authorize, Go, Respond
<1>6. CASE Admit(r)
  BY <1>6 DEF Admit, Go
<1>7. CASE Lock(r)
  BY <1>7 DEF Lock, Go, BeginValidation
<1>8. CASE Probe(r)
  BY <1>8 DEF Probe, Go, Respond, BeginValidation
<1>9. CASE Validate(r)
  BY <1>9 DEF Validate, Go, Respond, Releases
<1>10. CASE CallFails(r)
  BY <1>10 DEF CallFails, Go, Respond, Releases
<1>11. CASE Install(r)
  BY <1>11 DEF Install, Go, Releases
<1>12. CASE Finish(r)
  BY <1>12, ValidationEnds DEF Finish, Go, Respond, Routes, Plan
<1>13. QED
  BY <1>1, <1>2, <1>3, <1>4, <1>5, <1>6, <1>7, <1>8, <1>9, <1>10, <1>11, <1>12 DEF StepOf, Advance

LEMMA DelegatesAreCheckedKept ==
  ASSUME TypeOK, BuildersHoldTheLock, Served, DelegatesAreChecked, ValidationsAreHonest,
         NEW r \in Requests, StepOf(r)
  PROVE  DelegatesAreChecked'
<1> USE Tables, NoneIsNoRequest DEF DelegatesAreChecked, Searched
<1>1. CASE Send(r)
  BY <1>1, RuntimeAssumption DEF Send, Go
<1>2. CASE Health(r)
  BY <1>2 DEF Health, Go, Respond
<1>3. CASE Depend(r)
  BY <1>3 DEF Depend, Go
<1>4. CASE Compose(r)
  BY <1>4 DEF Compose, Go, Respond
<1>5. CASE Authorize(r)
  BY <1>5 DEF Authorize, Go, Respond
<1>6. CASE Admit(r)
  BY <1>6 DEF Admit, Go
<1>7. CASE Lock(r)
  BY <1>7 DEF Lock, Go, BeginValidation
<1>8. CASE Probe(r)
  BY <1>8 DEF Probe, Go, Respond, BeginValidation
<1>9. CASE Validate(r)
  BY <1>9 DEF Validate, Go, Respond, Releases
<1>10. CASE CallFails(r)
  BY <1>10 DEF CallFails, Go, Respond, Releases
<1>11. CASE Install(r)
  BY <1>11, ValidationEnds DEF Install, Go, Releases, Plan, Served
<1>12. CASE Finish(r)
  BY <1>12 DEF Finish, Go, Respond
<1>13. QED
  BY <1>1, <1>2, <1>3, <1>4, <1>5, <1>6, <1>7, <1>8, <1>9, <1>10, <1>11, <1>12 DEF StepOf, Advance

LEMMA SharedTables ==
  ASSUME TypeOK
  PROVE  /\ strategy \in Strategies /\ collections \in [Sides -> Cells]
         /\ changes \in 0..MaxChanges /\ faults \in 0..MaxFaults /\ troubled \subseteq Requests
BY DEF TypeOK

Typed ==
  /\ strategy \in Strategies /\ collections \in [Sides -> Cells]
  /\ kind \in [Requests -> Kinds] /\ pc \in [Requests -> Stages]
  /\ step \in [Requests -> Nat] /\ read \in [Requests -> SUBSET Versions]
  /\ service \in [Requests -> Requests \cup {None}]
  /\ status \in [Requests -> {"none", "200", "500", "503", "denied"}]
  /\ cached \in Requests \cup {None}
  /\ delegate \in [Requests -> Requests \cup {None}]
  /\ holder \in [Requests -> Requests \cup {None}]
  /\ changes \in 0..MaxChanges /\ faults \in 0..MaxFaults
  /\ wasFrozen \in [Requests -> SUBSET Pairs] /\ troubled \subseteq Requests

LEMMA FrozenArePairs == FrozenPairs \in SUBSET Pairs
BY DEF FrozenPairs

LEMMA ReadIsOfVersions ==
  ASSUME TypeOK, NEW r \in Requests, pc[r] \in {"build", "check"}, step[r] \in DOMAIN Plan(r)
  PROVE  ReadAfter(r) \in SUBSET Versions
<1> DEFINE c == NextCall(r)
<1>1. c \in Calls /\ (c.call = "ids" => c.page \in DOMAIN Pages)
  BY PlanIsSound DEF NextCall, WellPlanned
<1>2. collections \in [Sides -> Cells] /\ read[r] \subseteq Versions
  BY SharedTables, Tables
<1>3. c.side \in Sides
  BY <1>1 DEF Calls
<1>4. c.call = "ids" => collections[c.side][Pages[c.page]] \in Versions
  BY <1>1, <1>2, <1>3, PagesAssumption DEF Cells
<1> HIDE DEF c
<1>5. QED
  BY <1>2, <1>4 DEF ReadAfter, c

LEMMA Bounds == MaxChanges \in Nat /\ MaxFaults \in Nat
BY RuntimeAssumption

LEMMA OneMore ==
  /\ \A n \in 0..MaxChanges : n < MaxChanges => n + 1 \in 0..MaxChanges
  /\ \A n \in 0..MaxFaults : n < MaxFaults => n + 1 \in 0..MaxFaults
BY Bounds

LEMMA TypesKept ==
  ASSUME TypeOK, Served, NEW r \in Requests, StepOf(r) PROVE Typed'
<1> USE Tables, NoneIsNoRequest, SharedTables DEF Typed, Stages
<1>1. CASE Send(r)
  BY <1>1, RuntimeAssumption DEF Send, Go
<1>2. CASE Health(r)
  BY <1>2 DEF Health, Go, Respond
<1>3. CASE Depend(r)
  BY <1>3 DEF Depend, Go
<1>4. CASE Compose(r)
  BY <1>4 DEF Compose, Go, Respond
<1>5. CASE Authorize(r)
  BY <1>5 DEF Authorize, Go, Respond
<1>6. CASE Admit(r)
  BY <1>6 DEF Admit, Go
<1>7. CASE Lock(r)
  BY <1>7, FrozenArePairs DEF Lock, Go, BeginValidation
<1>8. CASE Probe(r)
  BY <1>8, FrozenArePairs DEF Probe, Go, Respond, BeginValidation
<1>9. CASE Validate(r)
  BY <1>9, ReadIsOfVersions DEF Validate, Go, Respond, Releases
<1>10. CASE CallFails(r)
  BY <1>10, OneMore DEF CallFails, Go, Respond, Releases
<1>11. CASE Install(r)
  BY <1>11 DEF Install, Go, Releases
<1>12. CASE Finish(r)
  BY <1>12 DEF Finish, Go, Respond
<1>13. QED
  BY <1>1, <1>2, <1>3, <1>4, <1>5, <1>6, <1>7, <1>8, <1>9, <1>10, <1>11, <1>12 DEF StepOf, Advance

\* The pool: a step enters it only while it has room.
Busy == {r \in Requests : pc[r] \in InThread}

LEMMA BusyIsFinite ==
  /\ IsFiniteSet(Busy) /\ Cardinality(Busy) \in Nat
  /\ IsFiniteSet(Busy)' /\ Cardinality(Busy)' \in Nat
  /\ PoolSize \in Nat
<1>1. IsFiniteSet(Requests) /\ PoolSize \in Nat
  BY RuntimeAssumption
<1>2. Busy \subseteq Requests /\ Busy' \subseteq Requests
  BY DEF Busy
<1>3. IsFiniteSet(Busy) /\ IsFiniteSet(Busy')
  BY <1>1, <1>2, FS_Subset
<1>4. Cardinality(Busy) \in Nat /\ Cardinality(Busy') \in Nat
  BY <1>3, FS_CardinalityType
<1>5. QED
  BY <1>1, <1>3, <1>4

LEMMA PoolGoes ==
  ASSUME TypeOK, NEW r \in Requests, NEW s \in Stages, Go(r, s),
         s \in InThread => pc[r] \in InThread \/ HasThread
  PROVE  Cardinality(Busy)' <= PoolSize
<1>1. Cardinality(Busy) <= PoolSize
  BY DEF TypeOK, Busy
<1>2. pc \in [Requests -> Stages] /\ pc' = [pc EXCEPT ![r] = s]
  BY Tables DEF Go
<1>3. CASE s \in InThread /\ pc[r] \notin InThread
  <2>1. Cardinality(Busy) < PoolSize
    BY <1>3 DEF HasThread, Busy
  <2>2. Busy' = Busy \cup {r} /\ r \notin Busy
    BY <1>2, <1>3 DEF Busy
  <2>3. Cardinality(Busy \cup {r}) = Cardinality(Busy) + 1
    BY <2>2, BusyIsFinite, FS_AddElement
  <2>4. QED
    BY <2>1, <2>2, <2>3, BusyIsFinite
<1>4. CASE s \notin InThread \/ pc[r] \in InThread
  <2>1. Busy' \subseteq Busy
    BY <1>2, <1>4 DEF Busy
  <2>2. Cardinality(Busy') <= Cardinality(Busy)
    BY <2>1, BusyIsFinite, FS_Subset
  <2>3. QED
    BY <1>1, <2>2, BusyIsFinite
<1>5. QED
  BY <1>3, <1>4

LEMMA StepsGo ==
  ASSUME TypeOK, NEW r \in Requests, StepOf(r)
  PROVE  \/ UNCHANGED pc
         \/ \E s \in Stages : Go(r, s) /\ (s \in InThread => pc[r] \in InThread \/ HasThread)
<1> USE DEF InThread, Stages
<1>1. CASE Send(r)
  BY <1>1, Tables, RuntimeAssumption DEF Send
<1>2. CASE Health(r) \/ Depend(r) \/ Compose(r) \/ Authorize(r) \/ Admit(r)
  BY <1>2 DEF Health, Depend, Compose, Authorize, Admit, Respond
<1>3. CASE Lock(r) \/ Probe(r)
  BY <1>3 DEF Lock, Probe, Respond, BeginValidation
<1>4. CASE Validate(r) \/ CallFails(r) \/ Install(r) \/ Finish(r)
  BY <1>4 DEF Validate, CallFails, Install, Finish, Respond
<1>5. QED
  BY <1>1, <1>2, <1>3, <1>4 DEF StepOf, Advance

LEMMA TypeKept ==
  ASSUME TypeOK, Served, NEW r \in Requests, StepOf(r) PROVE TypeOK'
<1>1. Cardinality(Busy)' <= PoolSize
  <2>1. CASE UNCHANGED pc
    BY <2>1 DEF TypeOK, Busy
  <2>2. QED
    BY <2>1, StepsGo, PoolGoes
<1>2. QED
  BY <1>1, TypesKept DEF Typed, TypeOK, Busy

LEMMA FewServicesKept ==
  ASSUME TypeOK, TypeOK', Served, FewServices,
         NEW r \in Requests, StepOf(r)
  PROVE  FewServices'
<1> DEFINE few == Services \cup Composers
<1>1. IsFiniteSet(few) /\ IsFiniteSet(few') /\ Cardinality(few) \in Nat /\ Cardinality(few') \in Nat
  <2>1. few \subseteq Requests /\ few' \subseteq Requests
    BY Tables DEF Services, Composers, TypeOK
  <2>2. IsFiniteSet(Requests)
    BY RuntimeAssumption
  <2>3. QED
    BY <2>1, <2>2, FS_Subset, FS_CardinalityType
<1>2. PoolSize \in Nat
  BY RuntimeAssumption
<1>3. ASSUME few' \subseteq few PROVE Cardinality(few') <= PoolSize
  <2>1. Cardinality(few') <= Cardinality(few)
    BY <1>1, <1>3, FS_Subset
  <2>2. QED
    BY <1>1, <1>2, <2>1 DEF FewServices
<1>4. CASE cached' = cached /\ Services' = Services /\ Composers' \subseteq Composers
  BY <1>3, <1>4 DEF FewServices
<1>5. CASE Depend(r)
  <2>1. CASE cached # None
    <3>1. service' = [service EXCEPT ![r] = cached] /\ pc' = [pc EXCEPT ![r] = "authorize"]
          /\ cached' = cached
      BY <1>5, <2>1 DEF Depend, Go
    <3>2. cached \in Services'
      BY <2>1, <3>1, Tables DEF Services
    <3>3. Services' \subseteq Services /\ Composers' \subseteq Composers
      BY <2>1, <3>1, Tables DEF Services, Composers, FewServices
    <3>4. QED
      BY <1>3, <2>1, <3>1, <3>2, <3>3 DEF FewServices
  <2>2. CASE cached = None
    <3>1. service' = service /\ pc' = [pc EXCEPT ![r] = "compose"] /\ cached' = None
      BY <1>5, <2>2 DEF Depend, Go
    <3>2. Services' = {}
      BY <2>2, <3>1 DEF Services, FewServices
    <3>3. few' \subseteq Busy'
      BY <3>2 DEF Composers, Busy, InThread
    <3>4. Cardinality(few') <= Cardinality(Busy')
      BY <3>3, BusyIsFinite, FS_Subset
    <3>5. Cardinality(Busy') <= PoolSize
      BY DEF TypeOK, Busy
    <3>6. QED
      BY <1>1, <1>2, <3>1, <3>2, <3>4, <3>5, BusyIsFinite DEF FewServices
  <2>3. QED
    BY <2>1, <2>2
<1>6. CASE Compose(r) /\ strategy # "unsupported"
  <2>1. /\ pc[r] = "compose" /\ service' = [service EXCEPT ![r] = r]
        /\ cached' = IF cached = None THEN r ELSE cached
        /\ pc' = [pc EXCEPT ![r] = "authorize"]
    BY <1>6 DEF Compose, Go
  <2>2. r \in Composers /\ r \in Services' /\ r # None
    BY <2>1, Tables, NoneIsNoRequest DEF Composers, Services
  <2>3. Services' \subseteq Services \cup {r} /\ Composers' \subseteq Composers
    BY <2>1, Tables DEF Services, Composers
  <2>4. Cardinality(few') <= PoolSize
    BY <1>3, <2>2, <2>3
  <2>5. cached' # None /\ cached' \in Services'
    <3>1. CASE cached = None
      BY <2>1, <2>2, <3>1
    <3>2. CASE cached # None
      <4>1. PICK q \in Requests : service[q] = cached
        BY <3>2 DEF FewServices, Services
      <4>2. q # r
        BY <2>1, <3>2, <4>1 DEF Served
      <4>3. QED
        BY <2>1, <3>2, <4>1, <4>2, Tables DEF Services
    <3>3. QED
      BY <3>1, <3>2
  <2>6. QED
    BY <2>4, <2>5 DEF FewServices
<1>7. CASE Compose(r) /\ strategy = "unsupported"
  BY <1>4, <1>7, Tables DEF Compose, Go, Respond, Services, Composers
<1>8. CASE Send(r) \/ Health(r) \/ Authorize(r) \/ Admit(r) \/ Lock(r) \/ Probe(r)
           \/ Validate(r) \/ CallFails(r) \/ Install(r) \/ Finish(r)
  <2>1. UNCHANGED <<service, cached>>
    BY <1>8 DEF Send, Health, Authorize, Admit, Lock, Probe, Validate, CallFails, Install, Finish
  <2>2. UNCHANGED pc \/ \E s \in Stages \ {"compose"} : pc' = [pc EXCEPT ![r] = s]
    BY <1>8, RuntimeAssumption, Tables
       DEF Send, Health, Authorize, Admit, Lock, Probe, Validate, CallFails, Install, Finish,
           Go, Respond, BeginValidation, Stages
  <2>3. Services' = Services /\ Composers' \subseteq Composers
    BY <2>1, <2>2, Tables DEF Services, Composers
  <2>4. QED
    BY <1>4, <2>1, <2>3
<1>9. QED
  BY <1>5, <1>6, <1>7, <1>8 DEF StepOf, Advance

LEMMA HonestKept ==
  ASSUME TypeOK, ValidationsAreHonest, NEW r \in Requests, StepOf(r)
  PROVE  ValidationsAreHonest'
<1>1. FrozenPairs' = FrozenPairs /\ BuildPlan' = BuildPlan /\ ReadyPlan' = ReadyPlan
  <2>1. strategy' = strategy /\ collections' = collections
    BY DEF StepOf, Advance, Send, Health, Depend, Compose, Authorize, Admit, Lock, Probe,
           Validate, CallFails, Install, Finish
  <2>2. QED
    BY <2>1 DEF FrozenPairs, BuildPlan, ReadyPlan, Setup, FrozenCollection, Call
<1> DEFINE Honest(q) ==
      pc[q] \in {"build", "check"} =>
        /\ FrozenPairs \subseteq wasFrozen[q]
        /\ step[q] >= 1
        /\ \A k \in DOMAIN Plan(q) :
             k < step[q] /\ Plan(q)[k].call = "ids" => Vouched(q, k)
<1>2. ASSUME NEW q \in Requests, pc'[q] = pc[q], step'[q] = step[q], read'[q] = read[q],
             wasFrozen'[q] = wasFrozen[q]
      PROVE  Honest(q)'
  <2>1. Honest(q)
    BY DEF ValidationsAreHonest
  <2>2. Plan(q)' = Plan(q)
    BY <1>1, <1>2 DEF Plan
  <2>3. \A k : Vouched(q, k)' = Vouched(q, k)
    BY <1>2, <2>2 DEF Vouched
  <2>4. QED
    BY <1>1, <1>2, <2>1, <2>2, <2>3
<1>3. ASSUME NEW q \in Requests, pc'[q] \notin {"build", "check"} PROVE Honest(q)'
  BY <1>3
<1>4. ASSUME NEW s \in {"build", "check"}, BeginValidation(r, s) PROVE Honest(r)'
  <2>1. step'[r] = 1 /\ wasFrozen'[r] = FrozenPairs /\ pc'[r] = s
    BY <1>4, Tables DEF BeginValidation, Go
  <2>2. \A k \in DOMAIN Plan(r)' : ~(k < 1)
    BY <2>1, <1>1, PlansAreSound DEF Plan, WellPlanned
  <2>3. QED
    BY <1>1, <2>1, <2>2
<1>5. ASSUME Validate(r), Passes(r) PROVE Honest(r)'
  <2> DEFINE plan == Plan(r)
             c == NextCall(r)
  <2>1. /\ pc' = pc /\ wasFrozen' = wasFrozen /\ pc[r] \in {"build", "check"}
        /\ step' = [step EXCEPT ![r] = @ + 1] /\ read' = [read EXCEPT ![r] = ReadAfter(r)]
        /\ step[r] \in DOMAIN plan /\ c = plan[step[r]]
    BY <1>5 DEF Validate, NextCall
  <2>2. step'[r] = step[r] + 1 /\ read'[r] = ReadAfter(r) /\ step[r] \in Nat
    BY <2>1, Tables
  <2>3. plan' = plan
    BY <1>1, <2>1 DEF Plan
  <2>4. WellPlanned(plan)
    BY <2>1, PlanIsSound
  <2>5. /\ FrozenPairs \subseteq wasFrozen[r] /\ step[r] >= 1
        /\ \A k \in DOMAIN plan : k < step[r] /\ plan[k].call = "ids" => Vouched(r, k)
    BY <2>1 DEF ValidationsAreHonest
  <2>6. plan \in Seq(Calls) /\ DOMAIN plan = 1..Len(plan) /\ Len(plan) \in Nat
    BY <2>4 DEF WellPlanned
  <2>7. /\ c \in Calls /\ step'[r] - 1 = step[r]
        /\ (c.call = "ids" => c.page \in DOMAIN Pages /\ c.side \in Sides)
    <3>1. c \in Calls
      BY <2>1, <2>6
    <3>2. c.call = "ids" => c.page \in DOMAIN Pages
      BY <2>1, <2>4 DEF WellPlanned
    <3>3. QED
      BY <2>2, <3>1, <3>2 DEF Calls
  <2>8. ASSUME c.call = "ids"
        PROVE  /\ ReadAfter(r) = read[r] \cup {collections[c.side][Pages[c.page]]}
               /\ Closes(c) => ReadAfter(r) = {Frozen}
    BY <1>5, <2>8 DEF ReadAfter, Passes, Closes
  <2>9. ASSUME NEW k \in DOMAIN plan, k = step[r], c.call = "ids" PROVE Vouched(r, k)'
    <3> DEFINE v == collections[c.side][Pages[c.page]]
    <3>1. CASE v = Frozen
      <4>1. PairOf(c) \in FrozenPairs
        BY <2>7, <2>9, <3>1, PagesAssumption DEF PairOf, FrozenPairs, Pairs
      <4>2. QED
        BY <2>1, <2>3, <2>5, <2>9, <4>1 DEF Vouched
    <3>2. CASE v # Frozen
      <4>1. v \in ReadAfter(r) /\ ~Closes(c)
        BY <2>8, <2>9, <3>2
      <4>2. \A j \in step[r]..step[r] : j = step[r]
        BY <2>2
      <4>3. QED
        BY <2>1, <2>2, <2>3, <2>7, <2>9, <3>2, <4>1, <4>2 DEF Vouched
    <3>3. QED
      BY <3>1, <3>2
  <2>10. ASSUME NEW k \in DOMAIN plan, k < step[r], plan[k].call = "ids" PROVE Vouched(r, k)'
    <3>1. CASE PairOf(plan[k]) \in wasFrozen[r]
      BY <2>1, <2>3, <3>1 DEF Vouched
    <3>2. CASE PairOf(plan[k]) \notin wasFrozen[r]
      <4>1. PICK v \in read[r] : v # Frozen
        BY <2>5, <2>10, <3>2 DEF Vouched
      <4>2. \A j \in k..(step[r] - 1) : ~Closes(plan[j])
        BY <2>5, <2>10, <3>2 DEF Vouched
      <4>3. c.call # "count"
        <5>1. SUFFICES ASSUME c.call = "count" PROVE FALSE
          OBVIOUS
        <5>2. PICK j \in DOMAIN plan :
                k <= j /\ Closes(plan[j]) /\ \A i \in k..j : plan[i].call = "ids"
          BY <2>4, <2>10 DEF WellPlanned
        <5>3. step[r] \notin k..j
          BY <2>1, <5>1, <5>2
        <5>4. j \in k..(step[r] - 1)
          BY <2>2, <2>6, <2>10, <5>2, <5>3
        <5>5. QED
          BY <4>2, <5>2, <5>4
      <4>4. v \in ReadAfter(r)
        BY <4>1, <4>3, <2>8 DEF ReadAfter
      <4>5. ~Closes(c)
        BY <2>8, <4>1, <4>4 DEF Closes
      <4>6. \A j \in k..step[r] : j \in k..(step[r] - 1) \/ j = step[r]
        BY <2>2, <2>6
      <4>7. \A j \in k..step[r] : ~Closes(plan[j])
        BY <2>1, <4>2, <4>5, <4>6
      <4>8. QED
        BY <2>2, <2>3, <2>7, <4>1, <4>4, <4>7 DEF Vouched
    <3>3. QED
      BY <3>1, <3>2
  <2>11. ASSUME NEW k \in DOMAIN plan, k < step'[r] PROVE k < step[r] \/ k = step[r]
    BY <2>2, <2>6, <2>11
  <2>12. \A k \in DOMAIN plan : k < step'[r] /\ plan[k].call = "ids" => Vouched(r, k)'
    BY <2>1, <2>9, <2>10, <2>11
  <2>13. step'[r] >= 1 /\ FrozenPairs' \subseteq wasFrozen'[r]
    BY <1>1, <2>1, <2>2, <2>5
  <2>14. QED
    BY <2>3, <2>12, <2>13
<1>6. ASSUME NEW q \in Requests PROVE Honest(q)'
  <2>1. CASE q # r
    <3>1. pc'[q] = pc[q] /\ step'[q] = step[q] /\ read'[q] = read[q] /\ wasFrozen'[q] = wasFrozen[q]
      <4>1. CASE Send(r) \/ Health(r) \/ Depend(r) \/ Compose(r) \/ Authorize(r) \/ Admit(r)
        BY <2>1, <4>1, Tables DEF Send, Health, Depend, Compose, Authorize, Admit, Go, Respond
      <4>2. CASE Lock(r) \/ Probe(r)
        BY <2>1, <4>2, Tables DEF Lock, Probe, Go, Respond, BeginValidation
      <4>3. CASE Validate(r) \/ CallFails(r) \/ Install(r) \/ Finish(r)
        BY <2>1, <4>3, Tables DEF Validate, CallFails, Install, Finish, Go, Respond
      <4>4. QED
        BY <4>1, <4>2, <4>3 DEF StepOf, Advance
    <3>2. QED
      BY <1>2, <3>1
  <2>2. CASE q = r
    <3>1. CASE Send(r) \/ Health(r) \/ Depend(r) \/ Compose(r) \/ Authorize(r) \/ Admit(r)
               \/ CallFails(r) \/ Install(r) \/ Finish(r)
      <4>1. pc'[r] \notin {"build", "check"}
        BY <3>1, Tables, RuntimeAssumption
           DEF Send, Health, Depend, Compose, Authorize, Admit, CallFails, Install, Finish,
               Go, Respond
      <4>2. QED
        BY <1>3, <2>2, <4>1
    <3>2. CASE Lock(r) \/ Probe(r)
      <4>1. pc'[r] \notin {"build", "check"} \/ \E s \in {"build", "check"} : BeginValidation(r, s)
        BY <3>2, Tables DEF Lock, Probe, Go, Respond
      <4>2. QED
        BY <1>3, <1>4, <2>2, <4>1
    <3>3. CASE Validate(r)
      <4>1. Passes(r) \/ pc'[r] \notin {"build", "check"}
        BY <3>3, Tables DEF Validate, Go, Respond
      <4>2. QED
        BY <1>3, <1>5, <2>2, <3>3, <4>1
    <3>4. QED
      BY <3>1, <3>2, <3>3 DEF StepOf, Advance
  <2>3. QED
    BY <2>1, <2>2
<1>7. QED
  BY <1>6 DEF ValidationsAreHonest

\* Re-indexing adds to what was frozen at some time, and moves no request.
LEMMA ReindexKeeps == ASSUME RuntimeInv, Reindex PROVE RuntimeInv'
<1>1. PICK p \in Pairs, v \in Versions :
        /\ collections' = [collections EXCEPT ![p[1]][p[2]] = v]
        /\ wasFrozen' = [r \in Requests |->
             IF v = Frozen /\ pc[r] \in {"build", "check"}
             THEN wasFrozen[r] \cup {p} ELSE wasFrozen[r]]
        /\ troubled' = IF v = Frozen THEN troubled
                       ELSE troubled \cup {r \in Requests : pc[r] \notin {"idle", "done"}}
  BY DEF Reindex
<1>2. /\ UNCHANGED <<strategy, kind, pc, step, read, service, status, cached, delegate,
                     holder, faults>>
      /\ changes < MaxChanges /\ changes' = changes + 1
  BY DEF Reindex
<1>3. /\ TypeOK /\ Routes /\ Served /\ BuildersHoldTheLock /\ DelegatesAreChecked
      /\ ReadyIsTrue /\ ValidationsAreHonest /\ FewServices
  BY DEF RuntimeInv
<1>4. p[1] \in Sides /\ p[2] \in ToSet(Pages) /\ p = <<p[1], p[2]>>
  BY DEF Pairs
<1>5. TypeOK'
  <2>1. collections' \in [Sides -> Cells]
    BY <1>1, <1>3, <1>4, SharedTables DEF Cells
  <2>2. wasFrozen' \in [Requests -> SUBSET Pairs] /\ troubled' \subseteq Requests
    BY <1>1, <1>3, Tables, SharedTables
  <2>3. changes' \in 0..MaxChanges
    BY <1>2, <1>3, SharedTables, OneMore
  <2>4. QED
    BY <1>2, <1>3, <2>1, <2>2, <2>3 DEF TypeOK
<1>6. \A r \in Requests : wasFrozen[r] \subseteq wasFrozen'[r]
  BY <1>1, <1>3, Tables
<1>7. BuildPlan' = BuildPlan /\ ReadyPlan' = ReadyPlan /\ Searched' = Searched
  BY <1>2 DEF BuildPlan, ReadyPlan, Setup, FrozenCollection, Call, Searched
<1>8. \A r \in Requests : pc[r] \in {"build", "check"} => FrozenPairs' \subseteq wasFrozen'[r]
  <2>1. FrozenPairs' \subseteq FrozenPairs \cup (IF v = Frozen THEN {p} ELSE {})
    BY <1>1, <1>3, <1>4, SharedTables DEF FrozenPairs, Pairs, Cells
  <2>2. QED
    BY <1>1, <1>3, <2>1, Tables DEF ValidationsAreHonest
<1>9. ValidationsAreHonest'
  <2>1. \A r \in Requests : Plan(r)' = Plan(r)
    BY <1>2, <1>7 DEF Plan
  <2>2. \A r \in Requests : \A k : Vouched(r, k) => Vouched(r, k)'
    BY <1>2, <1>6, <2>1 DEF Vouched
  <2>3. QED
    BY <1>2, <1>3, <1>8, <2>1, <2>2 DEF ValidationsAreHonest
<1>10. DelegatesAreChecked'
  BY <1>2, <1>3, <1>6, <1>7, Tables DEF DelegatesAreChecked
<1>11. ReadyIsTrue'
  BY <1>1, <1>2, <1>3 DEF ReadyIsTrue
<1>12. Routes' /\ Served' /\ BuildersHoldTheLock'
  BY <1>2, <1>3 DEF Routes, Served, BuildersHoldTheLock
<1>13. FewServices'
  BY <1>2, <1>3 DEF FewServices, Services, Composers
<1>14. QED
  BY <1>5, <1>9, <1>10, <1>11, <1>12, <1>13 DEF RuntimeInv

LEMMA NextRuntime == RuntimeInv /\ [Next]_rtVars => RuntimeInv'
<1> SUFFICES ASSUME RuntimeInv, [Next]_rtVars PROVE RuntimeInv'
  OBVIOUS
<1>1. CASE UNCHANGED rtVars
  <2>1. TypeOK' /\ Routes' /\ Served' /\ BuildersHoldTheLock' /\ ReadyIsTrue'
    BY <1>1 DEF rtVars, RuntimeInv, TypeOK, Routes, Served, BuildersHoldTheLock, ReadyIsTrue
  <2>2. DelegatesAreChecked'
    BY <1>1 DEF rtVars, RuntimeInv, DelegatesAreChecked, Searched
  <2>3. FewServices'
    BY <1>1 DEF rtVars, RuntimeInv, FewServices, Services, Composers
  <2>4. ValidationsAreHonest'
    <3>1. \A r \in Requests : Plan(r)' = Plan(r)
      BY <1>1 DEF rtVars, Plan, BuildPlan, ReadyPlan, Setup, FrozenCollection, Call
    <3>2. FrozenPairs' = FrozenPairs /\ \A r \in Requests : \A k : Vouched(r, k)' = Vouched(r, k)
      BY <1>1, <3>1 DEF rtVars, FrozenPairs, Vouched
    <3>3. QED
      BY <1>1, <3>1, <3>2 DEF rtVars, RuntimeInv, ValidationsAreHonest
  <2>5. QED
    BY <2>1, <2>2, <2>3, <2>4 DEF RuntimeInv
<1>2. CASE Reindex
  BY <1>2, ReindexKeeps
<1>3. ASSUME NEW r \in Requests, StepOf(r) PROVE RuntimeInv'
  <2>1. TypeOK'
    BY <1>3, TypeKept DEF RuntimeInv
  <2>2. Routes' /\ Served' /\ BuildersHoldTheLock'
    BY <1>3, RoutesKept, ServedKept, BuildersHoldTheLockKept DEF RuntimeInv
  <2>3. DelegatesAreChecked' /\ ReadyIsTrue' /\ ValidationsAreHonest'
    BY <1>3, DelegatesAreCheckedKept, ReadyIsTrueKept, HonestKept DEF RuntimeInv
  <2>4. FewServices'
    BY <1>3, <2>1, FewServicesKept DEF RuntimeInv
  <2>5. QED
    BY <2>1, <2>2, <2>3, <2>4 DEF RuntimeInv
<1>4. QED
  BY <1>1, <1>2, <1>3 DEF Next, StepOf

(***************************************************************************)
(* Theorems                                                                *)
(***************************************************************************)
\* The inductive invariant holds in every reachable state of the process.
THEOREM RuntimeInvariant == RuntimeSpec => []RuntimeInv
BY InitRuntime, NextRuntime, PTL DEF RuntimeSpec

\* Every variable keeps its type, and the pool of threads is never exceeded.
THEOREM RuntimeTypeCorrect == RuntimeSpec => []TypeOK
<1>1. RuntimeInv => TypeOK
  BY DEF RuntimeInv
<1>2. QED
  BY <1>1, RuntimeInvariant, PTL

\* Whoever searches, or is told "ready", does so after a validation in which each
\* page of ids was found frozen, at some time of it.
THEOREM ChecksWereTrue == RuntimeSpec => []PassedChecksWereTrue
<1>1. RuntimeInv => PassedChecksWereTrue
  BY DEF RuntimeInv, DelegatesAreChecked, ReadyIsTrue, PassedChecksWereTrue
<1>2. QED
  BY <1>1, RuntimeInvariant, PTL

\* Requests that arrive first together compose at most one service per thread.
THEOREM ServicesAreFew == RuntimeSpec => []ServicesBounded
<1>1. RuntimeInv => ServicesBounded
  <2> SUFFICES ASSUME RuntimeInv PROVE ServicesBounded
    OBVIOUS
  <2>1. Services \subseteq Services \cup Composers /\ Services \cup Composers \subseteq Requests
    BY Tables DEF RuntimeInv, Services, Composers
  <2>2. IsFiniteSet(Requests) /\ PoolSize \in Nat
    BY RuntimeAssumption
  <2>3. IsFiniteSet(Services \cup Composers)
    BY <2>1, <2>2, FS_Subset
  <2>4. /\ Cardinality(Services) <= Cardinality(Services \cup Composers)
        /\ Cardinality(Services) \in Nat /\ Cardinality(Services \cup Composers) \in Nat
    BY <2>1, <2>3, FS_Subset, FS_CardinalityType
  <2>5. Cardinality(Services \cup Composers) <= PoolSize
    BY DEF RuntimeInv, FewServices
  <2>6. QED
    BY <2>2, <2>4, <2>5 DEF ServicesBounded, Services
<1>2. QED
  BY <1>1, RuntimeInvariant, PTL

\* The retriever of a service is built by one request at a time, and once.
BuiltOnceStep ==
  \A s \in Requests :
    /\ Cardinality({r \in Requests : service[r] = s /\ pc[r] = "build"}) <= 1
    /\ delegate[s] # None =>
         /\ delegate'[s] = delegate[s]
         /\ \A r \in Requests : service[r] = s => pc[r] # "build"

LEMMA OneBuilder ==
  ASSUME RuntimeInv, NEW s \in Requests
  PROVE  Cardinality({r \in Requests : service[r] = s /\ pc[r] = "build"}) <= 1
<1> DEFINE builders == {r \in Requests : service[r] = s /\ pc[r] = "build"}
<1>1. builders \subseteq {holder[s]}
  BY DEF RuntimeInv, BuildersHoldTheLock
<1>2. IsFiniteSet({holder[s]}) /\ Cardinality({holder[s]}) = 1
  BY FS_Singleton
<1>3. Cardinality(builders) <= Cardinality({holder[s]})
  BY <1>1, <1>2, FS_Subset
<1>4. QED
  BY <1>2, <1>3

LEMMA DelegateStays ==
  ASSUME RuntimeInv, [Next]_rtVars, NEW s \in Requests, delegate[s] # None
  PROVE  delegate'[s] = delegate[s]
<1>1. CASE UNCHANGED rtVars \/ Reindex
  BY <1>1 DEF rtVars, Reindex
<1>2. ASSUME NEW r \in Requests, Install(r) PROVE delegate'[s] = delegate[s]
  <2>1. pc[r] = "build" /\ delegate' = [delegate EXCEPT ![service[r]] = r]
    BY <1>2 DEF Install
  <2>2. s # service[r]
    BY <2>1 DEF RuntimeInv, BuildersHoldTheLock
  <2>3. QED
    BY <2>1, <2>2, Tables DEF RuntimeInv
<1>3. ASSUME NEW r \in Requests, StepOf(r), ~Install(r) PROVE delegate' = delegate
  BY <1>3 DEF StepOf, Advance, Send, Health, Depend, Compose, Authorize, Admit, Lock, Probe,
              Validate, CallFails, Finish
<1>4. QED
  BY <1>1, <1>2, <1>3 DEF Next, StepOf

\* Waiting requests, failures and second looks never build a retriever twice.
THEOREM BuiltOnce == RuntimeSpec => RetrieverBuiltOnce
<1>1. RuntimeInv /\ [Next]_rtVars => [BuiltOnceStep]_rtVars
  <2> SUFFICES ASSUME RuntimeInv, [Next]_rtVars PROVE BuiltOnceStep
    OBVIOUS
  <2>1. ASSUME NEW s \in Requests, delegate[s] # None, NEW r \in Requests, service[r] = s
        PROVE  pc[r] # "build"
    BY <2>1 DEF RuntimeInv, BuildersHoldTheLock
  <2>2. QED
    BY <2>1, OneBuilder, DelegateStays DEF BuiltOnceStep
<1>2. QED
  BY <1>1, RuntimeInvariant, PTL DEF RuntimeSpec, RetrieverBuiltOnce, BuiltOnceStep

(***************************************************************************)
(* Who is refused: as long as nothing has happened to a request, all it    *)
(* depends on is frozen, and all it has read of it was.                    *)
(***************************************************************************)
Untroubled(r) ==
  /\ pc[r] \notin {"idle", "done"} => FrozenPairs = Pairs
  /\ pc[r] \in {"build", "check"} => read[r] \subseteq {Frozen}
  /\ status[r] # "503"

UntroubledMeetFrozen == \A r \in Requests \ troubled : Untroubled(r)

LEMMA FrozenCounts ==
  ASSUME NEW cell, \A m \in ToSet(Pages) : cell[m] = Frozen
  PROVE  TotalPoints(cell) = Expected
<1> DEFINE M == ToSet(Pages)
           P == 1..Points[Frozen]
           U == UNION {{m} \X (1..Points[cell[m]]) : m \in M}
<1>1. Points[Frozen] \in Nat
  BY RuntimeAssumption
<1>2. IsFiniteSet(M)
  <2>1. IsFiniteSet(1..Len(Pages))
    BY PagesAssumption, FS_Interval
  <2>2. Pages \in Surjection(1..Len(Pages), M)
    BY PagesAssumption, RuntimeAssumption DEF Surjection
  <2>3. QED
    BY <2>1, <2>2, FS_Surjection
<1>3. IsFiniteSet(P) /\ Cardinality(P) = Points[Frozen]
  BY <1>1, FS_Interval
<1>4. U = M \X P
  <2>1. ASSUME NEW x PROVE x \in U <=> \E m \in M : x \in {m} \X (1..Points[cell[m]])
    OBVIOUS
  <2>2. \A m \in M : {m} \X (1..Points[cell[m]]) = {m} \X P
    OBVIOUS
  <2> HIDE DEF U, P
  <2>3. \A x : x \in U <=> x \in M \X P
    BY <2>1, <2>2
  <2>4. QED
    BY <2>3
<1>5. Cardinality(M \X P) = Cardinality(M) * Cardinality(P)
  BY <1>2, <1>3, FS_Product
<1>6. TotalPoints(cell) = Cardinality(U)
  BY DEF TotalPoints
<1> HIDE DEF U, P, M
<1>7. QED
  BY <1>3, <1>4, <1>5, <1>6 DEF Expected, M

\* Where all is frozen, no call of a validation refuses.
LEMMA FrozenPasses ==
  ASSUME TypeOK, NEW r \in Requests, pc[r] \in {"build", "check"}, step[r] \in DOMAIN Plan(r),
         FrozenPairs = Pairs, read[r] \subseteq {Frozen}
  PROVE  Passes(r) /\ ReadAfter(r) \subseteq {Frozen}
<1> DEFINE c == NextCall(r)
<1>1. c \in Calls /\ (c.call = "ids" => c.page \in DOMAIN Pages)
  BY PlanIsSound DEF NextCall, WellPlanned
<1>2. c.side \in Sides
  BY <1>1 DEF Calls
<1>3. \A m \in ToSet(Pages) : collections[c.side][m] = Frozen
  <2>1. \A m \in ToSet(Pages) : <<c.side, m>> \in FrozenPairs
    BY <1>2 DEF Pairs
  <2>2. QED
    BY <2>1 DEF FrozenPairs
<1>4. TotalPoints(collections[c.side]) = Expected
  BY <1>3, FrozenCounts
<1>5. c.call = "ids" => collections[c.side][Pages[c.page]] = Frozen
  BY <1>1, <1>3, PagesAssumption
<1> HIDE DEF c
<1>6. /\ ReadAfter(r) \subseteq {Frozen}
      /\ c.call = "ids" => ReadAfter(r) = {Frozen}
  BY <1>5 DEF ReadAfter, c
<1>7. QED
  BY <1>4, <1>6 DEF Passes, c

LEMMA UntroubledStep ==
  ASSUME TypeOK, UntroubledMeetFrozen, NEW r \in Requests, StepOf(r)
  PROVE  UntroubledMeetFrozen'
<1>1. /\ pc \in [Requests -> Stages] /\ read \in [Requests -> SUBSET Versions]
      /\ status \in [Requests -> {"none", "200", "500", "503", "denied"}]
  BY Tables
<1>2. FrozenPairs' = FrozenPairs /\ troubled \subseteq troubled'
  BY DEF StepOf, Advance, Send, Health, Depend, Compose, Authorize, Admit, Lock, Probe, Validate,
         Install, Finish, CallFails, FrozenPairs
<1>3. \A q \in Requests : q # r => pc'[q] = pc[q] /\ read'[q] = read[q] /\ status'[q] = status[q]
  BY <1>1 DEF StepOf, Advance, Send, Health, Depend, Compose, Authorize, Admit, Lock, Probe, Validate,
              Install, Finish, CallFails, Go, Respond, BeginValidation
<1>4. ASSUME NEW q \in Requests \ troubled', q # r PROVE Untroubled(q)'
  BY <1>2, <1>3, <1>4 DEF Untroubled, UntroubledMeetFrozen, Pairs
<1>5. ASSUME r \notin troubled' PROVE Untroubled(r)'
  <2>0. Untroubled(r)
    BY <1>2, <1>5 DEF UntroubledMeetFrozen
  <2>1. CASE Send(r)
    <3>1. FrozenPairs = Pairs
      BY <1>5, <2>1 DEF Send
    <3>2. pc'[r] \notin {"build", "check"} /\ status' = status
      <4>1. /\ kind[r] \in {"query", "ready", "health"}
            /\ pc' = [pc EXCEPT ![r] = CASE kind[r] = "query" -> "depend"
                                         [] kind[r] = "ready" -> "probe"
                                         [] kind[r] = "health" -> "health"]
        BY <2>1, Tables, RuntimeAssumption DEF Send, Go
      <4>2. QED
        BY <1>1, <2>1, <4>1 DEF Send
    <3>3. QED
      BY <1>2, <2>0, <3>1, <3>2 DEF Untroubled, Pairs
  <2>2. pc[r] \notin {"idle", "done"} => FrozenPairs = Pairs
    BY <2>0 DEF Untroubled
  <2>3. CASE Health(r) \/ Depend(r) \/ Compose(r) \/ Authorize(r) \/ Admit(r) \/ Lock(r)
             \/ Probe(r) \/ Install(r) \/ Finish(r)
    <3>1. FrozenPairs = Pairs
      BY <2>2, <2>3 DEF Health, Depend, Compose, Authorize, Admit, Lock, Probe, Install, Finish
    <3>2. status'[r] # "503"
      BY <1>1, <2>0, <2>3
         DEF Untroubled, Health, Depend, Compose, Authorize, Admit, Lock, Probe, Install, Finish,
             Go, Respond, BeginValidation
    <3>3. pc'[r] \in {"build", "check"} => read'[r] = {}
      BY <1>1, <2>3
         DEF Health, Depend, Compose, Authorize, Admit, Lock, Probe, Install, Finish,
             Go, Respond, BeginValidation
    <3>4. QED
      BY <1>2, <3>1, <3>2, <3>3 DEF Untroubled, Pairs
  <2>4. CASE Validate(r)
    <3>1. Passes(r) /\ ReadAfter(r) \subseteq {Frozen} /\ FrozenPairs = Pairs
      BY <2>0, <2>2, <2>4, FrozenPasses DEF Validate, Untroubled
    <3>2. /\ read' = [read EXCEPT ![r] = ReadAfter(r)]
          /\ pc' = pc /\ status' = status
      BY <2>4, <3>1 DEF Validate
    <3>3. read'[r] \subseteq {Frozen}
      BY <1>1, <3>1, <3>2
    <3>4. QED
      BY <1>2, <2>0, <3>1, <3>2, <3>3 DEF Untroubled, Pairs
  <2>5. CASE CallFails(r)
    BY <1>5, <2>5 DEF CallFails
  <2>6. QED
    BY <2>1, <2>3, <2>4, <2>5 DEF StepOf, Advance
<1>6. QED
  BY <1>4, <1>5 DEF UntroubledMeetFrozen

LEMMA UntroubledReindex ==
  ASSUME TypeOK, UntroubledMeetFrozen, Reindex
  PROVE  UntroubledMeetFrozen'
<1>1. PICK p \in Pairs, v \in Versions :
        /\ collections' = [collections EXCEPT ![p[1]][p[2]] = v]
        /\ troubled' = IF v = Frozen THEN troubled
                       ELSE troubled \cup {r \in Requests : pc[r] \notin {"idle", "done"}}
  BY DEF Reindex
<1>2. pc' = pc /\ read' = read /\ status' = status
  BY DEF Reindex
<1>3. v = Frozen => FrozenPairs \subseteq FrozenPairs'
  <2>1. p[1] \in Sides /\ p[2] \in ToSet(Pages)
    BY DEF Pairs
  <2>2. QED
    BY <1>1, <2>1, SharedTables DEF FrozenPairs, Pairs, Cells
<1>4. FrozenPairs' \subseteq Pairs /\ Pairs' = Pairs
  BY DEF FrozenPairs, Pairs
<1>5. ASSUME NEW r \in Requests \ troubled' PROVE Untroubled(r)'
  <2>1. Untroubled(r)
    BY <1>1, <1>5 DEF UntroubledMeetFrozen
  <2>2. v = Frozen \/ pc[r] \in {"idle", "done"}
    BY <1>1, <1>5
  <2>3. pc[r] \notin {"idle", "done"} => FrozenPairs' = Pairs
    BY <1>3, <1>4, <2>1, <2>2 DEF Untroubled
  <2>4. QED
    BY <1>2, <1>4, <2>1, <2>3 DEF Untroubled
<1>6. QED
  BY <1>5 DEF UntroubledMeetFrozen

\* A request is refused for what happened to it, also when it waited for the lock
\* while another request failed to build the retriever.
THEOREM FailuresAreOwn == RuntimeSpec => []FailureIsOwn
<1>1. Init => UntroubledMeetFrozen
  BY DEF Init, UntroubledMeetFrozen, Untroubled
<1>2. TypeOK /\ UntroubledMeetFrozen /\ [Next]_rtVars => UntroubledMeetFrozen'
  <2> SUFFICES ASSUME TypeOK, UntroubledMeetFrozen, [Next]_rtVars PROVE UntroubledMeetFrozen'
    OBVIOUS
  <2>1. CASE UNCHANGED rtVars
    BY <2>1 DEF rtVars, UntroubledMeetFrozen, Untroubled, FrozenPairs, Pairs
  <2>2. QED
    BY <2>1, UntroubledReindex, UntroubledStep DEF Next, StepOf
<1>3. TypeOK /\ UntroubledMeetFrozen => FailureIsOwn
  BY DEF UntroubledMeetFrozen, Untroubled, FailureIsOwn
<1>4. QED
  BY <1>1, <1>2, <1>3, RuntimeTypeCorrect, PTL DEF RuntimeSpec
=============================================================================
