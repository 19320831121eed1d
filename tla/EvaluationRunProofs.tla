-------------------------- MODULE EvaluationRunProofs --------------------------
(***************************************************************************)
(* Proofs about EvaluationRun, for every dataset, every set of selections  *)
(* and settings, any number of evaluators, commands and faults.            *)
(***************************************************************************)
EXTENDS EvaluationRun, FiniteSetTheorems, SequenceTheorems, WellFoundedInduction, TLAPS

(***************************************************************************)
(* The inductive invariant: what an evaluator holds in memory would make a *)
(* checkpoint of one run.                                                  *)
(***************************************************************************)
CheckpointIsOneRun == checkpoint # NoFile => OneRun(checkpoint)

ReportIsOneRun ==
  report # NoFile => OneRun(report) /\ Len(report.records) = Len(report.identity.selected)

MemoryIsOneRun == \A e \in Evaluators : OneRun(Saved(e))

StartsEmpty == \A e \in Evaluators : pc[e] \in {"exited", "load"} => records[e] = <<>>

EvalInv ==
  TypeOK /\ CheckpointIsOneRun /\ ReportIsOneRun /\ MemoryIsOneRun /\ StartsEmpty

(***************************************************************************)
(* Files of one run                                                        *)
(***************************************************************************)
Header(c, recs) == [identity |-> Identity(c), records |-> recs]

LEMMA FiniteItems ==
  ASSUME NEW recs \in Seq(Records)
  PROVE  IsFiniteSet(ItemsOf(recs)) /\ Cardinality(ItemsOf(recs)) \in Nat
<1> DEFINE f == [n \in 1..Len(recs) |-> recs[n].item]
<1>1. f \in Surjection(1..Len(recs), ItemsOf(recs))
  BY DEF Surjection, ItemsOf
<1>2. IsFiniteSet(1..Len(recs))
  BY FS_Interval
<1>3. QED
  BY <1>1, <1>2, FS_Surjection, FS_CardinalityType

LEMMA Sequences ==
  ASSUME NEW T
  PROVE  <<>> \in Seq(T) /\ \A s \in Seq(T) : Len(s) \in Nat /\ 0 <= Len(s)
OBVIOUS

LEMMA EmptyRun == ASSUME NEW c \in Configs PROVE OneRun(Header(c, <<>>))
BY FS_EmptySet DEF OneRun, Header, ItemsOf

LEMMA AppendRun ==
  ASSUME NEW c \in Configs, NEW recs \in Seq(Records), OneRun(Header(c, recs)),
         NEW x \in Records, x.by = c, x.item \notin ItemsOf(recs),
         NEW n \in DOMAIN c.selected, x.item = c.selected[n]
  PROVE  OneRun(Header(c, Append(recs, x)))
<1> DEFINE longer == Append(recs, x)
<1>1. longer \in Seq(Records) /\ Len(longer) = Len(recs) + 1
      /\ DOMAIN longer = DOMAIN recs \cup {Len(recs) + 1}
      /\ longer[Len(recs) + 1] = x /\ \A k \in DOMAIN recs : longer[k] = recs[k]
  OBVIOUS
<1>2. ItemsOf(longer) = ItemsOf(recs) \cup {x.item}
  BY <1>1 DEF ItemsOf
<1>3. Cardinality(ItemsOf(longer)) = Cardinality(ItemsOf(recs)) + 1
  BY <1>2, FiniteItems, FS_AddElement
<1>4. \A k \in DOMAIN recs : Identity(recs[k].by) = Identity(c)
  BY DEF OneRun, Header
<1>5. \A k \in DOMAIN longer : Identity(longer[k].by) = Identity(c)
  BY <1>1, <1>4
<1>6. Identity(c).selected = c.selected
  BY DEF Identity
<1>7. /\ ItemsOf(recs) \subseteq {c.selected[k] : k \in DOMAIN c.selected}
      /\ Cardinality(ItemsOf(recs)) = Len(recs)
  BY <1>6 DEF OneRun, Header
<1>8. /\ ItemsOf(longer) \subseteq {c.selected[k] : k \in DOMAIN c.selected}
      /\ Cardinality(ItemsOf(longer)) = Len(longer)
  BY <1>1, <1>2, <1>3, <1>7
<1> HIDE DEF longer
<1>9. OneRun(Header(c, longer))
  BY <1>5, <1>6, <1>8 DEF OneRun, Header
<1>10. QED
  BY <1>9 DEF longer

LEMMA RangeBound ==
  ASSUME NEW T, NEW s \in Seq(T)
  PROVE  /\ IsFiniteSet({s[n] : n \in DOMAIN s})
         /\ Cardinality({s[n] : n \in DOMAIN s}) \in Nat
         /\ Cardinality({s[n] : n \in DOMAIN s}) <= Len(s)
<1> DEFINE R == {s[n] : n \in DOMAIN s}
<1> DEFINE f == [n \in 1..Len(s) |-> s[n]]
<1>1. f \in Surjection(1..Len(s), R)
  BY DEF Surjection
<1>2. IsFiniteSet(1..Len(s)) /\ Cardinality(1..Len(s)) = Len(s)
  <2>1. 1 \in Int /\ Len(s) \in Int /\ Len(s) >= 0
    OBVIOUS
  <2>2. IsFiniteSet(1..Len(s)) /\ Cardinality(1..Len(s)) = IF 1 > Len(s) THEN 0 ELSE Len(s) - 1 + 1
    BY <2>1, FS_Interval
  <2>3. QED
    BY <2>1, <2>2
<1> HIDE DEF R, f
<1>3. IsFiniteSet(R) /\ Cardinality(R) <= Len(s)
  BY <1>1, <1>2, FS_Surjection
<1>4. Cardinality(R) \in Nat
  BY <1>3, FS_CardinalityType
<1>5. QED
  BY <1>3, <1>4 DEF R

\* Records of distinct selected items are no more than the selection has.
LEMMA ShortRun ==
  ASSUME NEW c \in Configs, NEW recs \in Seq(Records), OneRun(Header(c, recs))
  PROVE  Len(recs) <= Len(c.selected)
<1> DEFINE chosen == {c.selected[n] : n \in DOMAIN c.selected}
<1>1. c.selected \in Seq(Items)
  BY EvaluationAssumption DEF Configs
<1>2. ItemsOf(recs) \in SUBSET chosen /\ Cardinality(ItemsOf(recs)) = Len(recs)
  BY DEF OneRun, Header, Identity
<1>3. IsFiniteSet(chosen) /\ Cardinality(chosen) \in Nat /\ Cardinality(chosen) <= Len(c.selected)
  BY <1>1, RangeBound
<1> HIDE DEF chosen
<1>4. Cardinality(ItemsOf(recs)) <= Cardinality(chosen)
  BY <1>2, <1>3, FS_Subset
<1>5. Len(recs) \in Nat /\ Len(c.selected) \in Nat
  BY <1>1
<1>6. QED
  BY <1>2, <1>3, <1>4, <1>5

(***************************************************************************)
(* The initial states and one lemma for each step                          *)
(***************************************************************************)
LEMMA InitEval == Init => EvalInv
<1> SUFFICES ASSUME Init PROVE EvalInv
  OBVIOUS
<1>1. Configs # {}
  <2>1. PICK f \in Frozen, k \in TopKs : TRUE
    BY EvaluationAssumption
  <2>2. [selected |-> Dataset, frozen |-> f, topK |-> k] \in Configs
    BY EvaluationAssumption DEF Configs
  <2>3. QED
    BY <2>2
<1>2. config \in [Evaluators -> Configs]
  BY <1>1 DEF Init
<1>3. \A e \in Evaluators : OneRun(Header(config[e], <<>>)) /\ 0 <= Len(config[e].selected)
  BY <1>2, EmptyRun, EvaluationAssumption DEF Configs
<1>4. TypeOK
  BY <1>2, <1>3, EvaluationAssumption DEF Init, TypeOK, Statuses
<1>5. MemoryIsOneRun
  BY <1>3 DEF MemoryIsOneRun, Saved, Header, Init
<1>6. CheckpointIsOneRun /\ ReportIsOneRun /\ StartsEmpty
  BY DEF Init, CheckpointIsOneRun, ReportIsOneRun, StartsEmpty
<1>7. QED
  BY <1>4, <1>5, <1>6 DEF EvalInv

LEMMA SelectedIsSequence == ASSUME NEW c \in Configs PROVE c.selected \in Seq(Items)
BY EvaluationAssumption DEF Configs

LEMMA SavedIsFile ==
  ASSUME TypeOK, NEW e \in Evaluators
  PROVE  Saved(e) \in Files /\ Saved(e) = Header(config[e], records[e])
BY DEF TypeOK, Saved, Files, Header

LEMMA Bounds == MaxRuns \in Nat /\ MaxFaults \in Nat /\ IsFiniteSet(Evaluators)
BY EvaluationAssumption

LEMMA Memories ==
  ASSUME TypeOK
  PROVE  /\ pc \in [Evaluators -> Steps \cup {"exited"}]
         /\ config \in [Evaluators -> Configs]
         /\ records \in [Evaluators -> Seq(Records)]
         /\ \A e \in Evaluators : Len(records[e]) <= Len(config[e].selected)
         /\ exit \in [Evaluators -> Statuses]
BY DEF TypeOK

LEMMA Counters ==
  ASSUME TypeOK
  PROVE  executed \in Nat /\ runs \in 0..MaxRuns /\ faults \in 0..MaxFaults
BY DEF TypeOK

LEMMA OneMore ==
  /\ \A n \in Nat : n + 1 \in Nat
  /\ \A n \in 0..MaxRuns : n < MaxRuns => n + 1 \in 0..MaxRuns
  /\ \A n \in 0..MaxFaults : n < MaxFaults => n + 1 \in 0..MaxFaults
BY Bounds

LEMMA StartKeeps == ASSUME EvalInv, NEW e \in Evaluators, Start(e) PROVE EvalInv'
<1>1. PICK c \in Configs : config' = [config EXCEPT ![e] = c]
  BY DEF Start
<1>2. /\ pc[e] = "exited" /\ runs < MaxRuns /\ runs' = runs + 1
      /\ pc' = [pc EXCEPT ![e] = "load"] /\ exit' = [exit EXCEPT ![e] = "none"]
      /\ UNCHANGED <<checkpoint, report, records, executed, faults>>
  BY DEF Start
<1>3. records[e] = <<>> /\ OneRun(Header(c, <<>>)) /\ 0 <= Len(c.selected)
  BY <1>2, EmptyRun, SelectedIsSequence DEF EvalInv, StartsEmpty
<1>4. TypeOK'
  <2>1. \A f \in Evaluators : Len(records'[f]) <= Len(config'[f].selected)
    <3>1. ASSUME NEW f \in Evaluators PROVE Len(records[f]) <= Len(config'[f].selected)
      <4>1. CASE f = e
        <5>1. config'[f] = c /\ records[f] = <<>>
          BY <1>1, <1>3, <4>1, Memories DEF EvalInv
        <5>2. QED
          BY <5>1, <1>3
      <4>2. CASE f # e
        BY <1>1, <4>2, Memories DEF EvalInv
      <4>3. QED
        BY <4>1, <4>2
    <3>2. QED
      BY <3>1, <1>2
  <2>2. runs' \in 0..MaxRuns
    BY <1>2, Counters, OneMore DEF EvalInv
  <2>3. /\ pc' \in [Evaluators -> Steps \cup {"exited"}]
        /\ config' \in [Evaluators -> Configs]
        /\ exit' \in [Evaluators -> Statuses]
    BY <1>1, <1>2 DEF EvalInv, TypeOK, Steps, Statuses
  <2>4. QED
    BY <1>2, <2>1, <2>2, <2>3 DEF EvalInv, TypeOK
<1>5. MemoryIsOneRun'
  BY <1>1, <1>2, <1>3 DEF EvalInv, TypeOK, MemoryIsOneRun, Saved, Header
<1>6. CheckpointIsOneRun' /\ ReportIsOneRun' /\ StartsEmpty'
  BY <1>2 DEF EvalInv, TypeOK, CheckpointIsOneRun, ReportIsOneRun, StartsEmpty
<1>7. QED
  BY <1>4, <1>5, <1>6 DEF EvalInv

\* A step of one evaluator changes its memory and perhaps a file.
LEMMA MemoryKeeps ==
  ASSUME EvalInv, NEW e \in Evaluators, NEW step \in Steps \ {"load"}, NEW recs \in Seq(Records),
         OneRun(Header(config[e], recs)),
         pc' = [pc EXCEPT ![e] = step], records' = [records EXCEPT ![e] = recs],
         UNCHANGED <<config, report, exit, runs>>,
         executed' \in Nat, faults' \in 0..MaxFaults,
         checkpoint' \in {checkpoint, Saved(e)}
  PROVE  EvalInv'
<1>1. Len(recs) <= Len(config[e].selected)
  BY ShortRun DEF EvalInv, TypeOK
<1>2. checkpoint' = NoFile \/ checkpoint' \in Files
  BY SavedIsFile DEF EvalInv, TypeOK
<1>3. TypeOK'
  BY <1>1, <1>2 DEF EvalInv, TypeOK
<1>4. MemoryIsOneRun'
  BY DEF EvalInv, TypeOK, MemoryIsOneRun, Saved, Header
<1>5. CheckpointIsOneRun'
  BY DEF EvalInv, MemoryIsOneRun, CheckpointIsOneRun
<1>6. ReportIsOneRun' /\ StartsEmpty'
  BY DEF EvalInv, TypeOK, ReportIsOneRun, StartsEmpty, Steps
<1>7. QED
  BY <1>3, <1>4, <1>5, <1>6 DEF EvalInv

\* An evaluator that leaves has forgotten everything.
LEMMA LeaveKeeps ==
  ASSUME EvalInv, NEW e \in Evaluators, NEW status \in Statuses, Leave(e, status),
         UNCHANGED <<config, executed, runs>>, faults' \in 0..MaxFaults,
         checkpoint' \in {checkpoint, Saved(e)},
         \/ report' = report
         \/ \E verdict \in {"not evaluated", "pass", "fail"} :
              report' = [identity |-> Identity(config[e]), records |-> records[e],
                         verdict |-> verdict]
            /\ Len(records[e]) = Len(config[e].selected)
  PROVE  EvalInv'
<1>1. /\ pc' = [pc EXCEPT ![e] = "exited"]
      /\ exit' = [exit EXCEPT ![e] = status]
      /\ records' = [records EXCEPT ![e] = <<>>]
  BY DEF Leave
<1>2. checkpoint' = NoFile \/ checkpoint' \in Files
  BY SavedIsFile DEF EvalInv, TypeOK
<1>3. ASSUME NEW f \in Evaluators
      PROVE  0 <= Len(config[f].selected) /\ OneRun(Header(config[f], <<>>))
  <2>1. config[f] \in Configs
    BY DEF EvalInv, TypeOK
  <2>2. config[f].selected \in Seq(Items)
    BY <2>1, SelectedIsSequence
  <2>3. 0 <= Len(config[f].selected)
    BY <2>2, Sequences
  <2>4. QED
    BY <2>1, <2>3, EmptyRun
<1>4. OneRun(Saved(e)) /\ Saved(e) \in Files
  BY SavedIsFile DEF EvalInv, MemoryIsOneRun
<1>5. ReportIsOneRun'
  <2>1. CASE report' = report
    BY <2>1 DEF EvalInv, ReportIsOneRun
  <2>2. CASE report' # report
    <3>1. PICK verdict \in {"not evaluated", "pass", "fail"} :
            /\ report' = [identity |-> Identity(config[e]), records |-> records[e],
                          verdict |-> verdict]
            /\ Len(records[e]) = Len(config[e].selected)
      BY <2>2
    <3>2. OneRun(report')
      BY <3>1, <1>4 DEF OneRun, Saved
    <3>3. Len(report'.records) = Len(report'.identity.selected)
      BY <3>1 DEF Identity
    <3>4. QED
      BY <3>2, <3>3 DEF ReportIsOneRun
  <2>3. QED
    BY <2>1, <2>2
<1>6. report' = NoFile \/
        /\ [identity |-> report'.identity, records |-> report'.records] \in Files
        /\ report'.verdict \in {"not evaluated", "pass", "fail"}
  <2>1. CASE report' = report
    BY <2>1 DEF EvalInv, TypeOK
  <2>2. CASE report' # report
    <3>1. PICK verdict \in {"not evaluated", "pass", "fail"} :
            report' = [identity |-> Identity(config[e]), records |-> records[e],
                       verdict |-> verdict]
      BY <2>2
    <3>2. QED
      BY <3>1, <1>4 DEF Saved
  <2>3. QED
    BY <2>1, <2>2
<1>7. TypeOK'
  <2>1. \A f \in Evaluators : Len(records'[f]) <= Len(config'[f].selected)
    BY <1>1, <1>3 DEF EvalInv, TypeOK
  <2>2. /\ pc' \in [Evaluators -> Steps \cup {"exited"}]
        /\ records' \in [Evaluators -> Seq(Records)]
        /\ exit' \in [Evaluators -> Statuses]
    <3>1. <<>> \in Seq(Records)
      BY Sequences
    <3>2. QED
      BY <1>1, <3>1, Memories DEF EvalInv
  <2>3. QED
    BY <1>2, <1>6, <2>1, <2>2 DEF EvalInv, TypeOK
<1>8. MemoryIsOneRun'
  BY <1>1, <1>3 DEF EvalInv, TypeOK, MemoryIsOneRun, Saved, Header
<1>9. CheckpointIsOneRun' /\ StartsEmpty'
  BY <1>1, <1>4 DEF EvalInv, TypeOK, CheckpointIsOneRun, StartsEmpty
<1>10. QED
  BY <1>5, <1>7, <1>8, <1>9 DEF EvalInv

LEMMA LoadKeeps == ASSUME EvalInv, NEW e \in Evaluators, Load(e) PROVE EvalInv'
<1>1. /\ pc[e] = "load" /\ records[e] = <<>>
      /\ UNCHANGED <<checkpoint, report, config, executed, runs, faults>>
  BY DEF Load, EvalInv, StartsEmpty
<1>2. CASE Leave(e, "1")
  BY <1>1, <1>2, LeaveKeeps DEF EvalInv, TypeOK, Statuses
<1>3. CASE /\ checkpoint = NoFile /\ pc' = [pc EXCEPT ![e] = "score"]
           /\ UNCHANGED <<records, exit>>
  <2>1. OneRun(Header(config[e], records[e])) /\ records[e] \in Seq(Records)
    BY SavedIsFile DEF EvalInv, TypeOK, MemoryIsOneRun
  <2>2. records' = [records EXCEPT ![e] = records[e]]
    BY <1>3 DEF EvalInv, TypeOK
  <2>3. QED
    BY <1>1, <1>3, <2>1, <2>2, MemoryKeeps DEF EvalInv, TypeOK, Steps
<1>4. CASE /\ checkpoint # NoFile /\ checkpoint.identity = Identity(config[e])
           /\ records' = [records EXCEPT ![e] = checkpoint.records]
           /\ pc' = [pc EXCEPT ![e] = "score"] /\ UNCHANGED exit
  <2>1. checkpoint.records \in Seq(Records) /\ OneRun(checkpoint)
    BY <1>4 DEF EvalInv, TypeOK, CheckpointIsOneRun, Files
  <2>2. OneRun(Header(config[e], checkpoint.records))
    BY <1>4, <2>1 DEF OneRun, Header
  <2>3. QED
    BY <1>1, <1>4, <2>1, <2>2, MemoryKeeps DEF EvalInv, TypeOK, Steps
<1>5. QED
  BY <1>2, <1>3, <1>4 DEF Load

\* The next item of the selection has no record yet.
LEMMA NextIsMissing ==
  ASSUME TypeOK, NEW e \in Evaluators, Missing(e) # {}
  PROVE  \E n \in DOMAIN config[e].selected :
           NextItem(e) = config[e].selected[n] /\ NextItem(e) \notin ItemsOf(records[e])
<1> DEFINE R == {pair \in Nat \X Nat : pair[1] < pair[2]}
<1>1. Missing(e) \in SUBSET Nat
  <2>1. config[e].selected \in Seq(Items)
    BY SelectedIsSequence DEF TypeOK
  <2>2. QED
    BY <2>1 DEF Missing
<1>2. \E n \in Missing(e) : \A k \in Missing(e) : n <= k
  <2>1. PICK n \in Missing(e) : \A k \in Missing(e) : ~ (<<k, n>> \in R)
    BY <1>1, NatLessThanWellFounded, WFMin, Zenon DEF OpToRel
  <2>2. ASSUME NEW k \in Missing(e) PROVE n <= k
    <3>1. n \in Nat /\ k \in Nat /\ ~ (<<k, n>> \in R)
      BY <1>1, <2>1
    <3>2. ~ (k < n)
      BY <3>1
    <3>3. QED
      BY <3>1, <3>2
  <2>3. QED
    BY <2>2
<1>3. QED
  BY <1>2 DEF NextItem, Missing

LEMMA ExecuteKeeps == ASSUME EvalInv, NEW e \in Evaluators, Execute(e) PROVE EvalInv'
<1>1. PICK g \in BOOLEAN :
        records' = [records EXCEPT ![e] =
                      Append(@, [item |-> NextItem(e), by |-> config[e], good |-> g])]
  BY DEF Execute
<1> DEFINE x == [item |-> NextItem(e), by |-> config[e], good |-> g]
<1>2. PICK n \in DOMAIN config[e].selected :
        NextItem(e) = config[e].selected[n] /\ NextItem(e) \notin ItemsOf(records[e])
  BY NextIsMissing DEF Execute, EvalInv
<1>3. config[e] \in Configs /\ config[e].selected \in Seq(Items) /\ records[e] \in Seq(Records)
  BY SelectedIsSequence DEF EvalInv, TypeOK
<1>4. x \in Records /\ x.by = config[e] /\ x.item = NextItem(e)
  BY <1>2, <1>3 DEF Records
<1>5. OneRun(Header(config[e], records[e]))
  BY SavedIsFile DEF EvalInv, MemoryIsOneRun
<1>6. records' = [records EXCEPT ![e] = Append(records[e], x)]
  BY <1>1 DEF EvalInv, TypeOK
<1> HIDE DEF x
<1>7. OneRun(Header(config[e], Append(records[e], x))) /\ Append(records[e], x) \in Seq(Records)
  BY <1>2, <1>3, <1>4, <1>5, AppendRun
<1>8. QED
  <2>1. /\ pc' = [pc EXCEPT ![e] = "save"] /\ executed' \in Nat /\ faults' \in 0..MaxFaults
        /\ checkpoint' = checkpoint /\ UNCHANGED <<config, report, exit, runs>>
    BY Counters, OneMore DEF Execute, EvalInv
  <2>2. QED
    BY <1>6, <1>7, <2>1, MemoryKeeps DEF Steps

LEMMA StayKeeps ==
  ASSUME EvalInv, NEW e \in Evaluators, NEW step \in {"abort", "score"},
         pc' = [pc EXCEPT ![e] = step],
         UNCHANGED <<report, config, records, exit, runs>>,
         checkpoint' \in {checkpoint, Saved(e)},
         executed' \in Nat, faults' \in 0..MaxFaults
  PROVE  EvalInv'
<1>1. OneRun(Header(config[e], records[e])) /\ records[e] \in Seq(Records)
  BY SavedIsFile DEF EvalInv, TypeOK, MemoryIsOneRun
<1>2. records' = [records EXCEPT ![e] = records[e]]
  BY DEF EvalInv, TypeOK
<1>3. QED
  BY <1>1, <1>2, MemoryKeeps DEF Steps

LEMMA ReportKeeps == ASSUME EvalInv, NEW e \in Evaluators, Report(e) PROVE EvalInv'
<1>1. UNCHANGED <<checkpoint, config, executed, runs, faults>>
  BY DEF Report
<1>2. \E status \in Statuses :
        /\ Leave(e, status)
        /\ \/ report' = report
           \/ \E verdict \in {"not evaluated", "pass", "fail"} :
                report' = [identity |-> Identity(config[e]), records |-> records[e],
                           verdict |-> verdict]
              /\ Len(records[e]) = Len(config[e].selected)
  BY DEF Report, Statuses
<1>3. QED
  BY <1>1, <1>2, LeaveKeeps DEF EvalInv, TypeOK

LEMMA StepEval == EvalInv /\ [Next]_vars => EvalInv'
<1> SUFFICES ASSUME EvalInv, [Next]_vars PROVE EvalInv'
  OBVIOUS
<1>1. CASE UNCHANGED vars
  BY <1>1 DEF vars, EvalInv, TypeOK, CheckpointIsOneRun, ReportIsOneRun, MemoryIsOneRun,
              StartsEmpty, Saved
<1>2. ASSUME NEW e \in Evaluators, Start(e) \/ Advance(e) \/ ExecuteFails(e) \/ Kill(e)
      PROVE  EvalInv'
  <2>1. CASE Start(e)
    BY <2>1, StartKeeps
  <2>2. CASE Load(e)
    BY <2>2, LoadKeeps
  <2>3. CASE Execute(e)
    BY <2>3, ExecuteKeeps
  <2>4. CASE ExecuteFails(e)
    <3>1. executed' \in Nat /\ faults' \in 0..MaxFaults
      BY <2>4, Counters, OneMore DEF ExecuteFails, EvalInv
    <3>2. QED
      BY <2>4, <3>1, StayKeeps DEF ExecuteFails
  <2>5. CASE Save(e)
    BY <2>5, StayKeeps DEF Save, EvalInv, TypeOK
  <2>6. CASE Abort(e)
    BY <2>6, LeaveKeeps DEF Abort, EvalInv, TypeOK, Statuses
  <2>7. CASE Report(e)
    BY <2>7, ReportKeeps
  <2>8. CASE Kill(e)
    <3>1. faults' \in 0..MaxFaults
      BY <2>8, Counters, OneMore DEF Kill, EvalInv
    <3>2. QED
      BY <2>8, <3>1, LeaveKeeps DEF Kill, Statuses
  <2>9. QED
    BY <1>2, <2>1, <2>2, <2>3, <2>4, <2>5, <2>6, <2>7, <2>8 DEF Advance
<1>3. QED
  BY <1>1, <1>2 DEF Next

\* The inductive invariant holds in every reachable state.
THEOREM EvaluationInvariant == Spec => []EvalInv
BY InitEval, StepEval, PTL DEF Spec

\* Every variable of the evaluation keeps its type.
THEOREM EvaluationTypeCorrect == Spec => []TypeOK
<1>1. EvalInv => TypeOK
  BY DEF EvalInv
<1>2. QED
  BY <1>1, EvaluationInvariant, PTL

\* Whatever is selected, resumed, killed or run beside it, a file is of one run.
THEOREM FilesAreOneRun == Spec => []ArtifactsAreOneRun
<1>1. EvalInv => ArtifactsAreOneRun
  BY DEF EvalInv, CheckpointIsOneRun, ReportIsOneRun, ArtifactsAreOneRun
<1>2. QED
  BY <1>1, EvaluationInvariant, PTL

(***************************************************************************)
(* A lone evaluator: its memory is the checkpoint, or one record ahead.    *)
(***************************************************************************)
Begun == {e \in Evaluators : pc[e] # "exited" \/ exit[e] # "none"}

Base == IF checkpoint = NoFile THEN <<>> ELSE checkpoint.records

SameRun(e) == checkpoint # NoFile => checkpoint.identity = Identity(config[e])

Progress(e) ==
  /\ pc[e] \in {"score", "abort"} => SameRun(e) /\ records[e] = Base
  /\ pc[e] = "save" => SameRun(e) /\ \E x \in Records : records[e] = Append(Base, x)

Ahead == IF \E e \in Evaluators : pc[e] = "save" THEN 1 ELSE 0

LoneInv ==
  Lone => /\ \A e \in Evaluators : Progress(e)
          /\ executed <= Len(Base) + Ahead + faults

StepOf(e) == Start(e) \/ Advance(e) \/ ExecuteFails(e) \/ Kill(e)

LEMMA BaseIsSequence == ASSUME TypeOK PROVE Base \in Seq(Records)
<1>1. CASE checkpoint = NoFile
  BY <1>1, Sequences DEF Base
<1>2. CASE checkpoint # NoFile
  BY <1>2 DEF TypeOK, Files, Base
<1>3. QED
  BY <1>1, <1>2

\* A step of e is about e, which has begun after it.
LEMMA StepIsLocal ==
  ASSUME EvalInv, NEW e \in Evaluators, StepOf(e)
  PROVE  /\ \A f \in Evaluators \ {e} : pc'[f] = pc[f] /\ exit'[f] = exit[f]
         /\ pc'[e] # "exited" \/ exit'[e] # "none"
<1>1. pc \in [Evaluators -> Steps \cup {"exited"}] /\ exit \in [Evaluators -> Statuses]
  BY Memories DEF EvalInv
<1>2. CASE Start(e) \/ Execute(e) \/ ExecuteFails(e) \/ Save(e)
  BY <1>1, <1>2 DEF Start, Execute, ExecuteFails, Save
<1>3. ASSUME NEW status \in {"0", "1", "2", "killed"}, Leave(e, status)
      PROVE  /\ \A f \in Evaluators \ {e} : pc'[f] = pc[f] /\ exit'[f] = exit[f]
             /\ pc'[e] # "exited" \/ exit'[e] # "none"
  BY <1>1, <1>3 DEF Leave
<1>4. CASE Load(e)
  <2>1. CASE Leave(e, "1")
    BY <2>1, <1>3
  <2>2. CASE pc' = [pc EXCEPT ![e] = "score"] /\ UNCHANGED exit
    BY <2>2, <1>1
  <2>3. QED
    BY <1>4, <2>1, <2>2 DEF Load
<1>5. CASE Abort(e) \/ Report(e) \/ Kill(e)
  BY <1>3, <1>5 DEF Abort, Report, Kill
<1>6. QED
  BY <1>2, <1>4, <1>5 DEF StepOf, Advance

\* An evaluator that is alone after its step was alone before, and no other one
\* is running.
LEMMA AloneBefore ==
  ASSUME EvalInv, NEW e \in Evaluators, StepOf(e), Lone'
  PROVE  Lone /\ \A f \in Evaluators \ {e} : pc[f] = "exited" /\ pc'[f] = "exited"
<1>1. /\ \A f \in Evaluators \ {e} : pc'[f] = pc[f] /\ exit'[f] = exit[f]
      /\ pc'[e] # "exited" \/ exit'[e] # "none"
  BY StepIsLocal
<1>2. Begun \subseteq Begun' /\ e \in Begun' /\ Begun' \subseteq Evaluators
  BY <1>1 DEF Begun
<1>3. IsFiniteSet(Begun') /\ Cardinality(Begun') \in Nat /\ Cardinality(Begun') <= 1
  BY <1>2, Bounds, FS_Subset, FS_CardinalityType DEF Lone, Begun
<1>4. IsFiniteSet(Begun) /\ Cardinality(Begun) \in Nat /\ Cardinality(Begun) <= Cardinality(Begun')
  BY <1>2, <1>3, FS_Subset, FS_CardinalityType
<1>5. Lone
  BY <1>3, <1>4 DEF Lone, Begun
<1>6. ASSUME NEW f \in Evaluators \ {e} PROVE f \notin Begun'
  <2>1. SUFFICES ASSUME f \in Begun' PROVE FALSE
    OBVIOUS
  <2>2. IsFiniteSet({e}) /\ Cardinality({e}) = 1
    BY FS_Singleton
  <2>3. Cardinality({e} \cup {f}) = 2
    BY <2>2, FS_AddElement
  <2>4. Cardinality({e} \cup {f}) <= Cardinality(Begun')
    BY <1>2, <1>3, <2>1, FS_Subset
  <2>5. QED
    BY <1>3, <2>3, <2>4
<1>7. QED
  BY <1>1, <1>5, <1>6 DEF Begun

LEMMA FrontOfAppend ==
  ASSUME NEW T, NEW s \in Seq(T), NEW x \in T
  PROVE  SubSeq(Append(s, x), 1, Len(s)) = s
<1> DEFINE longer == Append(s, x)
<1> DEFINE front == SubSeq(longer, 1, Len(s))
<1>1. longer \in Seq(T) /\ Len(longer) = Len(s) + 1 /\ \A i \in 1..Len(s) : longer[i] = s[i]
  BY AppendProperties
<1> HIDE DEF longer
<1>2. 1 \in Int /\ Len(s) \in Nat /\ \A i \in 1..Len(s) : longer[i] \in T
  BY <1>1
<1>3. /\ front \in Seq(T)
      /\ Len(front) = IF 1 <= Len(s) THEN Len(s) - 1 + 1 ELSE 0
      /\ \A i \in 1..(Len(s) - 1 + 1) : front[i] = longer[1 + i - 1]
  BY <1>2, SubSeqProperties
<1> HIDE DEF front
<1>4. Len(front) = Len(s)
  BY <1>2, <1>3
<1>5. \A i \in 1..Len(front) : front[i] = s[i]
  BY <1>1, <1>2, <1>3, <1>4
<1>6. front = s
  BY <1>3, <1>4, <1>5, SeqEqual
<1>7. QED
  BY <1>6 DEF front, longer

LEMMA PrefixOfAppend ==
  ASSUME NEW T, NEW s \in Seq(T), NEW x \in T
  PROVE  IsPrefix(s, Append(s, x))
<1>1. Len(Append(s, x)) = Len(s) + 1 /\ Len(s) \in Nat
  BY AppendProperties
<1>2. SubSeq(s, 1, Len(s)) = s
  BY SubSeqFull
<1>3. Len(s) <= Len(Append(s, x))
  BY <1>1
<1>4. QED
  BY <1>2, <1>3, FrontOfAppend DEF IsPrefix

\* While no other evaluator runs, the record ahead of the checkpoint is its own.
LEMMA AheadIsOwn ==
  ASSUME NEW e \in Evaluators, \A f \in Evaluators \ {e} : pc[f] = "exited"
  PROVE  Ahead = IF pc[e] = "save" THEN 1 ELSE 0
BY DEF Ahead

LEMMA InitLone == Init => LoneInv
BY FS_EmptySet DEF Init, LoneInv, Progress, Base, Ahead

\* A lone step keeps the memory in step with the checkpoint, which only grows.
LoneStep(e) ==
  /\ Progress(e)'
  /\ executed' <= Len(Base)' + (IF pc'[e] = "save" THEN 1 ELSE 0) + faults'
  /\ checkpoint # NoFile => /\ checkpoint'.identity = checkpoint.identity
                            /\ IsPrefix(checkpoint.records, checkpoint'.records)

LoneBefore(e) ==
  /\ Progress(e)
  /\ executed <= Len(Base) + (IF pc[e] = "save" THEN 1 ELSE 0) + faults

LEMMA Numbers ==
  ASSUME TypeOK
  PROVE  executed \in Nat /\ faults \in Nat /\ Len(Base) \in Nat
BY BaseIsSequence, Counters, Sequences, Bounds

\* The checkpoint stays.
LEMMA SamePrefix ==
  ASSUME TypeOK, checkpoint' = checkpoint
  PROVE  /\ Base' = Base
         /\ checkpoint # NoFile => /\ checkpoint'.identity = checkpoint.identity
                                   /\ IsPrefix(checkpoint.records, checkpoint'.records)
<1>1. Base' = Base
  BY DEF Base
<1>2. ASSUME checkpoint # NoFile PROVE IsPrefix(checkpoint.records, checkpoint.records)
  <2>1. checkpoint.records \in Seq(Records)
    BY <1>2 DEF TypeOK, Files
  <2>2. SubSeq(checkpoint.records, 1, Len(checkpoint.records)) = checkpoint.records
    BY <2>1, SubSeqFull
  <2>3. Len(checkpoint.records) <= Len(checkpoint.records)
    BY <2>1, Sequences
  <2>4. QED
    BY <2>2, <2>3 DEF IsPrefix
<1>3. QED
  BY <1>1, <1>2

\* An evaluator that loads, starts, reports or is killed changes no checkpoint.
LEMMA LoneQuiet ==
  ASSUME EvalInv, NEW e \in Evaluators, LoneBefore(e), checkpoint' = checkpoint,
         pc'[e] # "save", executed' = executed,
         (faults' = faults /\ pc[e] # "save") \/ faults' = faults + 1,
         pc'[e] \in {"score", "abort"} => SameRun(e)' /\ records'[e] = Base
  PROVE  LoneStep(e)
<1>1. Progress(e)'
  BY SamePrefix DEF EvalInv, Progress
<1>2. executed' <= Len(Base)' + 0 + faults'
  BY Numbers, SamePrefix DEF EvalInv, LoneBefore
<1>3. QED
  BY <1>1, <1>2, SamePrefix DEF EvalInv, LoneStep

LEMMA LoneLoad ==
  ASSUME EvalInv, NEW e \in Evaluators, Load(e), LoneBefore(e) PROVE LoneStep(e)
<1>1. /\ pc[e] = "load" /\ records[e] = <<>>
      /\ UNCHANGED <<checkpoint, config, executed, faults>>
  BY DEF Load, EvalInv, StartsEmpty
<1>2. /\ pc \in [Evaluators -> Steps \cup {"exited"}]
      /\ records \in [Evaluators -> Seq(Records)]
  BY Memories DEF EvalInv
<1>3. pc'[e] # "save" /\ (pc'[e] \in {"score", "abort"} => SameRun(e)' /\ records'[e] = Base)
  <2>1. CASE Leave(e, "1")
    BY <2>1, <1>2 DEF Leave
  <2>2. CASE checkpoint = NoFile /\ pc' = [pc EXCEPT ![e] = "score"] /\ records' = records
    BY <2>2, <1>1, <1>2 DEF SameRun, Base
  <2>3. CASE /\ checkpoint # NoFile /\ checkpoint.identity = Identity(config[e])
             /\ records' = [records EXCEPT ![e] = checkpoint.records]
             /\ pc' = [pc EXCEPT ![e] = "score"]
    BY <2>3, <1>1, <1>2 DEF SameRun, Base
  <2>4. QED
    BY <2>1, <2>2, <2>3 DEF Load
<1>4. QED
  BY <1>1, <1>3, LoneQuiet

LEMMA LoneExecute ==
  ASSUME EvalInv, NEW e \in Evaluators, Execute(e), EvalInv', LoneBefore(e) PROVE LoneStep(e)
<1>1. PICK g \in BOOLEAN :
        records' = [records EXCEPT ![e] =
                      Append(@, [item |-> NextItem(e), by |-> config[e], good |-> g])]
  BY DEF Execute
<1> DEFINE x == [item |-> NextItem(e), by |-> config[e], good |-> g]
<1>2. /\ pc[e] = "score" /\ pc' = [pc EXCEPT ![e] = "save"]
      /\ UNCHANGED <<checkpoint, config, faults>> /\ executed' = executed + 1
  BY DEF Execute
<1>3. /\ pc \in [Evaluators -> Steps \cup {"exited"}]
      /\ records \in [Evaluators -> Seq(Records)] /\ config \in [Evaluators -> Configs]
  BY Memories DEF EvalInv
<1>4. pc'[e] = "save" /\ records'[e] = Append(Base, x) /\ SameRun(e)'
  BY <1>1, <1>2, <1>3 DEF LoneBefore, Progress, SameRun
<1>5. x \in Records
  <2>1. NextItem(e) \in Items
    <3>1. Missing(e) # {}
      BY DEF Execute
    <3>2. PICK n \in DOMAIN config[e].selected : NextItem(e) = config[e].selected[n]
      BY <3>1, NextIsMissing DEF EvalInv
    <3>3. config[e].selected \in Seq(Items)
      BY <1>3, SelectedIsSequence
    <3>4. QED
      BY <3>2, <3>3
  <2>2. QED
    BY <2>1, <1>3 DEF Records
<1> HIDE DEF x
<1>6. Progress(e)'
  BY <1>4, <1>5, <1>2, SamePrefix DEF EvalInv, Progress
<1>7. executed' <= Len(Base)' + 1 + faults'
  BY <1>2, Numbers, SamePrefix DEF EvalInv, LoneBefore
<1>8. QED
  BY <1>2, <1>4, <1>6, <1>7, SamePrefix DEF EvalInv, LoneStep

LEMMA LoneFails ==
  ASSUME EvalInv, NEW e \in Evaluators, ExecuteFails(e), LoneBefore(e) PROVE LoneStep(e)
<1>1. /\ pc[e] = "score" /\ pc' = [pc EXCEPT ![e] = "abort"]
      /\ UNCHANGED <<checkpoint, config, records>>
      /\ executed' = executed + 1 /\ faults' = faults + 1
  BY DEF ExecuteFails
<1>2. pc'[e] = "abort" /\ SameRun(e)' /\ records'[e] = Base
  BY <1>1, Memories DEF EvalInv, LoneBefore, Progress, SameRun
<1>3. Progress(e)'
  BY <1>1, <1>2, SamePrefix DEF EvalInv, Progress
<1>4. executed' <= Len(Base)' + 0 + faults'
  BY <1>1, Numbers, SamePrefix DEF EvalInv, LoneBefore
<1>5. QED
  BY <1>1, <1>2, <1>3, <1>4, SamePrefix DEF EvalInv, LoneStep

LEMMA SavedBase ==
  ASSUME TypeOK, NEW e \in Evaluators, checkpoint' = Saved(e)
  PROVE  /\ checkpoint' # NoFile /\ Base' = records[e]
         /\ checkpoint'.identity = Identity(config[e]) /\ checkpoint'.records = records[e]
BY SavedIsFile, NoFileAssumption DEF Base, Saved

LEMMA LoneSave ==
  ASSUME EvalInv, NEW e \in Evaluators, Save(e), LoneBefore(e) PROVE LoneStep(e)
<1>1. /\ pc[e] = "save" /\ pc' = [pc EXCEPT ![e] = "score"] /\ checkpoint' = Saved(e)
      /\ UNCHANGED <<config, records, executed, faults>>
  BY DEF Save
<1>2. pc'[e] = "score"
  BY <1>1, Memories DEF EvalInv
<1>3. PICK x \in Records : SameRun(e) /\ records[e] = Append(Base, x)
  BY <1>1 DEF LoneBefore, Progress
<1>4. Base \in Seq(Records) /\ Base' = records[e] /\ TypeOK
  BY <1>1, SavedBase, BaseIsSequence DEF EvalInv
<1>5. Len(Base') = Len(Base) + 1 /\ Len(Base) \in Nat
  BY <1>3, <1>4, AppendProperties, Sequences
<1>6. Progress(e)'
  BY <1>1, <1>2, <1>4, SavedBase DEF Progress, SameRun
<1>7. executed <= Len(Base) + 1 + faults
  BY <1>1 DEF LoneBefore
<1>8. executed' <= Len(Base)' + 0 + faults'
  BY <1>1, <1>4, <1>5, <1>7, Numbers
<1>9. checkpoint # NoFile => /\ checkpoint'.identity = checkpoint.identity
                             /\ IsPrefix(checkpoint.records, checkpoint'.records)
  <2>1. SUFFICES ASSUME checkpoint # NoFile
                 PROVE  /\ checkpoint'.identity = checkpoint.identity
                        /\ IsPrefix(checkpoint.records, checkpoint'.records)
    OBVIOUS
  <2>2. Base = checkpoint.records /\ checkpoint.identity = Identity(config[e])
    BY <2>1, <1>3 DEF Base, SameRun
  <2>3. IsPrefix(Base, Append(Base, x))
    BY <1>4, PrefixOfAppend
  <2>4. QED
    BY <1>1, <1>3, <1>4, <2>2, <2>3, SavedBase
<1>10. QED
  BY <1>2, <1>6, <1>8, <1>9 DEF LoneStep

LEMMA LoneAbort ==
  ASSUME EvalInv, NEW e \in Evaluators, Abort(e), LoneBefore(e) PROVE LoneStep(e)
<1>1. /\ pc[e] = "abort" /\ checkpoint' = Saved(e) /\ pc' = [pc EXCEPT ![e] = "exited"]
      /\ UNCHANGED <<config, executed, faults>>
  BY DEF Abort, Leave
<1>2. pc'[e] = "exited" /\ TypeOK
  BY <1>1, Memories DEF EvalInv
<1>3. SameRun(e) /\ records[e] = Base
  BY <1>1 DEF LoneBefore, Progress
<1>4. Base' = Base
  BY <1>1, <1>2, <1>3, SavedBase
<1>5. Progress(e)'
  BY <1>2 DEF Progress
<1>6. executed' <= Len(Base)' + 0 + faults'
  BY <1>1, <1>2, <1>4, Numbers DEF LoneBefore
<1>7. checkpoint # NoFile => /\ checkpoint'.identity = checkpoint.identity
                             /\ IsPrefix(checkpoint.records, checkpoint'.records)
  <2>1. SUFFICES ASSUME checkpoint # NoFile
                 PROVE  /\ checkpoint'.identity = checkpoint.identity
                        /\ IsPrefix(checkpoint.records, checkpoint'.records)
    OBVIOUS
  <2>2. Base = checkpoint.records /\ checkpoint.identity = Identity(config[e])
    BY <2>1, <1>3 DEF Base, SameRun
  <2>3. Base \in Seq(Records) /\ SubSeq(Base, 1, Len(Base)) = Base /\ Len(Base) <= Len(Base)
    BY <1>2, BaseIsSequence, SubSeqFull, Sequences
  <2>4. IsPrefix(Base, Base)
    BY <2>3 DEF IsPrefix
  <2>5. QED
    BY <1>1, <1>2, <1>3, <2>2, <2>4, SavedBase
<1>8. QED
  BY <1>2, <1>5, <1>6, <1>7 DEF LoneStep

LEMMA LoneSteps ==
  ASSUME EvalInv, EvalInv', NEW e \in Evaluators, StepOf(e), LoneBefore(e) PROVE LoneStep(e)
<1>1. CASE Start(e)
  <2>1. /\ pc[e] = "exited" /\ pc' = [pc EXCEPT ![e] = "load"]
        /\ UNCHANGED <<checkpoint, executed, faults>>
    BY <1>1 DEF Start
  <2>2. pc'[e] = "load"
    BY <2>1, Memories DEF EvalInv
  <2>3. QED
    BY <2>1, <2>2, LoneQuiet
<1>2. CASE Report(e)
  <2>1. /\ pc[e] = "score" /\ pc' = [pc EXCEPT ![e] = "exited"]
        /\ UNCHANGED <<checkpoint, executed, faults>>
    BY <1>2 DEF Report, Leave
  <2>2. pc'[e] = "exited"
    BY <2>1, Memories DEF EvalInv
  <2>3. QED
    BY <2>1, <2>2, LoneQuiet
<1>3. CASE Kill(e)
  <2>1. /\ pc' = [pc EXCEPT ![e] = "exited"] /\ faults' = faults + 1
        /\ UNCHANGED <<checkpoint, executed>>
    BY <1>3 DEF Kill, Leave
  <2>2. pc'[e] = "exited"
    BY <2>1, Memories DEF EvalInv
  <2>3. QED
    BY <2>1, <2>2, LoneQuiet
<1>4. QED
  BY <1>1, <1>2, <1>3, LoneLoad, LoneExecute, LoneFails, LoneSave, LoneAbort DEF StepOf, Advance

GrowingStep ==
  Lone' /\ checkpoint # NoFile =>
    /\ checkpoint'.identity = checkpoint.identity
    /\ IsPrefix(checkpoint.records, checkpoint'.records)

LEMMA StepLone ==
  ASSUME EvalInv, EvalInv', LoneInv, NEW e \in Evaluators, StepOf(e), Lone'
  PROVE  /\ \A f \in Evaluators : Progress(f)'
         /\ executed' <= Len(Base)' + Ahead' + faults'
         /\ GrowingStep
<1>1. Lone /\ \A f \in Evaluators \ {e} : pc[f] = "exited" /\ pc'[f] = "exited"
  BY AloneBefore
<1>2. /\ Ahead = IF pc[e] = "save" THEN 1 ELSE 0
      /\ Ahead' = IF pc'[e] = "save" THEN 1 ELSE 0
  BY <1>1 DEF Ahead
<1>3. LoneBefore(e)
  BY <1>1, <1>2 DEF LoneInv, LoneBefore
<1>4. LoneStep(e)
  BY <1>3, LoneSteps
<1>5. \A f \in Evaluators \ {e} : Progress(f)'
  BY <1>1 DEF Progress
<1>6. QED
  BY <1>2, <1>4, <1>5 DEF LoneStep, GrowingStep

\* While it does not move, a checkpoint keeps what it has.
LEMMA StutterLone ==
  ASSUME EvalInv, LoneInv, UNCHANGED vars PROVE LoneInv' /\ GrowingStep
<1>1. LoneInv'
  BY DEF vars, LoneInv, Lone, Progress, SameRun, Base, Ahead
<1>2. QED
  BY <1>1, SamePrefix DEF vars, EvalInv, GrowingStep

LEMMA NextLone ==
  EvalInv /\ EvalInv' /\ LoneInv /\ [Next]_vars => LoneInv' /\ [GrowingStep]_vars
<1> SUFFICES ASSUME EvalInv, EvalInv', LoneInv, [Next]_vars PROVE LoneInv' /\ GrowingStep
  OBVIOUS
<1>1. CASE UNCHANGED vars
  BY <1>1, StutterLone
<1>2. ASSUME NEW e \in Evaluators, StepOf(e) PROVE LoneInv' /\ GrowingStep
  <2>1. CASE Lone'
    BY <1>2, <2>1, StepLone DEF LoneInv
  <2>2. CASE ~Lone'
    BY <2>2 DEF LoneInv, GrowingStep
  <2>3. QED
    BY <2>1, <2>2
<1>3. QED
  BY <1>1, <1>2 DEF Next, StepOf

\* What a lone evaluator holds and has paid for stays in step with its checkpoint.
THEOREM LoneInvariant == Spec => []LoneInv
BY EvaluationInvariant, InitLone, NextLone, PTL DEF Spec

\* A lone evaluator pays for an item again only after a kill or a failure.
THEOREM UnsavedIsOneItem == Spec => []UnsavedWorkIsOneItem
<1>1. EvalInv /\ LoneInv => UnsavedWorkIsOneItem
  <2>1. SUFFICES ASSUME EvalInv, LoneInv, Lone
                 PROVE  executed <= (IF checkpoint = NoFile THEN 0 ELSE Len(checkpoint.records))
                                      + Ahead + faults
    BY DEF UnsavedWorkIsOneItem, Ahead
  <2>2. Len(Base) = IF checkpoint = NoFile THEN 0 ELSE Len(checkpoint.records)
    BY DEF Base
  <2>3. QED
    BY <2>1, <2>2 DEF LoneInv
<1>2. QED
  BY <1>1, EvaluationInvariant, LoneInvariant, PTL

\* A lone evaluator never loses a record of its checkpoint, nor replaces the
\* checkpoint of another run.
THEOREM CheckpointGrows == Spec => CheckpointOnlyGrows
BY EvaluationInvariant, LoneInvariant, NextLone, PTL DEF Spec, CheckpointOnlyGrows, GrowingStep
=============================================================================
