------------------------- MODULE CorpusIndexingProofs -------------------------
(***************************************************************************)
(* Proofs about CorpusIndexing, for every number of operators, corpora,    *)
(* target names, batch sizes, reruns and faults.                           *)
(***************************************************************************)
EXTENDS CorpusIndexing, TLAPS, FiniteSetTheorems

(***************************************************************************)
(* The inductive invariant: a running command works on safe targets, and   *)
(* what it is about to delete are points of its manual only.               *)
(***************************************************************************)
TargetsAreSafe == \A p \in Operators : Running(p) => TargetsSafe(target[p])

DeletesOwnManual ==
  \A p \in Operators : pc[p] \in {"upsert", "trim"} =>
    \A c \in existing[p] : DocOf[c] = Manual(p)

IndexInv == TypeOK /\ TargetsAreSafe /\ DeletesOwnManual

(***************************************************************************)
(* What a call does to the store                                           *)
(***************************************************************************)
LEMMA NameIsCollection ==
  ASSUME TypeOK, NEW p \in Operators
  PROVE  Name(p) \in Collections
BY IndexingAssumption DEF TypeOK, Name, Sides

LEMMA CreatedStore ==
  ASSUME TypeOK, NEW p \in Operators
  PROVE  /\ Created(p) \in [Collections -> Contents]
         /\ \A n \in Collections : Created(p)[n].points = store[n].points
         /\ \A n \in Collections \ {Name(p)} : Created(p)[n] = store[n]
BY NameIsCollection DEF TypeOK, Created, Contents, Schemas, Sides

LEMMA KeywordStore ==
  ASSUME TypeOK, NEW p \in Operators
  PROVE  /\ Keyword(p) \in [Collections -> Contents]
         /\ \A n \in Collections : Keyword(p)[n].points = store[n].points
         /\ \A n \in Collections \ {Name(p)} : Keyword(p)[n] = store[n]
BY NameIsCollection DEF TypeOK, Keyword, Contents

LEMMA UpsertedStore ==
  ASSUME TypeOK, NEW p \in Operators, NEW b \in SUBSET Chunks
  PROVE  /\ Upserted(p, b) \in [Collections -> Contents]
         /\ \A n \in Collections : store[n].points \subseteq Upserted(p, b)[n].points
         /\ \A n \in Collections \ {Name(p)} : Upserted(p, b)[n] = store[n]
BY NameIsCollection DEF TypeOK, Upserted, Contents

LEMMA TrimmedStore ==
  ASSUME TypeOK, NEW p \in Operators
  PROVE  /\ Trimmed(p) \in [Collections -> Contents]
         /\ \A n \in Collections : store[n].points \ Stale(p) \subseteq Trimmed(p)[n].points
         /\ \A n \in Collections \ {Name(p)} : Trimmed(p)[n] = store[n]
BY NameIsCollection DEF TypeOK, Trimmed, Contents

LEMMA BatchOfChunks ==
  ASSUME TypeOK, NEW p \in Operators, NEW b \in Batches(p)
  PROVE  b \in SUBSET Chunks
BY DEF TypeOK, Batches

(***************************************************************************)
(* One lemma for each step of the command                                  *)
(***************************************************************************)
LEMMA StartKeeps == ASSUME IndexInv, NEW p \in Operators, Start(p) PROVE IndexInv'
<1>1. PICK C \in Corpora, t \in Targets, n \in 0..1 :
        /\ corpus' = [corpus EXCEPT ![p] = C]
        /\ target' = [target EXCEPT ![p] = t]
        /\ again' = [again EXCEPT ![p] = n]
        /\ pc' = [pc EXCEPT ![p] = IF TargetsSafe(t) THEN "load" ELSE "rejected"]
  BY DEF Start, Goto, Set
<1>2. /\ side' = [side EXCEPT ![p] = "dense"]
      /\ doc' = [doc EXCEPT ![p] = 0]
      /\ pending' = [pending EXCEPT ![p] = {}]
      /\ existing' = [existing EXCEPT ![p] = {}]
      /\ runs' = runs + 1 /\ runs < MaxRuns
      /\ UNCHANGED <<store, manifest, faults>>
  BY DEF Start, Set
<1>3. TypeOK'
  BY <1>1, <1>2, IndexingAssumption DEF IndexInv, TypeOK, Steps, Stopped, Sides
<1>4. TargetsAreSafe'
  BY <1>1, <1>2 DEF IndexInv, TypeOK, TargetsAreSafe, Running, Steps
<1>5. DeletesOwnManual'
  BY <1>1, <1>2 DEF IndexInv, TypeOK, DeletesOwnManual, Manual
<1>6. QED
  BY <1>3, <1>4, <1>5 DEF IndexInv

\* A process that ends takes nothing with it but what it left in the store.
LEMMA ExitKeeps ==
  ASSUME IndexInv, NEW p \in Operators, Exit(p),
         store' \in [Collections -> Contents],
         manifest' = NoChunks \/ manifest' \in SUBSET Chunks,
         runs' \in 0..MaxRuns, faults' \in 0..MaxFaults
  PROVE  IndexInv'
<1>1. /\ pc' = [pc EXCEPT ![p] = "failed"]
      /\ corpus' = [corpus EXCEPT ![p] = {}]
      /\ side' = [side EXCEPT ![p] = "dense"]
      /\ doc' = [doc EXCEPT ![p] = 0]
      /\ pending' = [pending EXCEPT ![p] = {}]
      /\ existing' = [existing EXCEPT ![p] = {}]
      /\ again' = [again EXCEPT ![p] = 0]
      /\ target' = target
  BY DEF Exit, Goto, Set
<1>2. TypeOK'
  BY <1>1, IndexingAssumption DEF IndexInv, TypeOK, Steps, Stopped, Sides
<1>3. TargetsAreSafe'
  BY <1>1 DEF IndexInv, TypeOK, TargetsAreSafe, Running, Steps
<1>4. DeletesOwnManual'
  BY <1>1 DEF IndexInv, TypeOK, DeletesOwnManual, Manual
<1>5. QED
  BY <1>2, <1>3, <1>4 DEF IndexInv

\* A step that only moves on, perhaps after a call on the store.
LEMMA MoveKeeps ==
  ASSUME IndexInv, NEW p \in Operators, NEW step \in Steps \cup {"passed"},
         pc' = [pc EXCEPT ![p] = step], pc[p] \in Steps,
         step \in {"embed", "ensure", "keyword", "scroll"} => doc[p] # 0,
         step \notin {"upsert", "trim"},
         store' \in [Collections -> Contents],
         manifest' = NoChunks \/ manifest' \in SUBSET Chunks,
         UNCHANGED <<locals, runs, faults>>
  PROVE  IndexInv'
<1>1. /\ corpus' = corpus /\ target' = target /\ side' = side /\ doc' = doc
      /\ pending' = pending /\ existing' = existing /\ again' = again
      /\ runs' = runs /\ faults' = faults
  BY DEF locals
<1>2. TypeOK'
  BY <1>1 DEF IndexInv, TypeOK, Stopped, Steps
<1>3. TargetsAreSafe'
  BY <1>1 DEF IndexInv, TypeOK, TargetsAreSafe, Running
<1>4. DeletesOwnManual'
  BY <1>1 DEF IndexInv, TypeOK, DeletesOwnManual, Manual
<1>5. QED
  BY <1>2, <1>3, <1>4 DEF IndexInv

LEMMA Counters == IndexInv => /\ runs \in 0..MaxRuns /\ faults \in 0..MaxFaults
                              /\ manifest = NoChunks \/ manifest \in SUBSET Chunks
                              /\ store \in [Collections -> Contents]
BY DEF IndexInv, TypeOK

LEMMA LoadKeeps == ASSUME IndexInv, NEW p \in Operators, Load(p) PROVE IndexInv'
<1>1. CASE Exit(p)
  BY <1>1, ExitKeeps, Counters DEF Load
<1>2. CASE Goto(p, "protect") /\ UNCHANGED locals
  BY <1>2, MoveKeeps, Counters DEF Load, Goto, Steps
<1>3. QED
  BY <1>1, <1>2 DEF Load

LEMMA ProtectKeeps == ASSUME IndexInv, NEW p \in Operators, VerifyProtected(p) PROVE IndexInv'
<1>1. CASE Exit(p)
  BY <1>1, ExitKeeps, Counters DEF VerifyProtected
<1>2. CASE /\ Goto(p, "embed") /\ doc' = Set(doc, p, 1)
           /\ UNCHANGED <<corpus, target, side, pending, existing, again>>
  <2>1. /\ pc' = [pc EXCEPT ![p] = "embed"] /\ pc[p] = "protect"
        /\ doc' = [doc EXCEPT ![p] = 1]
        /\ UNCHANGED <<store, corpus, target, side, pending, existing, again, manifest, runs, faults>>
    BY <1>2 DEF VerifyProtected, Goto, Set
  <2>2. 1 \in 0..Len(DocOrder)
    BY IndexingAssumption
  <2>3. TypeOK'
    BY <2>1, <2>2 DEF IndexInv, TypeOK, Steps
  <2>4. TargetsAreSafe'
    BY <2>1 DEF IndexInv, TypeOK, TargetsAreSafe, Running, Steps
  <2>5. DeletesOwnManual'
    BY <2>1 DEF IndexInv, TypeOK, DeletesOwnManual, Manual
  <2>6. QED
    BY <2>3, <2>4, <2>5 DEF IndexInv
<1>3. QED
  BY <1>1, <1>2 DEF VerifyProtected

LEMMA EmbedKeeps == ASSUME IndexInv, NEW p \in Operators, Embed(p) PROVE IndexInv'
<1>1. doc[p] # 0
  BY DEF IndexInv, TypeOK, Embed
<1>2. QED
  BY <1>1, MoveKeeps, Counters DEF Embed, Goto, Steps

LEMMA EnsureKeeps == ASSUME IndexInv, NEW p \in Operators, Ensure(p) PROVE IndexInv'
<1>1. doc[p] # 0 /\ TypeOK /\ pc[p] = "ensure"
  BY DEF IndexInv, TypeOK, Ensure
<1>2. store' \in [Collections -> Contents] /\ UNCHANGED <<manifest, runs, faults>>
  BY <1>1, CreatedStore DEF Ensure
<1>3. CASE Exit(p)
  BY <1>2, <1>3, ExitKeeps, Counters
<1>4. CASE Goto(p, IF side[p] = "dense" THEN "scroll" ELSE "keyword") /\ UNCHANGED locals
  <2>1. PICK step \in {"scroll", "keyword"} : pc' = [pc EXCEPT ![p] = step]
    BY <1>4 DEF Goto
  <2>2. QED
    BY <1>1, <1>2, <1>4, <2>1, MoveKeeps, Counters DEF Steps
<1>5. QED
  BY <1>3, <1>4 DEF Ensure

LEMMA KeywordKeeps == ASSUME IndexInv, NEW p \in Operators, CreatePayloadIndex(p) PROVE IndexInv'
<1>1. doc[p] # 0 /\ TypeOK
  BY DEF IndexInv, TypeOK, CreatePayloadIndex
<1>2. store' \in [Collections -> Contents]
  BY <1>1, KeywordStore DEF CreatePayloadIndex
<1>3. QED
  BY <1>1, <1>2, MoveKeeps, Counters DEF CreatePayloadIndex, Goto, Steps

LEMMA ScrollKeeps == ASSUME IndexInv, NEW p \in Operators, Scroll(p) PROVE IndexInv'
<1>1. /\ pc' = [pc EXCEPT ![p] = "upsert"] /\ pc[p] = "scroll"
      /\ existing' = [existing EXCEPT ![p] = OfDoc(store[Name(p)].points, Manual(p))]
      /\ pending' = [pending EXCEPT ![p] = NewChunks(p)]
      /\ UNCHANGED <<store, corpus, target, side, doc, again, manifest, runs, faults>>
  BY DEF Scroll, Goto, Set
<1>2. /\ OfDoc(store[Name(p)].points, Manual(p)) \in SUBSET Chunks
      /\ NewChunks(p) \in SUBSET Chunks
  BY NameIsCollection DEF IndexInv, TypeOK, OfDoc, NewChunks, Contents
<1>3. TypeOK'
  BY <1>1, <1>2 DEF IndexInv, TypeOK, Steps
<1>4. TargetsAreSafe'
  BY <1>1 DEF IndexInv, TypeOK, TargetsAreSafe, Running, Steps
<1>5. DeletesOwnManual'
  BY <1>1 DEF IndexInv, TypeOK, DeletesOwnManual, Manual, OfDoc
<1>6. QED
  BY <1>3, <1>4, <1>5 DEF IndexInv

LEMMA UpsertKeeps == ASSUME IndexInv, NEW p \in Operators, Upsert(p) PROVE IndexInv'
<1>1. PICK b \in Batches(p) :
        /\ store' = Upserted(p, b)
        /\ pending' = [pending EXCEPT ![p] = pending[p] \ b]
        /\ pc' = [pc EXCEPT ![p] = IF b = pending[p] THEN "trim" ELSE "upsert"]
  BY DEF Upsert, Goto, Set
<1>2. /\ pc[p] = "upsert"
      /\ UNCHANGED <<corpus, target, side, doc, existing, again, manifest, runs, faults>>
  BY DEF Upsert
<1>3. store' \in [Collections -> Contents]
  BY <1>1, BatchOfChunks, UpsertedStore DEF IndexInv
<1>4. TypeOK'
  BY <1>1, <1>2, <1>3 DEF IndexInv, TypeOK, Steps
<1>5. TargetsAreSafe'
  BY <1>1, <1>2 DEF IndexInv, TypeOK, TargetsAreSafe, Running, Steps
<1>6. DeletesOwnManual'
  BY <1>1, <1>2 DEF IndexInv, TypeOK, DeletesOwnManual, Manual
<1>7. QED
  BY <1>4, <1>5, <1>6 DEF IndexInv

LEMMA TrimKeeps == ASSUME IndexInv, NEW p \in Operators, Trim(p) PROVE IndexInv'
<1>1. PICK step \in {"embed", "verify"}, s \in Sides, d \in 0..Len(DocOrder) :
        /\ pc' = [pc EXCEPT ![p] = step]
        /\ side' = [side EXCEPT ![p] = s]
        /\ doc' = [doc EXCEPT ![p] = d]
        /\ step = "embed" => d # 0
  <2>1. /\ doc[p] \in 0..Len(DocOrder) /\ doc[p] # 0 /\ Len(DocOrder) \in Nat
        /\ doc = [doc EXCEPT ![p] = doc[p]]
    BY IndexingAssumption DEF IndexInv, TypeOK, Trim
  <2>2. CASE side[p] = "dense"
    <3>1. /\ pc' = [pc EXCEPT ![p] = "embed"] /\ side' = [side EXCEPT ![p] = "hybrid"]
          /\ doc' = [doc EXCEPT ![p] = doc[p]]
      BY <2>1, <2>2 DEF Trim, Goto, Set
    <3>2. QED
      BY <2>1, <3>1 DEF Sides
  <2>3. CASE side[p] # "dense" /\ doc[p] < Len(DocOrder)
    <3>1. /\ pc' = [pc EXCEPT ![p] = "embed"] /\ side' = [side EXCEPT ![p] = "dense"]
          /\ doc' = [doc EXCEPT ![p] = doc[p] + 1]
      BY <2>3 DEF Trim, Goto, Set
    <3>2. doc[p] + 1 \in 0..Len(DocOrder) /\ doc[p] + 1 # 0
      BY <2>1, <2>3
    <3>3. QED
      BY <3>1, <3>2 DEF Sides
  <2>4. CASE side[p] # "dense" /\ ~(doc[p] < Len(DocOrder))
    <3>1. /\ pc' = [pc EXCEPT ![p] = "verify"] /\ side' = [side EXCEPT ![p] = "dense"]
          /\ doc' = [doc EXCEPT ![p] = 0]
      BY <2>4 DEF Trim, Goto, Set
    <3>2. 0 \in 0..Len(DocOrder)
      BY <2>1
    <3>3. QED
      BY <3>1, <3>2 DEF Sides
  <2>5. QED
    BY <2>2, <2>3, <2>4
<1>2. /\ pc[p] = "trim" /\ store' = Trimmed(p)
      /\ existing' = [existing EXCEPT ![p] = {}]
      /\ UNCHANGED <<corpus, target, pending, again, manifest, runs, faults>>
  BY DEF Trim, Set
<1>3. store' \in [Collections -> Contents]
  BY <1>2, TrimmedStore DEF IndexInv
<1>4. TypeOK'
  BY <1>1, <1>2, <1>3 DEF IndexInv, TypeOK, Steps
<1>5. TargetsAreSafe'
  BY <1>1, <1>2 DEF IndexInv, TypeOK, TargetsAreSafe, Running, Steps
<1>6. DeletesOwnManual'
  BY <1>1, <1>2 DEF IndexInv, TypeOK, DeletesOwnManual, Manual
<1>7. QED
  BY <1>4, <1>5, <1>6 DEF IndexInv

LEMMA VerifyKeeps == ASSUME IndexInv, NEW p \in Operators, Verify(p) PROVE IndexInv'
<1>1. /\ pc[p] = "verify" /\ doc[p] \in 0..Len(DocOrder)
      /\ Len(DocOrder) \in Nat /\ Len(DocOrder) # 0
      /\ again[p] \in 0..1
      /\ UNCHANGED <<store, corpus, target, pending, existing, manifest, runs, faults>>
  BY IndexingAssumption DEF IndexInv, TypeOK, Verify
<1>2. PICK step \in {"verify", "embed", "manifest"}, s \in Sides, d \in 0..Len(DocOrder), n \in 0..1 :
        /\ pc' = [pc EXCEPT ![p] = step]
        /\ side' = [side EXCEPT ![p] = s]
        /\ doc' = [doc EXCEPT ![p] = d]
        /\ again' = [again EXCEPT ![p] = n]
        /\ step = "embed" => d # 0
  <2>1. /\ pc = [pc EXCEPT ![p] = "verify"] /\ side = [side EXCEPT ![p] = side[p]]
        /\ again = [again EXCEPT ![p] = again[p]] /\ side[p] \in Sides
        /\ "hybrid" \in Sides /\ "dense" \in Sides
    BY <1>1 DEF IndexInv, TypeOK, Sides
  <2>2. CASE doc[p] < Len(DocOrder)
    <3>1. /\ doc' = [doc EXCEPT ![p] = doc[p] + 1] /\ UNCHANGED <<pc, side, again>>
      BY <2>2 DEF Verify, Set
    <3>2. doc[p] + 1 \in 0..Len(DocOrder)
      BY <1>1, <2>2
    <3>3. QED
      BY <1>1, <2>1, <3>1, <3>2
  <2>3. CASE ~(doc[p] < Len(DocOrder)) /\ side[p] = "dense"
    <3>1. /\ side' = [side EXCEPT ![p] = "hybrid"] /\ doc' = [doc EXCEPT ![p] = 0]
          /\ UNCHANGED <<pc, again>>
      BY <2>3 DEF Verify, Set
    <3>2. /\ pc' = [pc EXCEPT ![p] = "verify"] /\ 0 \in 0..Len(DocOrder)
          /\ again' = [again EXCEPT ![p] = again[p]]
      BY <1>1, <2>1, <3>1
    <3>3. QED
      BY <1>1, <2>1, <3>1, <3>2
  <2>4. CASE ~(doc[p] < Len(DocOrder)) /\ side[p] # "dense" /\ again[p] > 0
    <3>1. /\ side' = [side EXCEPT ![p] = "dense"]
          /\ again' = [again EXCEPT ![p] = again[p] - 1]
          /\ doc' = [doc EXCEPT ![p] = 1]
          /\ pc' = [pc EXCEPT ![p] = "embed"]
      BY <2>4 DEF Verify, Set, Goto
    <3>2. again[p] - 1 = 0 /\ 0 \in 0..1 /\ 1 \in 0..Len(DocOrder)
      BY <1>1, <2>4
    <3>3. /\ again' = [again EXCEPT ![p] = 0] /\ doc' = [doc EXCEPT ![p] = 1]
          /\ side' = [side EXCEPT ![p] = "dense"] /\ pc' = [pc EXCEPT ![p] = "embed"]
      BY <3>1, <3>2
    <3>4. "embed" \in {"verify", "embed", "manifest"} /\ ("embed" = "embed" => 1 # 0)
      OBVIOUS
    <3>5. QED
      BY <2>1, <3>2, <3>3, <3>4, Zenon
  <2>5. CASE ~(doc[p] < Len(DocOrder)) /\ side[p] # "dense" /\ ~(again[p] > 0)
    <3>1. /\ side' = [side EXCEPT ![p] = "dense"]
          /\ doc' = [doc EXCEPT ![p] = 0]
          /\ pc' = [pc EXCEPT ![p] = "manifest"]
          /\ UNCHANGED again
      BY <2>5 DEF Verify, Set, Goto
    <3>2. 0 \in 0..Len(DocOrder)
      BY <1>1
    <3>3. QED
      BY <1>1, <2>1, <3>1, <3>2
  <2>6. QED
    BY <2>2, <2>3, <2>4, <2>5
<1>3. TypeOK'
  BY <1>1, <1>2 DEF IndexInv, TypeOK, Steps
<1>4. TargetsAreSafe'
  BY <1>1, <1>2 DEF IndexInv, TypeOK, TargetsAreSafe, Running, Steps
<1>5. DeletesOwnManual'
  BY <1>1, <1>2 DEF IndexInv, TypeOK, DeletesOwnManual, Manual
<1>6. QED
  BY <1>3, <1>4, <1>5 DEF IndexInv

LEMMA ManifestKeeps == ASSUME IndexInv, NEW p \in Operators, WriteManifest(p) PROVE IndexInv'
<1>1. manifest' \in SUBSET Chunks
  BY DEF WriteManifest, IndexInv, TypeOK
<1>2. QED
  BY <1>1, MoveKeeps, Counters DEF WriteManifest, Goto, Steps

LEMMA FailKeeps ==
  ASSUME IndexInv, NEW p \in Operators, Fail(p) \/ FailAfterEffect(p) \/ VerifyFails(p)
  PROVE  IndexInv'
<1>1. /\ Exit(p) /\ runs' \in 0..MaxRuns
      /\ faults' \in 0..MaxFaults
  BY IndexingAssumption DEF Fail, FailAfterEffect, VerifyFails, IndexInv, TypeOK
<1>2. store' \in [Collections -> Contents]
  BY CreatedStore, KeywordStore, UpsertedStore, TrimmedStore, BatchOfChunks, Counters
  DEF Fail, FailAfterEffect, VerifyFails, IndexInv
<1>3. manifest' = NoChunks \/ manifest' \in SUBSET Chunks
  BY DEF Fail, FailAfterEffect, VerifyFails, IndexInv, TypeOK
<1>4. QED
  BY <1>1, <1>2, <1>3, ExitKeeps

(***************************************************************************)
(* Theorems                                                                *)
(***************************************************************************)
LEMMA InitIndex == Init => IndexInv
<1> SUFFICES ASSUME Init PROVE IndexInv
  OBVIOUS
<1>1. TypeOK
  BY IndexingAssumption DEF Init, TypeOK, Steps, Stopped, Sides
<1>2. TargetsAreSafe /\ DeletesOwnManual
  BY DEF Init, TargetsAreSafe, DeletesOwnManual, Running, Steps
<1>3. QED
  BY <1>1, <1>2 DEF IndexInv

LEMMA StepIndex == IndexInv /\ [Next]_vars => IndexInv'
<1> SUFFICES ASSUME IndexInv, [Next]_vars PROVE IndexInv'
  OBVIOUS
<1>1. ASSUME NEW p \in Operators, Start(p) \/ Advance(p) \/ Fail(p) \/ FailAfterEffect(p)
      PROVE  IndexInv'
  BY <1>1, StartKeeps, LoadKeeps, ProtectKeeps, EmbedKeeps, EnsureKeeps, KeywordKeeps,
     ScrollKeeps, UpsertKeeps, TrimKeeps, VerifyKeeps, ManifestKeeps, FailKeeps
  DEF Advance
<1>2. CASE UNCHANGED vars
  BY <1>2 DEF vars, locals, IndexInv, TypeOK, TargetsAreSafe, DeletesOwnManual, Running, Manual
<1>3. QED
  BY <1>1, <1>2 DEF Next

\* The inductive invariant holds in every reachable state.
THEOREM IndexInvariant == Spec => []IndexInv
BY InitIndex, StepIndex, PTL DEF Spec

\* Every variable of the indexing command keeps its type.
THEOREM IndexTypeCorrect == Spec => []TypeOK
<1>1. IndexInv => TypeOK
  BY DEF IndexInv
<1>2. QED
  BY <1>1, IndexInvariant, PTL

\* What any step of any operator may do to a collection.
LEMMA StoreSteps ==
  ASSUME IndexInv, NEW p \in Operators, Start(p) \/ Advance(p) \/ Fail(p) \/ FailAfterEffect(p)
  PROVE  \/ store' = store
         \/ Running(p) /\ store' \in {Created(p), Keyword(p)}
         \/ Running(p) /\ \E b \in Batches(p) : store' = Upserted(p, b)
         \/ Running(p) /\ pc[p] = "trim" /\ store' = Trimmed(p)
BY DEF Start, Advance, Load, VerifyProtected, Embed, Ensure, CreatePayloadIndex, Scroll,
   Upsert, Trim, Verify, VerifyFails, WriteManifest, Fail, FailAfterEffect, Running, Steps

LEMMA StepArchives ==
  IndexInv /\ [Next]_vars => [\A n \in Protected : store'[n] = store[n]]_vars
<1> SUFFICES ASSUME IndexInv, NEW p \in Operators,
                    Start(p) \/ Advance(p) \/ Fail(p) \/ FailAfterEffect(p),
                    NEW n \in Protected
             PROVE  store'[n] = store[n]
  BY DEF Next
<1>1. TypeOK /\ n \in Collections
  BY IndexingAssumption DEF IndexInv
<1>2. Running(p) => n # Name(p)
  BY IndexingAssumption DEF IndexInv, TypeOK, TargetsAreSafe, TargetsSafe, Name
<1>3. QED
  BY <1>1, <1>2, StoreSteps, CreatedStore, KeywordStore, UpsertedStore, TrimmedStore, BatchOfChunks

\* No command, whatever it is asked and wherever it fails, writes an archive.
THEOREM ArchivesAreSafe == Spec => ArchivesUntouched
BY IndexInvariant, StepArchives, PTL DEF Spec, ArchivesUntouched

LEMMA StaleIsReplaced ==
  ASSUME IndexInv, NEW p \in Operators, pc[p] = "trim", NEW c \in Stale(p)
  PROVE  c \notin corpus[p]
BY DEF IndexInv, DeletesOwnManual, Stale, NewChunks, OfDoc

LEMMA StepSurvivors ==
  IndexInv /\ [Next]_vars =>
    [\A n \in Collections : \A c \in store[n].points :
       (\A p \in Operators : Running(p) => c \in corpus[p]) => c \in store'[n].points]_vars
<1> SUFFICES ASSUME IndexInv, NEW p \in Operators,
                    Start(p) \/ Advance(p) \/ Fail(p) \/ FailAfterEffect(p),
                    NEW n \in Collections, NEW c \in store[n].points,
                    \A q \in Operators : Running(q) => c \in corpus[q]
             PROVE  c \in store'[n].points
  BY DEF Next
<1>1. TypeOK
  BY DEF IndexInv
<1>2. CASE pc[p] = "trim" /\ Running(p) /\ store' = Trimmed(p)
  BY <1>1, <1>2, TrimmedStore, StaleIsReplaced
<1>3. CASE Running(p) /\ \E b \in Batches(p) : store' = Upserted(p, b)
  BY <1>1, <1>3, UpsertedStore, BatchOfChunks
<1>4. CASE store' = store \/ store' \in {Created(p), Keyword(p)}
  BY <1>1, <1>4, CreatedStore, KeywordStore
<1>5. QED
  BY <1>2, <1>3, <1>4, StoreSteps

\* A chunk that no running command gives up stays visible, for any number of
\* concurrent operators with corpora of their own.
THEOREM SurvivorsAreSafe == Spec => SurvivorsStayVisible
BY IndexInvariant, StepSurvivors, PTL DEF Spec, SurvivorsStayVisible

(***************************************************************************)
(* Operators who index the same corpus, as they do with one frozen chunk   *)
(* file: what DocumentReplacement promises the readers, and what a pass    *)
(* means.                                                                  *)
(***************************************************************************)

\* There is one chunk file; and everybody names the same collections.
OneCorpus == \A C, D \in Corpora : C = D
OneTarget == \A t, u \in Targets : t = u

StepOf(p) == Start(p) \/ Advance(p) \/ Fail(p) \/ FailAfterEffect(p)

Underway(p) == Running(p) \/ pc[p] = "passed"

(***************************************************************************)
(* The inductive invariant of replacements                                 *)
(***************************************************************************)
CorpusIsGiven == \A p \in Operators : Underway(p) => corpus[p] \in Corpora

\* While p replaces its manual, what it has upserted is visible, and everything
\* else of the manual is what it found.
Replacing(p) ==
  /\ pending[p] \subseteq NewChunks(p)
  /\ NewChunks(p) \ pending[p] \subseteq store[Name(p)].points
  /\ OfDoc(store[Name(p)].points, Manual(p)) \subseteq existing[p] \cup NewChunks(p)
  /\ pc[p] = "trim" => pending[p] = {}

ReplacementsAreWhole == \A p \in Operators : pc[p] \in {"upsert", "trim"} => Replacing(p)

ReplaceInv == IndexInv /\ CorpusIsGiven /\ ReplacementsAreWhole

(***************************************************************************)
(* What a call does to the points                                          *)
(***************************************************************************)
LEMMA UpsertedPoints ==
  ASSUME TypeOK, NEW p \in Operators, NEW b \in SUBSET Chunks
  PROVE  \A n \in Collections :
           Upserted(p, b)[n].points = IF n = Name(p) THEN store[n].points \cup b ELSE store[n].points
BY NameIsCollection DEF TypeOK, Upserted, Contents

LEMMA TrimmedPoints ==
  ASSUME TypeOK, NEW p \in Operators
  PROVE  \A n \in Collections :
           Trimmed(p)[n].points = IF n = Name(p) THEN store[n].points \ Stale(p) ELSE store[n].points
BY NameIsCollection DEF TypeOK, Trimmed, Contents

LEMMA NewChunksOfCorpus ==
  ASSUME NEW p \in Operators
  PROVE  NewChunks(p) \subseteq corpus[p] /\ \A c \in NewChunks(p) : DocOf[c] = Manual(p)
BY DEF NewChunks, OfDoc

\* Points are added by an upsert and removed by the deletion that follows.
LEMMA PointSteps ==
  ASSUME IndexInv, NEW p \in Operators, StepOf(p)
  PROVE  \/ \A n \in Collections : store'[n].points = store[n].points
         \/ pc[p] = "upsert" /\ \E b \in Batches(p) : store' = Upserted(p, b)
         \/ pc[p] = "trim" /\ store' = Trimmed(p)
<1>1. TypeOK
  BY DEF IndexInv
<1>2. \/ store' = store \/ store' \in {Created(p), Keyword(p)}
      \/ pc[p] = "upsert" /\ \E b \in Batches(p) : store' = Upserted(p, b)
      \/ pc[p] = "trim" /\ store' = Trimmed(p)
  BY DEF StepOf, Start, Advance, Load, VerifyProtected, Embed, Ensure, CreatePayloadIndex,
     Scroll, Upsert, Trim, Verify, VerifyFails, WriteManifest, Fail, FailAfterEffect
<1>3. QED
  BY <1>1, <1>2, CreatedStore, KeywordStore

\* Nobody removes a chunk of the common corpus, or adds any other.
LEMMA StepAgrees ==
  ASSUME OneCorpus, ReplaceInv, NEW p \in Operators, StepOf(p), NEW C \in Corpora,
         NEW n \in Collections
  PROVE  /\ store[n].points \cap C \subseteq store'[n].points
         /\ store'[n].points \subseteq store[n].points \cup C
<1>1. TypeOK /\ IndexInv
  BY DEF ReplaceInv, IndexInv
<1>2. ASSUME Running(p) PROVE corpus[p] = C
  BY <1>2 DEF OneCorpus, ReplaceInv, CorpusIsGiven, Underway
<1>3. CASE \A m \in Collections : store'[m].points = store[m].points
  BY <1>3
<1>4. CASE pc[p] = "trim" /\ store' = Trimmed(p)
  BY <1>1, <1>2, <1>4, TrimmedPoints, StaleIsReplaced DEF Running, Steps
<1>5. ASSUME pc[p] = "upsert", NEW b \in Batches(p), store' = Upserted(p, b)
      PROVE  store[n].points \cap C \subseteq store'[n].points
             /\ store'[n].points \subseteq store[n].points \cup C
  <2>1. b \subseteq corpus[p] /\ corpus[p] = C
    BY <1>2, <1>5, NewChunksOfCorpus
       DEF Batches, ReplaceInv, ReplacementsAreWhole, Replacing, Running, Steps
  <2>2. b \in SUBSET Chunks
    BY <1>1, BatchOfChunks
  <2>3. store'[n].points = IF n = Name(p) THEN store[n].points \cup b ELSE store[n].points
    BY <1>1, <1>5, <2>2, UpsertedPoints
  <2>4. QED
    BY <2>1, <2>3
<1>6. QED
  BY <1>1, <1>3, <1>4, <1>5, PointSteps

(***************************************************************************)
(* What a step does to the replacement of its operator                     *)
(***************************************************************************)
LEMMA StepOfOthers ==
  ASSUME TypeOK, NEW p \in Operators, StepOf(p), NEW q \in Operators \ {p}
  PROVE  /\ pc'[q] = pc[q] /\ corpus'[q] = corpus[q] /\ target'[q] = target[q]
         /\ side'[q] = side[q] /\ doc'[q] = doc[q] /\ pending'[q] = pending[q]
         /\ existing'[q] = existing[q] /\ again'[q] = again[q]
<1>1. CASE Start(p)
  BY <1>1 DEF TypeOK, Start, Goto, Set
<1>2. CASE Exit(p)
  BY <1>2 DEF TypeOK, Exit, Goto, Set
<1>3. CASE Advance(p) /\ ~Exit(p)
  BY <1>3 DEF TypeOK, Advance, Load, VerifyProtected, Embed, Ensure, CreatePayloadIndex, Scroll,
     Upsert, Trim, Verify, VerifyFails, WriteManifest, Goto, Set, locals
<1>4. QED
  BY <1>1, <1>2, <1>3 DEF StepOf, Fail, FailAfterEffect

\* A step into, within or out of the two steps of a replacement.
LEMMA OwnStep ==
  ASSUME TypeOK, NEW p \in Operators, StepOf(p)
  PROVE  \/ pc'[p] \notin {"upsert", "trim"}
         \/ Scroll(p)
         \/ Upsert(p)
<1>1. CASE Start(p)
  BY <1>1 DEF TypeOK, Start, Goto
<1>2. CASE Exit(p)
  BY <1>2 DEF TypeOK, Exit, Goto
<1>3. CASE Advance(p) /\ ~Exit(p)
  BY <1>3 DEF TypeOK, Advance, Load, VerifyProtected, Embed, Ensure, CreatePayloadIndex,
     Trim, Verify, VerifyFails, WriteManifest, Goto
<1>4. QED
  BY <1>1, <1>2, <1>3 DEF StepOf, Fail, FailAfterEffect

LEMMA CorpusStays ==
  ASSUME ReplaceInv, NEW p \in Operators, StepOf(p) PROVE CorpusIsGiven'
<1>1. TypeOK /\ CorpusIsGiven
  BY DEF ReplaceInv, IndexInv
<1>2. ASSUME NEW q \in Operators \ {p} PROVE Underway(q)' => corpus'[q] \in Corpora
  BY <1>1, StepOfOthers DEF CorpusIsGiven, Underway, Running
<1>3. Underway(p)' => corpus'[p] \in Corpora
  <2>1. CASE Start(p)
    BY <1>1, <2>1 DEF TypeOK, Start, Set
  <2>2. CASE Exit(p)
    BY <1>1, <2>2 DEF TypeOK, Exit, Goto, Underway, Running, Steps
  <2>3. CASE Advance(p) /\ ~Exit(p)
    <3>1. corpus' = corpus /\ Running(p)
      BY <2>3 DEF Advance, Load, VerifyProtected, Embed, Ensure, CreatePayloadIndex, Scroll,
         Upsert, Trim, Verify, VerifyFails, WriteManifest, locals, Running, Steps
    <3>2. QED
      BY <1>1, <3>1 DEF CorpusIsGiven, Underway
  <2>4. QED
    BY <2>1, <2>2, <2>3 DEF StepOf, Fail, FailAfterEffect
<1>4. QED
  BY <1>2, <1>3 DEF CorpusIsGiven

LEMMA ReplacementsStay ==
  ASSUME OneCorpus, ReplaceInv, NEW p \in Operators, StepOf(p) PROVE ReplacementsAreWhole'
<1>1. TypeOK /\ CorpusIsGiven
  BY DEF ReplaceInv, IndexInv
<1>2. ASSUME NEW q \in Operators \ {p}, pc[q] \in {"upsert", "trim"} PROVE Replacing(q)'
  <2>1. /\ pc'[q] = pc[q] /\ pending'[q] = pending[q] /\ existing'[q] = existing[q]
        /\ Name(q)' = Name(q) /\ Manual(q)' = Manual(q) /\ NewChunks(q)' = NewChunks(q)
    BY <1>1, StepOfOthers DEF Name, Manual, NewChunks
  <2>2. corpus[q] \in Corpora /\ Name(q) \in Collections
    BY <1>1, <1>2, NameIsCollection DEF CorpusIsGiven, Underway, Running, Steps
  <2>3. /\ store[Name(q)].points \cap corpus[q] \subseteq store'[Name(q)].points
        /\ store'[Name(q)].points \subseteq store[Name(q)].points \cup corpus[q]
    BY <2>2, StepAgrees
  <2>4. Replacing(q)
    BY <1>2 DEF ReplaceInv, ReplacementsAreWhole
  <2>5. QED
    BY <2>1, <2>3, <2>4 DEF Replacing, NewChunks, OfDoc
<1>3. ASSUME Scroll(p) PROVE Replacing(p)'
  BY <1>1, <1>3 DEF TypeOK, Scroll, Replacing, Goto, Set, Name, Manual, NewChunks, OfDoc
<1>4. ASSUME Upsert(p) PROVE Replacing(p)'
  <2>1. PICK b \in Batches(p) :
          /\ store' = Upserted(p, b)
          /\ pending' = [pending EXCEPT ![p] = pending[p] \ b]
          /\ pc' = [pc EXCEPT ![p] = IF b = pending[p] THEN "trim" ELSE "upsert"]
    BY <1>4 DEF Upsert, Goto, Set
  <2>2. /\ Name(p)' = Name(p) /\ Manual(p)' = Manual(p) /\ NewChunks(p)' = NewChunks(p)
        /\ existing' = existing /\ pc[p] = "upsert"
    BY <1>4 DEF Upsert, Name, Manual, NewChunks
  <2>3. /\ store'[Name(p)].points = store[Name(p)].points \cup b /\ b \subseteq pending[p]
    BY <1>1, <2>1, BatchOfChunks, UpsertedPoints, NameIsCollection DEF Batches
  <2>4. Replacing(p) /\ pending'[p] = pending[p] \ b
        /\ (pc'[p] = "trim" => b = pending[p])
    BY <1>1, <2>1, <2>2 DEF ReplaceInv, ReplacementsAreWhole, TypeOK
  <2>5. QED
    BY <2>2, <2>3, <2>4 DEF Replacing, NewChunks, OfDoc
<1>5. pc'[p] \in {"upsert", "trim"} => Replacing(p)'
  BY <1>1, <1>3, <1>4, OwnStep
<1>6. \A q \in Operators \ {p} : pc'[q] = pc[q]
  BY <1>1, StepOfOthers
<1>7. QED
  BY <1>2, <1>5, <1>6 DEF ReplacementsAreWhole

LEMMA InitReplace == Init => ReplaceInv
BY InitIndex DEF Init, ReplaceInv, CorpusIsGiven, ReplacementsAreWhole, Underway, Running, Steps

LEMMA NextReplace == OneCorpus /\ ReplaceInv /\ [Next]_vars => ReplaceInv'
<1> SUFFICES ASSUME OneCorpus, ReplaceInv, [Next]_vars PROVE ReplaceInv'
  OBVIOUS
<1>1. IndexInv'
  BY StepIndex DEF ReplaceInv
<1>2. ASSUME NEW p \in Operators, StepOf(p) PROVE CorpusIsGiven' /\ ReplacementsAreWhole'
  BY <1>2, CorpusStays, ReplacementsStay
<1>3. CASE UNCHANGED vars
  <2>1. \A p \in Operators :
          /\ (Underway(p) <=> Underway(p)') /\ pc'[p] = pc[p] /\ corpus'[p] = corpus[p]
          /\ (Replacing(p) <=> Replacing(p)')
    BY <1>3 DEF vars, locals, Underway, Running, Replacing, NewChunks, Manual, Name
  <2>2. CorpusIsGiven' /\ ReplacementsAreWhole'
    BY <2>1 DEF ReplaceInv, CorpusIsGiven, ReplacementsAreWhole
  <2>3. QED
    BY <1>1, <2>2 DEF ReplaceInv
<1>4. QED
  BY <1>1, <1>2, <1>3 DEF Next, StepOf, ReplaceInv

\* While all operators index one corpus, a replacement is whole.
THEOREM ReplaceInvariant == OneCorpus /\ Spec => []ReplaceInv
<1>1. SUFFICES ASSUME OneCorpus PROVE Spec => []ReplaceInv
  OBVIOUS
<1>2. ReplaceInv /\ [Next]_vars => ReplaceInv'
  BY <1>1, NextReplace
<1>3. QED
  BY <1>2, InitReplace, PTL DEF Spec

(***************************************************************************)
(* The refinement of DocumentReplacement                                   *)
(***************************************************************************)
Points == [n \in Collections |-> store[n].points]

Goal(p) == [in |-> Name(p), doc |-> Manual(p), chunks |-> NewChunks(p)]

Ends == [p \in Operators |->
           IF pc[p] \in {"upsert", "trim"}
           THEN [in |-> Name(p), doc |-> Manual(p), chunks |-> NewChunks(p)] ELSE NoChunks]

LEMMA GoalIsGoal ==
  ASSUME TypeOK, NEW p \in Operators, doc[p] # 0
  PROVE  Goal(p) \in Replacement!Goals /\ Goal(p) # NoChunks
         /\ \A c \in NewChunks(p) : DocOf[c] = Manual(p)
<1>1. DocOrder \in Seq(Manuals) /\ doc[p] \in 0..Len(DocOrder) /\ corpus[p] \subseteq Chunks
  BY IndexingAssumption DEF TypeOK
<1>2. Manual(p) \in Manuals
  BY <1>1 DEF Manual
<1>3. NewChunks(p) \subseteq Chunks
  BY <1>1 DEF NewChunks, OfDoc
<1>4. Goal(p) \in [in : Collections, doc : Manuals, chunks : SUBSET Chunks]
  BY <1>2, <1>3, NameIsCollection DEF Goal
<1>5. QED
  BY <1>4, StoreAssumption, NewChunksOfCorpus DEF Replacement!Goals

\* What a step of p does to the ends everybody works towards.
LEMMA EndsMove ==
  ASSUME TypeOK, NEW p \in Operators, StepOf(p)
  PROVE  Ends' = [Ends EXCEPT ![p] = Ends'[p]]
<1>1. \A q \in Operators \ {p} : Ends'[q] = Ends[q]
  BY StepOfOthers DEF Ends, Name, Manual, NewChunks
<1>2. QED
  BY <1>1 DEF Ends

\* The steps of DocumentReplacement, in terms of points and ends.
LEMMA ReplacementSteps ==
  ASSUME NEW p \in Operators
  PROVE  /\ \A g \in Replacement!Goals :
              (\A c \in g.chunks : DocOf[c] = g.doc) /\ Ends' = [Ends EXCEPT ![p] = g] /\ Points' = Points
                => Replacement!Begin(p)
         /\ Ends' = [Ends EXCEPT ![p] = NoChunks] /\ Points' = Points => Replacement!Abandon(p)
         /\ \A A \in SUBSET Ends[p].chunks :
              /\ Ends[p] # NoChunks
              /\ Points' = [Points EXCEPT ![Ends[p].in] = Points[Ends[p].in] \cup A]
              /\ Ends' \in {Ends, [Ends EXCEPT ![p] = NoChunks]}
              => Replacement!Add(p)
         /\ /\ Ends[p] # NoChunks /\ Ends[p].chunks \subseteq Points[Ends[p].in]
            /\ Points' = [Points EXCEPT ![Ends[p].in] =
                 {c \in Points[Ends[p].in] : DocOf[c] = Ends[p].doc => c \in Ends[p].chunks}]
            /\ Ends' = [Ends EXCEPT ![p] = NoChunks] /\ Ends'[p] = NoChunks
            => Replacement!Trim(p)
<1>1. \A g \in Replacement!Goals :
        (\A c \in g.chunks : DocOf[c] = g.doc) /\ Ends' = [Ends EXCEPT ![p] = g] /\ Points' = Points
           => Replacement!Begin(p)
  BY DEF Replacement!Begin, Ends, Points
<1>2. Ends' = [Ends EXCEPT ![p] = NoChunks] /\ Points' = Points => Replacement!Abandon(p)
  BY DEF Replacement!Abandon, Ends, Points
<1>3. \A A \in SUBSET Ends[p].chunks :
        /\ Ends[p] # NoChunks
        /\ Points' = [Points EXCEPT ![Ends[p].in] = Points[Ends[p].in] \cup A]
        /\ Ends' \in {Ends, [Ends EXCEPT ![p] = NoChunks]}
        => Replacement!Add(p)
  BY DEF Replacement!Add, Replacement!Leave, Ends, Points
<1>4. /\ Ends[p] # NoChunks /\ Ends[p].chunks \subseteq Points[Ends[p].in]
      /\ Points' = [Points EXCEPT ![Ends[p].in] =
           {c \in Points[Ends[p].in] : DocOf[c] = Ends[p].doc => c \in Ends[p].chunks}]
      /\ Ends' = [Ends EXCEPT ![p] = NoChunks] /\ Ends'[p] = NoChunks
      => Replacement!Trim(p)
  BY DEF Replacement!Trim, Replacement!Leave, Ends, Points
<1>5. QED
  BY <1>1, <1>2, <1>3, <1>4

LEMMA StepReplaces ==
  ASSUME OneCorpus, ReplaceInv, NEW p \in Operators, StepOf(p) PROVE Replacement!RNext
<1>1. TypeOK /\ IndexInv /\ Ends' = [Ends EXCEPT ![p] = Ends'[p]]
  BY EndsMove DEF ReplaceInv, IndexInv
<1>2. SUFFICES Replacement!Begin(p) \/ Replacement!Abandon(p) \/ Replacement!Add(p)
               \/ Replacement!Trim(p)
  BY DEF Replacement!RNext
<1>3. ASSUME pc[p] \in {"upsert", "trim"}
      PROVE  /\ Ends[p] = Goal(p) /\ Goal(p) # NoChunks /\ Goal(p).in = Name(p)
             /\ Goal(p).doc = Manual(p) /\ Goal(p).chunks = NewChunks(p)
             /\ Points[Name(p)] = store[Name(p)].points /\ Name(p) \in Collections
             /\ Replacing(p)
  <2>1. doc[p] # 0
    BY <1>1, <1>3 DEF TypeOK
  <2>2. QED
    BY <1>1, <1>3, <2>1, GoalIsGoal, NameIsCollection
       DEF Ends, Goal, Points, ReplaceInv, ReplacementsAreWhole
<1>4. ASSUME pc'[p] \notin {"upsert", "trim"} PROVE Ends' = [Ends EXCEPT ![p] = NoChunks]
  BY <1>1, <1>4 DEF Ends
<1>5. ASSUME pc[p] = "upsert", NEW b \in Batches(p), store' = Upserted(p, b)
      PROVE  /\ b \in SUBSET NewChunks(p)
             /\ Points' = [Points EXCEPT ![Name(p)] = Points[Name(p)] \cup b]
  <2>1. b \in SUBSET NewChunks(p) /\ b \in SUBSET Chunks
    BY <1>1, <1>3, <1>5, BatchOfChunks DEF Batches, Replacing
  <2>2. \A n \in Collections :
          store'[n].points = IF n = Name(p) THEN store[n].points \cup b ELSE store[n].points
    BY <1>1, <1>5, <2>1, UpsertedPoints
  <2>3. QED
    BY <2>1, <2>2 DEF Points
<1>6. CASE Scroll(p)
  <2>1. /\ pc'[p] = "upsert" /\ Name(p)' = Name(p) /\ Manual(p)' = Manual(p)
        /\ NewChunks(p)' = NewChunks(p) /\ Points' = Points /\ doc[p] # 0
    BY <1>1, <1>6 DEF TypeOK, Scroll, Goto, Name, Manual, NewChunks, Points
  <2>2. Ends'[p] = Goal(p)
    BY <2>1 DEF Ends, Goal
  <2>3. Goal(p) \in Replacement!Goals /\ \A c \in Goal(p).chunks : DocOf[c] = Goal(p).doc
    BY <1>1, <2>1, GoalIsGoal DEF Goal
  <2>4. QED
    BY <1>1, <2>1, <2>2, <2>3, ReplacementSteps
<1>7. CASE Upsert(p)
  <2>1. PICK b \in Batches(p) : store' = Upserted(p, b) /\ pc[p] = "upsert"
    BY <1>7 DEF Upsert
  <2>2. /\ pc'[p] \in {"upsert", "trim"} /\ Name(p)' = Name(p) /\ Manual(p)' = Manual(p)
        /\ NewChunks(p)' = NewChunks(p)
    BY <1>1, <1>7 DEF TypeOK, Upsert, Goto, Name, Manual, NewChunks
  <2>3. Ends'[p] = Goal(p)
    BY <2>2 DEF Ends, Goal
  <2>4. Ends' = Ends
    BY <1>1, <1>3, <2>1, <2>3 DEF Ends
  <2>5. QED
    BY <1>3, <1>5, <2>1, <2>4, ReplacementSteps
<1>8. CASE pc'[p] \notin {"upsert", "trim"}
  <2>1. CASE \A n \in Collections : store'[n].points = store[n].points
    BY <1>4, <1>8, <2>1, ReplacementSteps DEF Points
  <2>2. CASE pc[p] = "upsert" /\ \E b \in Batches(p) : store' = Upserted(p, b)
    BY <1>3, <1>4, <1>5, <1>8, <2>2, ReplacementSteps
  <2>3. CASE pc[p] = "trim" /\ store' = Trimmed(p)
    <3>1. NewChunks(p) \subseteq Points[Name(p)]
      BY <1>3, <2>3 DEF Replacing
    <3>2. \A n \in Collections :
            store'[n].points = IF n = Name(p) THEN store[n].points \ Stale(p) ELSE store[n].points
      BY <1>1, <2>3, TrimmedPoints
    <3>3. store[Name(p)].points \ Stale(p)
            = {c \in store[Name(p)].points : DocOf[c] = Manual(p) => c \in NewChunks(p)}
      BY <1>1, <1>3, <2>3 DEF Replacing, Stale, OfDoc, IndexInv, DeletesOwnManual
    <3>4. Points' = [Points EXCEPT ![Name(p)] =
            {c \in Points[Name(p)] : DocOf[c] = Manual(p) => c \in NewChunks(p)}]
      BY <1>3, <2>3, <3>2, <3>3 DEF Points
    <3>5. Ends'[p] = NoChunks
      BY <1>8 DEF Ends
    <3>6. QED
      BY <1>3, <1>4, <1>8, <2>3, <3>1, <3>4, <3>5, ReplacementSteps
  <2>4. QED
    BY <1>1, <2>1, <2>2, <2>3, PointSteps
<1>9. QED
  BY <1>1, <1>6, <1>7, <1>8, OwnStep

\* Operators of one corpus keep what DocumentReplacement promises: a manual is
\* replaced in every collection by adding, and trimmed when its new version is
\* complete, however their calls interleave and fail.
THEOREM DocumentsAreReplaced == OneCorpus /\ Spec => ReplacesDocuments
<1>1. SUFFICES ASSUME OneCorpus PROVE Spec => ReplacesDocuments
  OBVIOUS
<1>2. Init => Replacement!RInit
  <2>1. SUFFICES ASSUME Init PROVE Replacement!RInit
    OBVIOUS
  <2>2. TypeOK /\ \A p \in Operators : pc[p] = "idle"
    <3>1. TypeOK
      BY <2>1, InitIndex DEF IndexInv
    <3>2. \A p \in Operators : pc[p] = "idle"
      BY <2>1 DEF Init
    <3>3. QED
      BY <3>1, <3>2
  <2>3. [n \in Collections |-> store[n].points] \in [Collections -> SUBSET Chunks]
    BY <2>2 DEF TypeOK, Contents
  <2>4. QED
    BY <2>2, <2>3 DEF Replacement!RInit
<1>3. ReplaceInv /\ [Next]_vars => [Replacement!RNext]_Replacement!rvars
  <2>1. CASE UNCHANGED vars
    BY <2>1 DEF vars, locals, Replacement!rvars, Name, Manual, NewChunks
  <2>2. ASSUME ReplaceInv, NEW p \in Operators, StepOf(p) PROVE Replacement!RNext
    BY <1>1, <2>2, StepReplaces
  <2>3. QED
    BY <2>1, <2>2 DEF Next, StepOf
<1>4. QED
  BY <1>1, <1>2, <1>3, ReplaceInvariant, PTL DEF Spec, ReplacesDocuments, Replacement!RSpec

(***************************************************************************)
(* What a pass means, when all operators also name the same collections    *)
(***************************************************************************)
Indexing == {"embed", "ensure", "keyword", "scroll", "upsert", "trim"}
Indexed  == {"verify", "manifest", "passed"}

SparseHasPoint == \A n \in Collections : store[n].sparse \subseteq store[n].points

CorpusIsLoaded ==
  \A p \in Operators : pc[p] \in Indexing \cup Indexed \cup {"protect"} =>
    \A c \in corpus[p] : DocOf[c] \in Manuals

BeginsDense == \A p \in Operators : pc[p] \in {"load", "protect"} => side[p] = "dense"

PassedTargetsAreSafe == \A p \in Operators : Underway(p) => TargetsSafe(target[p])

\* The manuals that this pass of p has finished on a side.
Finished(p, s) ==
  {i \in DOMAIN DocOrder :
     \/ pc[p] \in Indexed
     \/ /\ pc[p] \in Indexing
        /\ i < doc[p] \/ (i = doc[p] /\ s = "dense" /\ side[p] = "hybrid")}

Has(p, s, C) ==
  /\ C \subseteq store[target[p][s]].points
  /\ s = "hybrid" => C \subseteq store[target[p][s]].sparse

FinishedIsThere ==
  \A p \in Operators : \A s \in Sides : \A i \in Finished(p, s) :
    Has(p, s, OfDoc(corpus[p], DocOrder[i]))

UpsertedIsThere ==
  \A p \in Operators : pc[p] \in {"upsert", "trim"} => Has(p, side[p], NewChunks(p) \ pending[p])

IndexIsThere ==
  \A p \in Operators :
    \/ pc[p] \in {"scroll", "upsert", "trim"} /\ side[p] = "hybrid"
    \/ 1 \in Finished(p, "hybrid")
    => store[target[p]["hybrid"]].keyword

\* The total of a side is compared first; what it was then, it stays.
Counted(p, s) ==
  \/ pc[p] \in {"manifest", "passed"}
  \/ /\ pc[p] = "verify"
     /\ doc[p] > 0 \/ side[p] = "hybrid"
     /\ s = "hybrid" => doc[p] > 0 /\ side[p] = "hybrid"

CountedIsExact ==
  \A p \in Operators : \A s \in Sides :
    Counted(p, s) => store[target[p][s]].points = corpus[p]

ManifestIsCorpus == \A p \in Operators : pc[p] = "passed" => manifest = corpus[p]

AgreeInv ==
  /\ ReplaceInv
  /\ SparseHasPoint /\ CorpusIsLoaded /\ BeginsDense /\ PassedTargetsAreSafe
  /\ FinishedIsThere /\ UpsertedIsThere /\ IndexIsThere /\ CountedIsExact /\ ManifestIsCorpus

Alike == OneCorpus /\ OneTarget

LEMMA CommonTarget ==
  ASSUME Alike, TypeOK, NEW p \in Operators, NEW q \in Operators
  PROVE  target[p] = target[q] /\ target[p] \in Targets
BY DEF Alike, OneTarget, TypeOK

LEMMA NameOfTarget ==
  ASSUME TypeOK, NEW p \in Operators, NEW s \in Sides
  PROVE  target[p][s] \in Collections /\ side[p] \in Sides /\ Name(p) = target[p][side[p]]
BY IndexingAssumption DEF TypeOK, Name

(***************************************************************************)
(* What a call does to keywords and sparse vectors                         *)
(***************************************************************************)
LEMMA KeywordsStay ==
  ASSUME IndexInv, NEW p \in Operators, StepOf(p), NEW n \in Collections, store[n].keyword
  PROVE  store'[n].keyword
<1>1. TypeOK
  BY DEF IndexInv
<1>2. \/ store' = store \/ store' \in {Created(p), Keyword(p), Trimmed(p)}
      \/ \E b \in Batches(p) : store' = Upserted(p, b)
  BY DEF StepOf, Start, Advance, Load, VerifyProtected, Embed, Ensure, CreatePayloadIndex,
     Scroll, Upsert, Trim, Verify, VerifyFails, WriteManifest, Fail, FailAfterEffect
<1>3. QED
  BY <1>1, <1>2, NameIsCollection
     DEF TypeOK, Contents, Created, Keyword, Trimmed, Upserted

LEMMA UpsertedSparse ==
  ASSUME TypeOK, NEW p \in Operators, NEW b \in SUBSET Chunks
  PROVE  \A n \in Collections :
           Upserted(p, b)[n].sparse =
             IF n # Name(p) THEN store[n].sparse
             ELSE IF side[p] = "hybrid" THEN store[n].sparse \cup b ELSE store[n].sparse \ b
BY NameIsCollection DEF TypeOK, Upserted, Contents

LEMMA TrimmedSparse ==
  ASSUME TypeOK, NEW p \in Operators
  PROVE  \A n \in Collections :
           Trimmed(p)[n].sparse = IF n = Name(p) THEN store[n].sparse \ Stale(p) ELSE store[n].sparse
BY NameIsCollection DEF TypeOK, Trimmed, Contents

LEMMA SparseSteps ==
  ASSUME IndexInv, NEW p \in Operators, StepOf(p)
  PROVE  \/ \A n \in Collections : store'[n].sparse = store[n].sparse
                                   /\ store'[n].points = store[n].points
         \/ pc[p] = "upsert" /\ \E b \in Batches(p) : store' = Upserted(p, b)
         \/ pc[p] = "trim" /\ store' = Trimmed(p)
<1>1. TypeOK
  BY DEF IndexInv
<1>2. \A n \in Collections :
        /\ Created(p)[n].sparse = store[n].sparse /\ Keyword(p)[n].sparse = store[n].sparse
        /\ Created(p)[n].points = store[n].points /\ Keyword(p)[n].points = store[n].points
  BY <1>1, NameIsCollection DEF TypeOK, Contents, Created, Keyword
<1>3. \/ store' = store \/ store' \in {Created(p), Keyword(p)}
      \/ pc[p] = "upsert" /\ \E b \in Batches(p) : store' = Upserted(p, b)
      \/ pc[p] = "trim" /\ store' = Trimmed(p)
  BY DEF StepOf, Start, Advance, Load, VerifyProtected, Embed, Ensure, CreatePayloadIndex,
     Scroll, Upsert, Trim, Verify, VerifyFails, WriteManifest, Fail, FailAfterEffect
<1>4. QED
  BY <1>2, <1>3

LEMMA SparseStays ==
  ASSUME IndexInv, SparseHasPoint, NEW p \in Operators, StepOf(p) PROVE SparseHasPoint'
<1>1. TypeOK
  BY DEF IndexInv
<1>2. CASE \A n \in Collections : store'[n].sparse = store[n].sparse
                                   /\ store'[n].points = store[n].points
  BY <1>2 DEF SparseHasPoint
<1>3. ASSUME NEW b \in Batches(p), store' = Upserted(p, b) PROVE SparseHasPoint'
  <2>1. b \in SUBSET Chunks
    BY <1>1, BatchOfChunks
  <2>2. \A n \in Collections :
          store'[n].points = IF n = Name(p) THEN store[n].points \cup b ELSE store[n].points
    BY <1>1, <1>3, <2>1, UpsertedPoints
  <2>3. \A n \in Collections :
          store'[n].sparse = IF n # Name(p) THEN store[n].sparse
                             ELSE IF side[p] = "hybrid" THEN store[n].sparse \cup b
                             ELSE store[n].sparse \ b
    BY <1>1, <1>3, <2>1, UpsertedSparse
  <2>4. QED
    BY <2>2, <2>3 DEF SparseHasPoint
<1>4. CASE store' = Trimmed(p)
  BY <1>1, <1>4, TrimmedPoints, TrimmedSparse DEF SparseHasPoint
<1>5. QED
  BY <1>2, <1>3, <1>4, SparseSteps

\* Nobody takes the sparse vector of a chunk of the common corpus.
LEMMA SparseAgrees ==
  ASSUME Alike, AgreeInv, NEW p \in Operators, StepOf(p), NEW C \in Corpora,
         NEW q \in Operators, Underway(q)
  PROVE  store[target[q]["hybrid"]].sparse \cap C \subseteq store'[target[q]["hybrid"]].sparse
<1>1. TypeOK /\ IndexInv /\ ReplaceInv
  BY DEF AgreeInv, ReplaceInv, IndexInv
<1> DEFINE n == target[q]["hybrid"]
<1>2. n \in Collections /\ target[p] = target[q] /\ Name(p) = target[p][side[p]]
      /\ side[p] \in Sides
  BY <1>1, CommonTarget, NameOfTarget DEF Sides
<1>3. side[p] = "dense" => n # Name(p)
  BY <1>2 DEF AgreeInv, PassedTargetsAreSafe, TargetsSafe
<1>4. ASSUME Running(p) PROVE corpus[p] = C
  BY <1>1, <1>4 DEF Alike, OneCorpus, ReplaceInv, CorpusIsGiven, Underway
<1>5. CASE store'[n].sparse = store[n].sparse
  BY <1>5
<1>6. ASSUME pc[p] = "upsert", NEW b \in Batches(p), store' = Upserted(p, b)
      PROVE  store[n].sparse \cap C \subseteq store'[n].sparse
  <2>1. b \in SUBSET Chunks
    BY <1>1, BatchOfChunks
  <2>2. store'[n].sparse = IF n # Name(p) THEN store[n].sparse
                           ELSE IF side[p] = "hybrid" THEN store[n].sparse \cup b
                           ELSE store[n].sparse \ b
    BY <1>1, <1>2, <1>6, <2>1, UpsertedSparse
  <2>3. QED
    BY <1>2, <1>3, <2>2 DEF Sides
<1>7. CASE pc[p] = "trim" /\ store' = Trimmed(p)
  <2>1. \A c \in Stale(p) : c \notin C
    BY <1>1, <1>4, <1>7, StaleIsReplaced DEF Running, Steps
  <2>2. QED
    BY <1>1, <1>2, <1>7, <2>1, TrimmedSparse
<1>8. QED
  BY <1>1, <1>2, <1>5, <1>6, <1>7, SparseSteps

\* So what an operator has, it keeps.
LEMMA HasStays ==
  ASSUME Alike, AgreeInv, NEW p \in Operators, StepOf(p), NEW q \in Operators, Underway(q),
         NEW s \in Sides, NEW S \in SUBSET corpus[q], Has(q, s, S), target'[q] = target[q]
  PROVE  Has(q, s, S)'
<1>1. TypeOK /\ ReplaceInv /\ corpus[q] \in Corpora
  BY DEF AgreeInv, ReplaceInv, IndexInv, CorpusIsGiven
<1>2. store[target[q][s]].points \cap corpus[q] \subseteq store'[target[q][s]].points
  BY <1>1, NameOfTarget, StepAgrees DEF Alike
<1>3. store[target[q]["hybrid"]].sparse \cap corpus[q] \subseteq store'[target[q]["hybrid"]].sparse
  BY <1>1, SparseAgrees
<1>4. QED
  BY <1>2, <1>3 DEF Has

(***************************************************************************)
(* What a step does to the progress of its operator                        *)
(***************************************************************************)
Same(p) == corpus'[p] = corpus[p] /\ target'[p] = target[p]

LEMMA OwnMoves ==
  ASSUME IndexInv, NEW p \in Operators, StepOf(p)
  PROVE  \/ pc'[p] \in {"failed", "rejected"}
         \/ /\ pc'[p] = "load" /\ side'[p] = "dense" /\ TargetsSafe(target'[p])
         \/ /\ pc[p] = "load" /\ pc'[p] = "protect" /\ Same(p) /\ side'[p] = side[p]
            /\ \A c \in corpus[p] : DocOf[c] \in Manuals
         \/ /\ pc[p] = "protect" /\ pc'[p] = "embed" /\ Same(p) /\ side'[p] = side[p]
            /\ doc'[p] = 1
         \/ /\ pc[p] \in Indexing /\ pc'[p] \in Indexing /\ Same(p)
            /\ side'[p] = side[p] /\ doc'[p] = doc[p]
            /\ pc'[p] = "scroll" => pc[p] = "keyword" \/ side[p] = "dense"
            /\ pc[p] = "keyword" => store'[Name(p)].keyword
            /\ pc'[p] \in {"upsert", "trim"} => pc[p] \in {"scroll", "upsert"}
         \/ Trim(p) /\ Same(p)
         \/ Verify(p) /\ Same(p)
         \/ /\ pc[p] = "manifest" /\ pc'[p] = "passed" /\ Same(p) /\ manifest' = corpus[p]
            /\ side'[p] = side[p] /\ doc'[p] = doc[p]
<1>1. TypeOK /\ Name(p) \in Collections
  BY NameIsCollection DEF IndexInv
<1>2. CASE Start(p)
  BY <1>1, <1>2 DEF TypeOK, Start, Goto, Set
<1>3. CASE Exit(p)
  BY <1>1, <1>3 DEF TypeOK, Exit, Goto
<1>4. CASE Load(p) /\ ~Exit(p)
  BY <1>1, <1>4 DEF TypeOK, Load, Goto, locals, Same
<1>5. CASE VerifyProtected(p) /\ ~Exit(p)
  BY <1>1, <1>5 DEF TypeOK, VerifyProtected, Goto, Set, Same
<1>6. CASE Embed(p) \/ (Ensure(p) /\ ~Exit(p)) \/ Scroll(p)
  BY <1>1, <1>6 DEF TypeOK, Embed, Ensure, Scroll, Goto, Set, locals, Same, Indexing
<1>7. CASE CreatePayloadIndex(p)
  <2>1. store'[Name(p)].keyword
    BY <1>1, <1>7 DEF TypeOK, CreatePayloadIndex, Keyword, Contents
  <2>2. QED
    BY <1>1, <1>7, <2>1 DEF TypeOK, CreatePayloadIndex, Goto, locals, Same, Indexing
<1>8. CASE Upsert(p)
  BY <1>1, <1>8 DEF TypeOK, Upsert, Goto, Same, Indexing
<1>9. CASE Trim(p) \/ Verify(p)
  BY <1>9 DEF Trim, Verify, Same
<1>10. CASE WriteManifest(p)
  BY <1>1, <1>10 DEF TypeOK, WriteManifest, Goto, locals, Same
<1>11. QED
  BY <1>2, <1>3, <1>4, <1>5, <1>6, <1>7, <1>8, <1>9, <1>10
     DEF StepOf, Advance, VerifyFails, Fail, FailAfterEffect

LEMMA TrimMoves ==
  ASSUME TypeOK, NEW p \in Operators, Trim(p)
  PROVE  /\ pc[p] = "trim" /\ doc[p] \in DOMAIN DocOrder
         /\ \/ side[p] = "dense" /\ side'[p] = "hybrid" /\ doc'[p] = doc[p] /\ pc'[p] = "embed"
            \/ /\ side[p] = "hybrid" /\ side'[p] = "dense"
               /\ \/ doc'[p] = doc[p] + 1 /\ pc'[p] = "embed"
                  \/ doc[p] = Len(DocOrder) /\ doc'[p] = 0 /\ pc'[p] = "verify"
<1>1. /\ doc[p] \in 0..Len(DocOrder) /\ doc[p] # 0 /\ Len(DocOrder) \in Nat
      /\ DOMAIN DocOrder = 1..Len(DocOrder) /\ side[p] \in {"dense", "hybrid"}
  BY IndexingAssumption DEF TypeOK, Trim, Sides
<1>2. doc[p] \in DOMAIN DocOrder /\ (~(doc[p] < Len(DocOrder)) => doc[p] = Len(DocOrder))
  BY <1>1
<1>3. QED
  BY <1>1, <1>2 DEF TypeOK, Trim, Goto, Set

LEMMA VerifyMoves ==
  ASSUME TypeOK, NEW p \in Operators, Verify(p)
  PROVE  /\ pc[p] = "verify" /\ CheckHolds(p) /\ store' = store
         /\ \/ pc'[p] = "verify" /\ side'[p] = side[p] /\ doc'[p] = doc[p] + 1
            \/ /\ doc[p] = Len(DocOrder) /\ side[p] = "dense"
               /\ pc'[p] = "verify" /\ side'[p] = "hybrid" /\ doc'[p] = 0
            \/ /\ doc[p] = Len(DocOrder) /\ side[p] = "hybrid" /\ side'[p] = "dense"
               /\ \/ pc'[p] = "embed" /\ doc'[p] = 1
                  \/ pc'[p] = "manifest"
<1>1. /\ doc[p] \in 0..Len(DocOrder) /\ Len(DocOrder) \in Nat /\ side[p] \in {"dense", "hybrid"}
  BY IndexingAssumption DEF TypeOK, Sides
<1>2. ~(doc[p] < Len(DocOrder)) => doc[p] = Len(DocOrder)
  BY <1>1
<1>3. QED
  BY <1>1, <1>2 DEF TypeOK, Verify, Goto, Set

\* A step finishes at most the manual it works on, by trimming it.
LEMMA FinishedMoves ==
  ASSUME IndexInv, BeginsDense, NEW p \in Operators, StepOf(p), NEW s \in Sides
  PROVE  \/ Finished(p, s)' = {}
         \/ Same(p) /\ Underway(p) /\ Finished(p, s)' \subseteq Finished(p, s)
         \/ Same(p) /\ Trim(p) /\ s = side[p] /\ Finished(p, s)' \subseteq Finished(p, s) \cup {doc[p]}
<1>1. TypeOK
  BY DEF IndexInv
<1>2. /\ DOMAIN DocOrder \subseteq Nat \ {0} /\ doc[p] \in Nat /\ doc'[p] \in Nat
      /\ \A i \in DOMAIN DocOrder : i <= Len(DocOrder)
  <2>1. TypeOK'
    BY StepIndex DEF StepOf, Next, IndexInv
  <2>2. QED
    BY <1>1, <2>1, IndexingAssumption DEF TypeOK
<1>3. CASE pc'[p] \in {"failed", "rejected", "load", "protect"}
  BY <1>3 DEF Finished, Indexing, Indexed
<1>4. CASE pc[p] = "protect" /\ pc'[p] = "embed" /\ side'[p] = side[p] /\ doc'[p] = 1
  BY <1>2, <1>4 DEF BeginsDense, Finished, Indexing, Indexed
<1>5. CASE /\ pc[p] \in Indexing /\ pc'[p] \in Indexing /\ Same(p)
           /\ side'[p] = side[p] /\ doc'[p] = doc[p]
  BY <1>5 DEF Finished, Indexing, Indexed, Underway, Running, Steps
<1>6. CASE Trim(p) /\ Same(p)
  BY <1>1, <1>2, <1>6, TrimMoves DEF Finished, Indexing, Indexed, Underway, Running, Steps, Sides
<1>7. CASE Verify(p) /\ Same(p)
  BY <1>1, <1>2, <1>7, VerifyMoves DEF Finished, Indexing, Indexed, Underway, Running, Steps
<1>8. CASE pc[p] = "manifest" /\ pc'[p] = "passed" /\ Same(p)
  BY <1>8 DEF Finished, Indexed, Underway, Running, Steps
<1>9. QED
  BY <1>3, <1>4, <1>5, <1>6, <1>7, <1>8, OwnMoves

(***************************************************************************)
(* Every step keeps the parts of the invariant                             *)
(***************************************************************************)
LEMMA LocalsStay ==
  ASSUME AgreeInv, NEW p \in Operators, StepOf(p)
  PROVE  CorpusIsLoaded' /\ BeginsDense' /\ PassedTargetsAreSafe'
<1>1. IndexInv /\ TypeOK
  BY DEF AgreeInv, ReplaceInv, IndexInv
<1>2. ASSUME NEW q \in Operators \ {p}
      PROVE  pc'[q] = pc[q] /\ corpus'[q] = corpus[q] /\ side'[q] = side[q] /\ target'[q] = target[q]
  BY <1>1, StepOfOthers
<1>3. /\ pc'[p] \in Indexing \cup Indexed \cup {"protect"} =>
           \A c \in corpus'[p] : DocOf[c] \in Manuals
      /\ pc'[p] \in {"load", "protect"} => side'[p] = "dense"
      /\ Underway(p)' => TargetsSafe(target'[p])
  <2>1. CASE pc'[p] \in {"failed", "rejected"}
    BY <2>1 DEF Indexing, Indexed, Underway, Running, Steps
  <2>2. CASE pc'[p] = "load" /\ side'[p] = "dense" /\ TargetsSafe(target'[p])
    BY <2>2 DEF Indexing, Indexed
  <2>3. CASE /\ pc[p] = "load" /\ pc'[p] = "protect" /\ Same(p) /\ side'[p] = side[p]
             /\ \A c \in corpus[p] : DocOf[c] \in Manuals
    BY <2>3 DEF AgreeInv, BeginsDense, PassedTargetsAreSafe, Same, Underway, Running, Steps
  <2>4. CASE /\ pc[p] \in Indexing \cup {"protect", "verify", "manifest"}
             /\ pc'[p] \in Indexing \cup Indexed /\ Same(p)
    BY <2>4 DEF AgreeInv, CorpusIsLoaded, PassedTargetsAreSafe, Same, Underway, Running, Steps,
                Indexing, Indexed
  <2>5. CASE (Trim(p) \/ Verify(p)) /\ Same(p)
    BY <1>1, <2>4, <2>5, TrimMoves, VerifyMoves DEF Indexing, Indexed
  <2>6. QED
    BY <1>1, <2>1, <2>2, <2>3, <2>4, <2>5, OwnMoves DEF Indexing, Indexed
<1>4. QED
  BY <1>2, <1>3 DEF AgreeInv, CorpusIsLoaded, BeginsDense, PassedTargetsAreSafe, Underway, Running

\* At the deletion of the stale points the manual is complete.
LEMMA TrimHas ==
  ASSUME AgreeInv, NEW p \in Operators, Trim(p)
  PROVE  Has(p, side[p], OfDoc(corpus[p], DocOrder[doc[p]]))
<1>1. pc[p] = "trim" /\ NewChunks(p) = OfDoc(corpus[p], DocOrder[doc[p]])
  BY DEF Trim, NewChunks, Manual
<1>2. pending[p] = {}
  BY <1>1 DEF AgreeInv, ReplaceInv, ReplacementsAreWhole, Replacing
<1>3. QED
  BY <1>1, <1>2 DEF AgreeInv, UpsertedIsThere, Has

LEMMA FinishedStays ==
  ASSUME Alike, AgreeInv, NEW p \in Operators, StepOf(p) PROVE FinishedIsThere'
<1>1. IndexInv /\ TypeOK /\ BeginsDense
  BY DEF AgreeInv, ReplaceInv, IndexInv
<1>2. ASSUME NEW q \in Operators, NEW s \in Sides, NEW i \in Finished(q, s)'
      PROVE  Has(q, s, OfDoc(corpus[q], DocOrder[i]))'
  <2>1. CASE q # p
    <3>1. /\ corpus'[q] = corpus[q] /\ target'[q] = target[q]
          /\ i \in Finished(q, s) /\ Underway(q)
      BY <1>1, <1>2, <2>1, StepOfOthers DEF Finished, Underway, Running, Steps, Indexing, Indexed
    <3>2. Has(q, s, OfDoc(corpus[q], DocOrder[i])) /\ OfDoc(corpus[q], DocOrder[i]) \subseteq corpus[q]
      BY <3>1 DEF AgreeInv, FinishedIsThere, OfDoc
    <3>3. \A S \in SUBSET corpus[q] : Has(q, s, S) => Has(q, s, S)'
      BY <3>1, HasStays
    <3>4. QED
      BY <3>1, <3>2, <3>3 DEF Has, OfDoc
  <2>2. CASE q = p
    <3>1. /\ corpus'[p] = corpus[p] /\ target'[p] = target[p] /\ Underway(p)
          /\ \/ i \in Finished(p, s)
             \/ Trim(p) /\ s = side[p] /\ i = doc[p]
      BY <1>1, <1>2, <2>2, FinishedMoves DEF Same, Trim, Underway, Running, Steps
    <3>2. Has(p, s, OfDoc(corpus[p], DocOrder[i])) /\ OfDoc(corpus[p], DocOrder[i]) \subseteq corpus[p]
      BY <3>1, TrimHas DEF AgreeInv, FinishedIsThere, OfDoc
    <3>3. \A S \in SUBSET corpus[p] : Has(p, s, S) => Has(p, s, S)'
      BY <3>1, HasStays
    <3>4. QED
      BY <2>2, <3>1, <3>2, <3>3 DEF Has, OfDoc
  <2>3. QED
    BY <2>1, <2>2
<1>3. QED
  BY <1>2 DEF FinishedIsThere

LEMMA UpsertedStays ==
  ASSUME Alike, AgreeInv, ReplaceInv', NEW p \in Operators, StepOf(p) PROVE UpsertedIsThere'
<1>1. IndexInv /\ TypeOK /\ ReplaceInv
  BY DEF AgreeInv, ReplaceInv, IndexInv
<1>2. ASSUME NEW q \in Operators, pc'[q] \in {"upsert", "trim"}
      PROVE  Has(q, side[q], NewChunks(q) \ pending[q])'
  <2>1. CASE q # p
    <3>1. /\ pc'[q] = pc[q] /\ pending'[q] = pending[q] /\ side'[q] = side[q]
          /\ target'[q] = target[q] /\ NewChunks(q)' = NewChunks(q) /\ side[q] \in Sides
      BY <1>1, <2>1, StepOfOthers, NameOfTarget DEF NewChunks, Manual, TypeOK
    <3>2. /\ Has(q, side[q], NewChunks(q) \ pending[q]) /\ Underway(q)
          /\ NewChunks(q) \ pending[q] \subseteq corpus[q]
      BY <1>2, <3>1, NewChunksOfCorpus DEF AgreeInv, UpsertedIsThere, Underway, Running, Steps
    <3>3. \A S \in SUBSET corpus[q] : Has(q, side[q], S) => Has(q, side[q], S)'
      <4>1. \A s \in Sides : \A S \in SUBSET corpus[q] : Has(q, s, S) => Has(q, s, S)'
        BY <3>1, <3>2, HasStays
      <4>2. QED
        BY <3>1, <4>1 DEF Has
    <3>4. QED
      BY <3>1, <3>2, <3>3 DEF Has
  <2>2. CASE q = p /\ Scroll(p)
    <3>1. NewChunks(p)' \ pending'[p] = {}
      BY <1>1, <2>2 DEF TypeOK, Scroll, Set, NewChunks, Manual
    <3>2. QED
      BY <2>2, <3>1 DEF Has
  <2>3. CASE q = p /\ Upsert(p)
    <3>1. PICK b \in Batches(p) :
            /\ store' = Upserted(p, b) /\ pending' = [pending EXCEPT ![p] = pending[p] \ b]
            /\ pc[p] = "upsert"
            /\ UNCHANGED <<corpus, target, side, doc>>
      BY <2>3 DEF Upsert, Set
    <3>2. b \in SUBSET Chunks /\ Name(p) \in Collections /\ Name(p) = target[p][side[p]]
          /\ NewChunks(p)' = NewChunks(p) /\ pending'[p] = pending[p] \ b
      BY <1>1, <3>1, BatchOfChunks, NameIsCollection DEF Name, NewChunks, Manual, TypeOK
    <3>3. Has(p, side[p], NewChunks(p) \ pending[p])
      BY <3>1 DEF AgreeInv, UpsertedIsThere
    <3>4. store'[Name(p)].points = store[Name(p)].points \cup b
      BY <1>1, <3>1, <3>2, UpsertedPoints
    <3>5. side[p] = "hybrid" => store'[Name(p)].sparse = store[Name(p)].sparse \cup b
      BY <1>1, <3>1, <3>2, UpsertedSparse
    <3>6. Has(p, side[p], NewChunks(p) \ (pending[p] \ b))'
      BY <3>1, <3>2, <3>3, <3>4, <3>5 DEF Has
    <3>7. QED
      BY <2>3, <3>1, <3>2, <3>6 DEF Has
  <2>4. QED
    BY <1>1, <1>2, <2>1, <2>2, <2>3, OwnStep
<1>3. QED
  BY <1>2 DEF UpsertedIsThere

LEMMA IndexStays ==
  ASSUME AgreeInv, NEW p \in Operators, StepOf(p) PROVE IndexIsThere'
<1>1. IndexInv /\ TypeOK /\ BeginsDense /\ "hybrid" \in Sides
  BY DEF AgreeInv, ReplaceInv, IndexInv, Sides
<1> DEFINE Wanted(q) == \/ pc[q] \in {"scroll", "upsert", "trim"} /\ side[q] = "hybrid"
                       \/ 1 \in Finished(q, "hybrid")
<1>2. \A q \in Operators : Wanted(q) => store[target[q]["hybrid"]].keyword
  BY DEF AgreeInv, IndexIsThere
<1>3. \A q \in Operators : target[q]["hybrid"] \in Collections
  BY <1>1, NameOfTarget
<1>4. \A n \in Collections : store[n].keyword => store'[n].keyword
  BY <1>1, KeywordsStay
<1>5. ASSUME NEW q \in Operators, Wanted(q)' PROVE store'[target'[q]["hybrid"]].keyword
  <2>1. CASE q # p
    <3>1. Wanted(q) /\ target'[q] = target[q]
      BY <1>1, <1>5, <2>1, StepOfOthers DEF Finished
    <3>2. QED
      BY <1>2, <1>3, <1>4, <3>1
  <2>2. CASE q = p
    <3>1. CASE pc'[p] \in {"scroll", "upsert", "trim"} /\ side'[p] = "hybrid"
      <4>1. /\ Same(p) /\ side[p] = "hybrid"
            /\ pc[p] \in {"scroll", "upsert"} \/ store'[Name(p)].keyword
        <5>1. ~Trim(p) /\ ~Verify(p)
          BY <1>1, <3>1, TrimMoves, VerifyMoves
        <5>2. QED
          BY <1>1, <3>1, <5>1, OwnMoves DEF Sides
      <4>2. Name(p) = target[p]["hybrid"]
        BY <1>1, <4>1, NameOfTarget
      <4>3. QED
        BY <1>2, <1>3, <1>4, <2>2, <4>1, <4>2 DEF Same
    <3>2. CASE 1 \in Finished(p, "hybrid")'
      <4>1. Same(p) /\ Wanted(p)
        BY <1>1, <3>2, FinishedMoves DEF Trim
      <4>2. QED
        BY <1>2, <1>3, <1>4, <2>2, <4>1 DEF Same
    <3>3. QED
      BY <1>5, <2>2, <3>1, <3>2
  <2>3. QED
    BY <2>1, <2>2
<1>6. QED
  BY <1>5 DEF IndexIsThere

\* A total that is right means the points are right: the corpus is among them.
LEMMA CountIsExact ==
  ASSUME AgreeInv, NEW p \in Operators, pc[p] = "verify", doc[p] = 0, CheckHolds(p)
  PROVE  store[target[p][side[p]]].points = corpus[p]
<1>1. TypeOK /\ corpus[p] \in SUBSET Chunks /\ side[p] \in Sides
  BY DEF AgreeInv, ReplaceInv, IndexInv, TypeOK
<1> DEFINE points == store[target[p][side[p]]].points
<1>2. points = store[Name(p)].points /\ points \in SUBSET Chunks
  BY <1>1, NameIsCollection DEF Name, TypeOK, Contents
<1>3. Cardinality(points) = Cardinality(corpus[p])
  BY <1>2 DEF CheckHolds
<1>4. ASSUME NEW c \in corpus[p] PROVE c \in points
  <2>1. PICK i \in DOMAIN DocOrder : DocOf[c] = DocOrder[i]
    BY <1>4 DEF AgreeInv, CorpusIsLoaded, Indexed, Manuals
  <2>2. i \in Finished(p, side[p])
    BY DEF Finished, Indexed
  <2>3. Has(p, side[p], OfDoc(corpus[p], DocOrder[i]))
    BY <1>1, <2>2 DEF AgreeInv, FinishedIsThere
  <2>4. QED
    BY <2>1, <2>3 DEF Has, OfDoc
<1>5. IsFiniteSet(points)
  BY <1>2, IndexingAssumption, FS_Subset
<1> HIDE DEF points
<1>6. corpus[p] \subseteq points
  BY <1>4
<1>7. corpus[p] = points
  BY <1>3, <1>5, <1>6, FS_Subset
<1>8. QED
  BY <1>7 DEF points

LEMMA CountedStays ==
  ASSUME Alike, AgreeInv, NEW p \in Operators, StepOf(p) PROVE CountedIsExact'
<1>1. IndexInv /\ TypeOK /\ ReplaceInv
  BY DEF AgreeInv, ReplaceInv, IndexInv
\* What is exact stays exact.
<1>2. ASSUME NEW q \in Operators, NEW s \in Sides, Underway(q),
             store[target[q][s]].points = corpus[q],
             corpus'[q] = corpus[q], target'[q] = target[q]
      PROVE  store'[target'[q][s]].points = corpus'[q]
  <2>1. corpus[q] \in Corpora /\ target[q][s] \in Collections
    BY <1>1, <1>2, NameOfTarget DEF ReplaceInv, CorpusIsGiven
  <2>2. /\ store[target[q][s]].points \cap corpus[q] \subseteq store'[target[q][s]].points
        /\ store'[target[q][s]].points \subseteq store[target[q][s]].points \cup corpus[q]
    BY <1>1, <2>1, StepAgrees DEF Alike
  <2>3. store'[target[q][s]].points = corpus[q]
    BY <1>2, <2>2
  <2>4. store'[target'[q][s]].points = corpus[q]
    BY <1>2, <2>3
  <2>5. QED
    BY <1>2, <2>4
<1>3. ASSUME NEW q \in Operators \ {p}, NEW s \in Sides, Counted(q, s)'
      PROVE  store'[target'[q][s]].points = corpus'[q]
  <2>1. Counted(q, s) /\ corpus'[q] = corpus[q] /\ target'[q] = target[q]
    BY <1>1, <1>3, StepOfOthers DEF Counted
  <2>2. store[target[q][s]].points = corpus[q] /\ Underway(q)
    BY <2>1 DEF AgreeInv, CountedIsExact, Counted, Underway, Running, Steps
  <2>3. QED
    BY <1>2, <2>1, <2>2
<1>4. ASSUME NEW s \in Sides, Counted(p, s)'
      PROVE  store'[target'[p][s]].points = corpus'[p]
  <2>1. pc'[p] \in {"verify", "manifest", "passed"}
    BY <1>4 DEF Counted
  <2>2. CASE pc[p] = "manifest" /\ Same(p)
    BY <1>2, <2>2 DEF AgreeInv, CountedIsExact, Counted, Same, Underway, Running, Steps
  <2>3. CASE Trim(p)
    <3>1. pc'[p] = "verify" /\ doc'[p] = 0 /\ side'[p] = "dense"
      BY <1>1, <2>1, <2>3, TrimMoves
    <3>2. QED
      BY <1>4, <3>1 DEF Counted
  <2>4. CASE Verify(p) /\ Same(p)
    <3>1. pc[p] = "verify" /\ CheckHolds(p) /\ Underway(p) /\ side[p] \in Sides /\ doc[p] \in Nat
          /\ Len(DocOrder) \in Nat \ {0}
      BY <1>1, <2>4, VerifyMoves, IndexingAssumption DEF Underway, Running, Steps, TypeOK
    <3>2. Counted(p, s) \/ (doc[p] = 0 /\ s = side[p])
      BY <1>1, <1>4, <2>1, <2>4, <3>1, VerifyMoves DEF Counted, Sides
    <3>3. store[target[p][s]].points = corpus[p]
      BY <3>1, <3>2, CountIsExact DEF AgreeInv, CountedIsExact
    <3>4. QED
      BY <1>2, <2>4, <3>1, <3>3 DEF Same
  <2>5. QED
    BY <1>1, <2>1, <2>2, <2>3, <2>4, OwnMoves DEF Indexing
<1>5. QED
  BY <1>3, <1>4 DEF CountedIsExact

LEMMA ManifestStays ==
  ASSUME Alike, AgreeInv, NEW p \in Operators, StepOf(p) PROVE ManifestIsCorpus'
<1>1. IndexInv /\ TypeOK /\ ReplaceInv
  BY DEF AgreeInv, ReplaceInv, IndexInv
<1>2. manifest' = manifest \/ (manifest' = corpus[p] /\ corpus[p] \in Corpora)
  BY <1>1 DEF StepOf, Start, Advance, Load, VerifyProtected, Embed, Ensure, CreatePayloadIndex,
     Scroll, Upsert, Trim, Verify, VerifyFails, WriteManifest, Fail, FailAfterEffect,
     ReplaceInv, CorpusIsGiven, Underway, Running, Steps
<1>3. ASSUME NEW q \in Operators \ {p}, pc'[q] = "passed" PROVE manifest' = corpus'[q]
  <2>1. pc[q] = "passed" /\ corpus'[q] = corpus[q] /\ corpus[q] \in Corpora /\ manifest = corpus[q]
    BY <1>1, <1>3, StepOfOthers
       DEF AgreeInv, ManifestIsCorpus, ReplaceInv, CorpusIsGiven, Underway
  <2>2. QED
    BY <1>2, <2>1 DEF Alike, OneCorpus
<1>4. pc'[p] = "passed" => manifest' = corpus'[p]
  BY <1>1, OwnMoves, TrimMoves, VerifyMoves DEF Same, Indexing
<1>5. QED
  BY <1>3, <1>4 DEF ManifestIsCorpus

LEMMA InitAgree == Init => AgreeInv
<1> SUFFICES ASSUME Init PROVE AgreeInv
  OBVIOUS
<1>1. ReplaceInv
  BY InitReplace
<1>2. SparseHasPoint
  BY StoreAssumption DEF Init, SparseHasPoint
<1>3. \A p \in Operators : pc[p] = "idle"
  BY DEF Init
<1>4. QED
  BY <1>1, <1>2, <1>3
     DEF AgreeInv, CorpusIsLoaded, BeginsDense, PassedTargetsAreSafe, FinishedIsThere, Finished,
         UpsertedIsThere, IndexIsThere, CountedIsExact, Counted, ManifestIsCorpus, Underway, Running,
         Steps, Indexing, Indexed

LEMMA NextAgree == Alike /\ AgreeInv /\ [Next]_vars => AgreeInv'
<1> SUFFICES ASSUME Alike, AgreeInv, [Next]_vars PROVE AgreeInv'
  OBVIOUS
<1>1. ReplaceInv' /\ IndexInv
  BY NextReplace DEF Alike, AgreeInv, ReplaceInv
<1>2. ASSUME NEW p \in Operators, StepOf(p) PROVE AgreeInv'
  <2>1. SparseHasPoint'
    BY <1>1, <1>2, SparseStays DEF AgreeInv
  <2>2. CorpusIsLoaded' /\ BeginsDense' /\ PassedTargetsAreSafe'
    BY <1>2, LocalsStay
  <2>3. FinishedIsThere' /\ UpsertedIsThere'
    BY <1>1, <1>2, FinishedStays, UpsertedStays
  <2>4. IndexIsThere' /\ CountedIsExact' /\ ManifestIsCorpus'
    BY <1>2, IndexStays, CountedStays, ManifestStays
  <2>5. QED
    BY <1>1, <2>1, <2>2, <2>3, <2>4 DEF AgreeInv
<1>3. CASE UNCHANGED vars
  <2>1. /\ SparseHasPoint' /\ CorpusIsLoaded' /\ BeginsDense' /\ PassedTargetsAreSafe'
    BY <1>3 DEF vars, locals, AgreeInv, SparseHasPoint, CorpusIsLoaded, BeginsDense,
                PassedTargetsAreSafe, Underway, Running
  <2>2. \A p \in Operators : \A s : Finished(p, s)' = Finished(p, s) /\ (Counted(p, s)' <=> Counted(p, s))
    BY <1>3 DEF vars, locals, Finished, Counted
  <2>3. FinishedIsThere' /\ UpsertedIsThere'
    BY <1>3, <2>2 DEF vars, locals, AgreeInv, FinishedIsThere, UpsertedIsThere, Has, NewChunks,
                      Manual
  <2>4. IndexIsThere' /\ CountedIsExact' /\ ManifestIsCorpus'
    BY <1>3, <2>2 DEF vars, locals, AgreeInv, IndexIsThere, CountedIsExact, ManifestIsCorpus
  <2>5. QED
    BY <1>1, <2>1, <2>3, <2>4 DEF AgreeInv
<1>4. QED
  BY <1>2, <1>3 DEF Next, StepOf

\* The inductive invariant of operators who index the same corpus into the same
\* collections.
THEOREM AgreeInvariant == Alike /\ Spec => []AgreeInv
<1>1. SUFFICES ASSUME Alike PROVE Spec => []AgreeInv
  OBVIOUS
<1>2. AgreeInv /\ [Next]_vars => AgreeInv'
  BY <1>1, NextAgree
<1>3. QED
  BY <1>2, InitAgree, PTL DEF Spec

\* For them a pass means that both collections are exactly the corpus, with all
\* sparse vectors, the index and the manifest, now and as long as it is the last
\* command of its operator, whatever the others do and wherever they fail.
THEOREM PassIsExact == Alike /\ Spec => []PassMeansExact
<1>1. AgreeInv => PassMeansExact
  <2> SUFFICES ASSUME AgreeInv, NEW p \in Operators, pc[p] = "passed"
               PROVE  /\ manifest = corpus[p]
                      /\ \A s \in Sides : store[target[p][s]].points = corpus[p]
                      /\ store[target[p]["hybrid"]].sparse = corpus[p]
                      /\ store[target[p]["hybrid"]].keyword
    BY DEF PassMeansExact
  <2> DEFINE n == target[p]["hybrid"]
  <2>1. manifest = corpus[p] /\ \A s \in Sides : store[target[p][s]].points = corpus[p]
    BY DEF AgreeInv, ManifestIsCorpus, CountedIsExact, Counted
  <2>2. \A s \in Sides : Finished(p, s) = DOMAIN DocOrder
    BY DEF Finished, Indexed
  <2>3. "hybrid" \in Sides /\ n \in Collections
    BY NameOfTarget DEF AgreeInv, ReplaceInv, IndexInv, Sides
  <2>4. 1 \in DOMAIN DocOrder
    BY IndexingAssumption
  <2>5. store[n].keyword
    BY <2>2, <2>3, <2>4 DEF AgreeInv, IndexIsThere
  <2>6. store[n].sparse \subseteq corpus[p]
    BY <2>1, <2>3 DEF AgreeInv, SparseHasPoint
  <2>7. ASSUME NEW c \in corpus[p] PROVE c \in store[n].sparse
    <3>1. PICK i \in DOMAIN DocOrder : DocOf[c] = DocOrder[i]
      BY <2>7 DEF AgreeInv, CorpusIsLoaded, Indexed, Manuals
    <3>2. Has(p, "hybrid", OfDoc(corpus[p], DocOrder[i]))
      BY <2>2, <2>3 DEF AgreeInv, FinishedIsThere
    <3>3. QED
      BY <3>1, <3>2 DEF Has, OfDoc
  <2>8. QED
    BY <2>1, <2>5, <2>6, <2>7
<1>2. QED
  BY <1>1, AgreeInvariant, PTL
=============================================================================
