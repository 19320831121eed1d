---------------------------- MODULE CorpusIndexing ----------------------------
(***************************************************************************)
(* The index_corpus command: CorpusIndexingService.index_once and          *)
(* verify_index over the dense and the hybrid Qdrant collections           *)
(* (scripts/operations/index_corpus.py, app/application/                   *)
(* indexing_service.py, app/infrastructure/qdrant/dense.py and hybrid.py). *)
(*                                                                         *)
(* Each remote call is one step, so that other operators, readers, a       *)
(* failed call or a killed process can come between any two.  A point is   *)
(* its chunk: the point id is a function of the chunk id (build_point_id)  *)
(* and the chunk id of everything the payload says, so upserting a chunk   *)
(* twice writes the same payload.  Vectors are abstracted to whether the   *)
(* point carries a sparse one.                                             *)
(***************************************************************************)
EXTENDS Integers, Sequences, FiniteSets

CONSTANTS
  Operators,      \* processes that may run the command
  Chunks,         \* chunk identifiers
  DocOf,          \* chunk -> document
  DocOrder,       \* the manuals, in the order they are indexed
  Corpora,        \* contents a frozen chunk file may have
  Collections,    \* collection names
  Protected,      \* PROTECTED_COLLECTIONS: the historical archives
  ArchiveCount,   \* points a protected collection must hold (99 in the code)
  Targets,        \* <<dense, hybrid>> names the command line may give
  InitialStores,  \* states the store may be in before the first command
  BatchSize,      \* embedding_batch_size
  NoChunks,       \* no manifest was written yet
  MaxRuns,        \* bound on the commands started
  MaxFaults       \* bound on failed calls and killed processes

Manuals  == {DocOrder[i] : i \in DOMAIN DocOrder}
Schemas  == {"none", "dense", "hybrid"}
Contents == [schema : Schemas, keyword : BOOLEAN,
             points : SUBSET Chunks, sparse : SUBSET Chunks]
Sides    == {"dense", "hybrid"}

ASSUME IndexingAssumption ==
  /\ IsFiniteSet(Chunks)
  /\ DOMAIN DocOf = Chunks
  /\ DocOrder \in Seq(Manuals) /\ DocOrder # <<>>
  /\ Corpora \subseteq SUBSET Chunks
  /\ Protected \subseteq Collections
  /\ ArchiveCount \in Nat
  /\ Targets \subseteq [Sides -> Collections]
  /\ InitialStores \subseteq [Collections -> Contents]
  /\ BatchSize \in Nat \ {0}
  /\ \A C \in SUBSET Chunks : NoChunks # C
  /\ MaxRuns \in Nat
  /\ MaxFaults \in Nat

\* A sparse vector belongs to a point, and the NoChunks of the refinement is no goal.
ASSUME StoreAssumption ==
  /\ \A st \in InitialStores : \A n \in Collections : st[n].sparse \subseteq st[n].points
  /\ NoChunks \notin [in : Collections, doc : Manuals, chunks : SUBSET Chunks]

VARIABLES
  store,     \* collection -> schema, payload index, points, points with a sparse vector
  pc,        \* operator -> the call it makes next
  corpus,    \* operator -> the chunks it loaded
  target,    \* operator -> side -> collection name
  side,      \* operator -> the collection it works on
  doc,       \* operator -> index of the manual it works on; 0: the total count
  pending,   \* operator -> chunks of the manual not upserted yet
  existing,  \* operator -> point ids scrolled before the replacement
  again,     \* operator -> passes left of --verify-reindex
  manifest,  \* the corpus manifest on disk
  runs,      \* commands started
  faults     \* failures so far

locals == <<corpus, target, side, doc, pending, existing, again>>
vars   == <<store, pc, locals, manifest, runs, faults>>

Steps   == {"load", "protect", "embed", "ensure", "keyword", "scroll", "upsert",
            "trim", "verify", "manifest"}
Stopped == {"idle", "rejected", "failed", "passed"}

Name(p)       == target[p][side[p]]
OfDoc(S, d)   == {c \in S : DocOf[c] = d}
Manual(p)     == DocOrder[doc[p]]
NewChunks(p)  == OfDoc(corpus[p], Manual(p))
Stale_Nothing(p)    == {}
Stale_Everything(p) == existing[p]
Stale(p)      == existing[p] \ NewChunks(p)

Goto(p, step) == pc' = [pc EXCEPT ![p] = step]
Set(f, p, v)  == [f EXCEPT ![p] = v]

\* The process ends: what it held in memory is gone.
Exit(p) ==
  /\ Goto(p, "failed")
  /\ corpus' = Set(corpus, p, {})
  /\ side' = Set(side, p, "dense")
  /\ doc' = Set(doc, p, 0)
  /\ pending' = Set(pending, p, {})
  /\ existing' = Set(existing, p, {})
  /\ again' = Set(again, p, 0)
  /\ UNCHANGED target

Init ==
  /\ store \in InitialStores
  /\ pc = [p \in Operators |-> "idle"]
  /\ corpus = [p \in Operators |-> {}]
  /\ target \in [Operators -> Targets]
  /\ side = [p \in Operators |-> "dense"]
  /\ doc = [p \in Operators |-> 0]
  /\ pending = [p \in Operators |-> {}]
  /\ existing = [p \in Operators |-> {}]
  /\ again = [p \in Operators |-> 0]
  /\ manifest = NoChunks
  /\ runs = 0
  /\ faults = 0

TargetsSafe_DifferOnly(t) == t["dense"] # t["hybrid"]

\* validate_collection_targets
TargetsSafe(t) ==
  /\ \A s \in Sides : t[s] \notin Protected
  /\ t["dense"] # t["hybrid"]

\* The command starts: the target names are checked before anything else.
Start(p) ==
  /\ pc[p] \in Stopped
  /\ runs < MaxRuns
  /\ runs' = runs + 1
  /\ \E C \in Corpora, t \in Targets, n \in 0..1 :
       /\ corpus' = Set(corpus, p, C)
       /\ target' = Set(target, p, t)
       /\ again' = Set(again, p, n)
       /\ Goto(p, IF TargetsSafe(t) THEN "load" ELSE "rejected")
  /\ side' = Set(side, p, "dense")
  /\ doc' = Set(doc, p, 0)
  /\ pending' = Set(pending, p, {})
  /\ existing' = Set(existing, p, {})
  /\ UNCHANGED <<store, manifest, faults>>

\* load_frozen_chunks and validate_chunk_preview: both manuals must have chunks.
Load(p) ==
  /\ pc[p] = "load"
  /\ IF {DocOf[c] : c \in corpus[p]} = Manuals
     THEN Goto(p, "protect") /\ UNCHANGED locals
     ELSE Exit(p)
  /\ UNCHANGED <<store, manifest, runs, faults>>

\* Both archives keep their frozen point count; then the first pass begins.
VerifyProtected(p) ==
  /\ pc[p] = "protect"
  /\ IF \A n \in Protected : Cardinality(store[n].points) = ArchiveCount
     THEN /\ Goto(p, "embed")
          /\ doc' = Set(doc, p, 1)
          /\ UNCHANGED <<corpus, target, side, pending, existing, again>>
     ELSE Exit(p)
  /\ UNCHANGED <<store, manifest, runs, faults>>

\* Every batch of the manual is embedded before the collection is touched.
Embed(p) ==
  /\ pc[p] = "embed"
  /\ Goto(p, "ensure")
  /\ UNCHANGED <<store, locals, manifest, runs, faults>>

\* Create the collection, or validate its vectors: a hybrid collection also
\* defines the named dense vector, a dense one has no sparse vector.
Created(p) ==
  IF store[Name(p)].schema = "none"
  THEN [store EXCEPT ![Name(p)].schema = side[p]] ELSE store

Ensure(p) ==
  /\ pc[p] = "ensure"
  /\ store' = Created(p)
  /\ IF side[p] = "dense" \/ Created(p)[Name(p)].schema = "hybrid"
     THEN /\ Goto(p, IF side[p] = "dense" THEN "scroll" ELSE "keyword")
          /\ UNCHANGED locals
     ELSE Exit(p)
  /\ UNCHANGED <<manifest, runs, faults>>

\* create_payload_index on document_id, on every hybrid run.
Keyword(p) == [store EXCEPT ![Name(p)].keyword = TRUE]

CreatePayloadIndex(p) ==
  /\ pc[p] = "keyword"
  /\ store' = Keyword(p)
  /\ Goto(p, "scroll")
  /\ UNCHANGED <<locals, manifest, runs, faults>>

Scroll_EveryDocument(p) ==
  /\ pc[p] = "scroll"
  /\ existing' = Set(existing, p, store[Name(p)].points)
  /\ pending' = Set(pending, p, NewChunks(p))
  /\ Goto(p, "upsert")
  /\ UNCHANGED <<store, corpus, target, side, doc, again, manifest, runs, faults>>

\* scroll_document_point_ids, before the first upsert.
Scroll(p) ==
  /\ pc[p] = "scroll"
  /\ existing' = Set(existing, p, OfDoc(store[Name(p)].points, Manual(p)))
  /\ pending' = Set(pending, p, NewChunks(p))
  /\ Goto(p, "upsert")
  /\ UNCHANGED <<store, corpus, target, side, doc, again, manifest, runs, faults>>

Upserted_NoSparse(p, b) == [store EXCEPT ![Name(p)].points = @ \cup b]

\* An upsert replaces the whole point: a dense one leaves it no sparse vector.
Upserted(p, b) ==
  [store EXCEPT ![Name(p)].points = @ \cup b,
                ![Name(p)].sparse = IF side[p] = "hybrid" THEN @ \cup b ELSE @ \ b]

Batches(p) ==
  {b \in SUBSET pending[p] :
     IF Cardinality(pending[p]) <= BatchSize THEN b = pending[p] ELSE Cardinality(b) = BatchSize}

Upsert(p) ==
  /\ pc[p] = "upsert"
  /\ \E b \in Batches(p) :
       /\ store' = Upserted(p, b)
       /\ pending' = Set(pending, p, pending[p] \ b)
       /\ Goto(p, IF b = pending[p] THEN "trim" ELSE "upsert")
  /\ UNCHANGED <<corpus, target, side, doc, existing, again, manifest, runs, faults>>

Trimmed(p) ==
  [store EXCEPT ![Name(p)].points = @ \ Stale(p), ![Name(p)].sparse = @ \ Stale(p)]

\* Delete what was there before and is not in the new version; then the same
\* manual goes to the hybrid collection, and the next manual to the dense one.
Trim(p) ==
  /\ pc[p] = "trim"
  /\ store' = Trimmed(p)
  /\ existing' = Set(existing, p, {})
  /\ IF side[p] = "dense"
     THEN side' = Set(side, p, "hybrid") /\ UNCHANGED doc /\ Goto(p, "embed")
     ELSE /\ side' = Set(side, p, "dense")
          /\ IF doc[p] < Len(DocOrder)
             THEN doc' = Set(doc, p, doc[p] + 1) /\ Goto(p, "embed")
             ELSE doc' = Set(doc, p, 0) /\ Goto(p, "verify")
  /\ UNCHANGED <<corpus, target, pending, again, manifest, runs, faults>>

\* verify_index: for each collection the exact total, then each manual's ids.
CheckHolds(p) ==
  LET points == store[Name(p)].points
  IN  IF doc[p] = 0 THEN Cardinality(points) = Cardinality(corpus[p])
      ELSE OfDoc(points, Manual(p)) = NewChunks(p)

Verify(p) ==
  /\ pc[p] = "verify"
  /\ CheckHolds(p)
  /\ IF doc[p] < Len(DocOrder)
     THEN doc' = Set(doc, p, doc[p] + 1) /\ UNCHANGED <<pc, side, again>>
     ELSE IF side[p] = "dense"
     THEN /\ side' = Set(side, p, "hybrid")
          /\ doc' = Set(doc, p, 0)
          /\ UNCHANGED <<pc, again>>
     ELSE /\ side' = Set(side, p, "dense")
          /\ IF again[p] > 0
             THEN /\ again' = Set(again, p, again[p] - 1)
                  /\ doc' = Set(doc, p, 1)
                  /\ Goto(p, "embed")
             ELSE doc' = Set(doc, p, 0) /\ Goto(p, "manifest") /\ UNCHANGED again
  /\ UNCHANGED <<store, corpus, target, pending, existing, manifest, runs, faults>>

VerifyFails(p) ==
  /\ pc[p] = "verify"
  /\ ~CheckHolds(p)
  /\ Exit(p)
  /\ UNCHANGED <<store, manifest, runs, faults>>

WriteManifest(p) ==
  /\ pc[p] = "manifest"
  /\ manifest' = corpus[p]
  /\ Goto(p, "passed")
  /\ UNCHANGED <<store, locals, runs, faults>>

\* A call fails, or the process is killed, before the call takes effect.
Fail(p) ==
  /\ pc[p] \in Steps
  /\ faults < MaxFaults
  /\ faults' = faults + 1
  /\ Exit(p)
  /\ UNCHANGED <<store, manifest, runs>>

\* The call takes effect but its caller sees a failure, or dies before the next.
FailAfterEffect(p) ==
  /\ faults < MaxFaults
  /\ faults' = faults + 1
  /\ Exit(p)
  /\ \/ /\ UNCHANGED manifest
        /\ \/ pc[p] = "ensure"  /\ store' = Created(p)
           \/ pc[p] = "keyword" /\ store' = Keyword(p)
           \/ pc[p] = "upsert"  /\ \E b \in Batches(p) : store' = Upserted(p, b)
           \/ pc[p] = "trim"    /\ store' = Trimmed(p)
     \/ pc[p] = "manifest" /\ manifest' = corpus[p] /\ UNCHANGED store
  /\ UNCHANGED runs

Advance(p) ==
  \/ Load(p) \/ VerifyProtected(p) \/ Embed(p) \/ Ensure(p) \/ CreatePayloadIndex(p)
  \/ Scroll(p) \/ Upsert(p) \/ Trim(p) \/ Verify(p) \/ VerifyFails(p) \/ WriteManifest(p)

Next == \E p \in Operators : Start(p) \/ Advance(p) \/ Fail(p) \/ FailAfterEffect(p)

Spec == Init /\ [][Next]_vars

\* A running command takes its next step, and an operator whose command did
\* not pass runs it again (within the bounds MaxRuns and MaxFaults).
FairSpec ==
  /\ Spec
  /\ \A p \in Operators : WF_vars(Advance(p)) /\ WF_vars(pc[p] # "passed" /\ Start(p))

(***************************************************************************)
(* Properties                                                              *)
(***************************************************************************)
Running(p) == pc[p] \in Steps

\* Every variable has its type; a running command works on a manual of DocOrder
\* or, while verifying, on the total.
TypeOK ==
  /\ store \in [Collections -> Contents]
  /\ pc \in [Operators -> Steps \cup Stopped]
  /\ corpus \in [Operators -> SUBSET Chunks]
  /\ target \in [Operators -> Targets]
  /\ side \in [Operators -> Sides]
  /\ doc \in [Operators -> 0..Len(DocOrder)]
  /\ \A p \in Operators :
       pc[p] \in {"embed", "ensure", "keyword", "scroll", "upsert", "trim"} => doc[p] # 0
  /\ pending \in [Operators -> SUBSET Chunks]
  /\ existing \in [Operators -> SUBSET Chunks]
  /\ again \in [Operators -> 0..1]
  /\ manifest = NoChunks \/ manifest \in SUBSET Chunks
  /\ runs \in 0..MaxRuns
  /\ faults \in 0..MaxFaults

\* Whatever targets the command line names and whatever fails, the historical
\* archives are never written ("Active indexing refuses protected historical
\* collections", indexing_service.py:76).
ArchivesUntouched ==
  [][\A n \in Protected : store'[n] = store[n]]_vars

\* A chunk that every running command keeps never disappears from a
\* collection, not even between the steps of a replacement, for any number of
\* operators, faults and reruns: readers lose nothing while the corpus is
\* re-indexed (dense.py:337-353).
SurvivorsStayVisible ==
  [][\A n \in Collections : \A c \in store[n].points :
       (\A p \in Operators : Running(p) => c \in corpus[p]) => c \in store'[n].points]_vars

\* A command that passed left exactly its corpus in both collections, with a
\* sparse vector on every hybrid point, the document_id index in place, and a
\* manifest that says so; chunks of a document that is no longer in the corpus
\* do not go unnoticed (verify_index).
PassMeansExact ==
  \A p \in Operators : pc[p] = "passed" =>
    /\ manifest = corpus[p]
    /\ \A s \in Sides : store[target[p][s]].points = corpus[p]
    /\ store[target[p]["hybrid"]].sparse = corpus[p]
    /\ store[target[p]["hybrid"]].keyword

\* Both collections implement DocumentReplacement: chunks are added freely, and
\* those of a manual are removed only once its new version is complete.
Replacement == INSTANCE DocumentReplacement WITH
  Documents <- Manuals,
  Writers   <- Operators,
  NoGoal    <- NoChunks,
  visible   <- [n \in Collections |-> store[n].points],
  goal      <- [p \in Operators |->
                  IF pc[p] \in {"upsert", "trim"}
                  THEN [in |-> Name(p), doc |-> Manual(p), chunks |-> NewChunks(p)]
                  ELSE NoChunks]

ReplacesDocuments == Replacement!RSpec

\* When the faults end, rerunning the command ends in a pass, unless chunks of a
\* document outside the corpus are in a collection: no half-done replacement
\* needs a repair by hand.
Leftovers == \E n \in Collections \ Protected :
  \E c \in store[n].points : DocOf[c] \notin Manuals

RerunConverges == [](~Leftovers) => <>(\E p \in Operators : pc[p] = "passed")
=============================================================================
