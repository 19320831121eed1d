# Verification of industrial-rag

TLA+ models, model-checking runs and machine-checked proofs for the
industrial-rag service: a retrieval-augmented question answering API over two
ATV320 manuals, with the command that indexes those manuals into Qdrant.

## The system

| Component | State it keeps | Operations | Talks to |
|---|---|---|---|
| Query orchestration (`app/application/query_service.py`, `app/domain/evidence.py`, `citations.py`, `generation_prompt.py`, `app/api/query.py`) | nothing between requests; per request the ranking, the selected evidence, the attempts, the errors of the last one | configure, retrieve, select evidence, gate, format, generate (at most twice), validate, respond | retriever and generator (in-process calls), HTTP client |
| Query runtime (`app/bootstrap.py`, `app/composition/retrieval.py`, `app/api/health.py`, `app/infrastructure/models/reranker.py`) | the cached service, the lazily built retriever, the cross-encoder, the prompt and the structured model | get the service, build the retriever once, validate the frozen collections, answer `/ready` | the thread pool of the server, Qdrant |
| Retrieval adapters (`app/infrastructure/qdrant/search.py`, `manifests.py`, `client.py`) | none | dense search, sparse search, read payloads | Qdrant |
| Fusion, roles, reranking (`app/application/reranking_service.py`, `app/domain/policies/*`) | none | union, weighted reciprocal rank fusion, coverage reserves, role prior, list completeness | called by the retriever |
| Generation adapter (`app/infrastructure/generation/langchain_structured.py`) | a lazily built model and prompt | `ensure_configured`, `generate` | the language model provider |
| Corpus indexing (`scripts/operations/index_corpus.py`, `app/application/indexing_service.py`, `app/infrastructure/qdrant/dense.py`, `hybrid.py`, `corpus_artifacts.py`) | the dense and the hybrid Qdrant collection, the corpus manifest on disk | check targets, load chunks, check archives, embed, ensure collection, create payload index, scroll, upsert, delete, verify, write manifest | Qdrant, the file system, other operators, searches |
| PDF ingestion (`app/infrastructure/ingestion/*`, `app/domain/documents.py`) | chunk files | convert pages in batches, build chunks, assign chunk ids, replace the file | the file system, the indexing command that reads it |
| Evaluation (`evaluation/*`, `scripts/evaluation/*`) | a checkpoint file, a report | match facts, score items, judge, resume, aggregate, apply the gates | an in-process query service, the datasets and their manifests |
| Datasets and profiles (`scripts/archive/phase7/*`) | the evaluation datasets, the manifests that pin them, the snapshot of ranked candidates, the report that names a profile | generate, migrate, add and type facts, freeze with an approval token; snapshot the ranked candidates of the calibration rows, cross-validate and release a profile | the evaluation, which reads what they write; a person who edits and approves |
| Demo interface (`ui/*`) | a history of 20 turns per session | health, ready, query | the HTTP API |
| Operator scripts (`query_smoke.py`, `validate_query_runtime.py`), other archived experiments | report files | one-off | the service |

What is hard in it:

- the query path has many early returns and a retry, and each must end in the
  right answer, abstention or HTTP status with the right evidence attached;
- evidence selection moves candidates between ranks before the score gate reads
  the first one;
- indexing is a long sequence of remote calls without a transaction or a lock:
  it can be killed anywhere, a call can take effect and be reported as failed,
  a second operator can run at the same time, and searches read in between;
- the runtime is built on first use by whichever requests arrive first, and
  caches what it validated then;
- an evaluation resumes from a checkpoint that another configuration or another
  process may have written;
- a verdict rests on a matcher of words with negations, on rates whose
  denominators move, and on datasets that several commands and a person rewrite,
  each in several files.

`PROJECT.json` lists each of these as a hazard at the line where it bites, with
the properties that cover it or the reason why none does.

## Modules

| Module | Models | Kind |
|---|---|---|
| `GroundedQuery` | what one `POST /query` promises | abstract specification |
| `QueryService` | `QueryService.execute` and the route around it | detailed specification, implements `GroundedQuery` |
| `MCQueryService` | the instance TLC checks | model |
| `QueryServiceProofs` | theorems about `QueryService` | proofs |
| `DocumentReplacement` | what re-indexing promises the readers of a collection | abstract specification |
| `CorpusIndexing` | the `index_corpus` command and the store | detailed specification, implements `DocumentReplacement` |
| `MCCorpusIndexing` | the instances TLC checks | model |
| `CorpusIndexingProofs` | theorems about `CorpusIndexing` | proofs |
| `EvaluationRun` | the resumable evaluation command and its files | detailed specification |
| `MCEvaluationRun` | the instances TLC checks | model |
| `QueryRuntime` | the API process: threads, cached service, lazy retriever, readiness | detailed specification |
| `MCQueryRuntime` | the instances TLC checks | model |
| `QueryRuntimeProofs` | theorems about `QueryRuntime` | proofs |
| `RankPolicies` | the union retriever's fusion, reserves, role prior and list fallback | detailed specification |
| `ContextAllocation` | how `format_evidence` shares the context | detailed specification |
| `MCPolicies` | the instance of these two TLC checks | model |
| `PolicyProofs` | theorems about `RankPolicies` and `ContextAllocation` | proofs |
| `Ingestion` | the ingestion command and the chunk file | detailed specification |
| `MCIngestion` | the instance TLC checks | model |
| `IngestionProofs` | theorems about `Ingestion` | proofs |
| `FactMatching` | does an answer state a reviewed fact? | detailed specification |
| `QualityGates` | scoring, semantic judge, aggregation and release gates | detailed specification |
| `ProfileSelection` | the snapshot and the replay that chose the rank profile | detailed specification |
| `MCMeasurement` | the instance of these three TLC checks | model |
| `MeasurementProofs` | theorems about `FactMatching`, `QualityGates` and `ProfileSelection` | proofs |
| `DatasetLifecycle` | the commands that write datasets and manifests, and what an evaluation accepts | detailed specification |
| `MCDatasetLifecycle` | the instance TLC checks | model |
| `DatasetLifecycleProofs` | theorems about `DatasetLifecycle` | proofs |
| `EvaluationRunProofs` | theorems about `EvaluationRun` | proofs |

The modules meet at what one promises and the next one assumes: `RankPolicies`
produces the rankings that `QueryService` takes from its environment,
`ContextAllocation` refines its "so many headers fit", `AnswerIsGrounded` is why
`QualityGates` takes citations to be valid, `FactMatching` decides what
`QualityGates` records as `factsMatch`, `QualityGates` refines the "minimum of
good records" of `EvaluationRun`, and `DatasetLifecycle` says which datasets
`EvaluationRun` may start on. `MCPolicies` and `MCMeasurement` extend modules that
share no state: a behaviour is one of either module, the other stays put. That
checks several specifications in one run; it composes nothing.

### QueryService

One behaviour is one request. The variable `stage` is the position in
`execute()`; the actions follow its statements:

| Action | Code |
|---|---|
| `CheckConfiguration` | `generator.ensure_configured()` |
| `Retrieve`, `RetrieveFails` | `retriever.retrieve`: any ranking, or one of the exceptions it raises |
| `Select`, `RejectRanking` | `select_evidence_candidates`, or `EvidenceSelectionError` when a chunk is ranked twice |
| `GateRejects`, `GatePasses` | `EvidenceGate.evaluate`, then `format_evidence` |
| `GenerateOutput`, `GenerateUnparsed`, `GenerateRefused`, `GenerateFails` | one `generator.generate` call and its four kinds of outcome |
| `RejectOutput`, `AcceptOutput` | `validate_generated_answer` and `build_citations`, the retry rule, the answer or the abstention |
| `Respond` | the route's exception mapping to 200, 503, 504 or 500 |

The retriever and the model are the environment: they may return any ranking
(with repeated chunks, with malformed ones) and any output (blank, without
sources, with sources never given out), or fail in every way the code
distinguishes. A source label `S1, S2, ...` is the retrieval rank of its
candidate: the code numbers the kept candidates one to one, and 0 stands for a
label never given out. Scores are abstracted to how many leading candidates
reach the threshold (`above`), which is what the gate compares: the retriever
returns candidates in score order. A context that is too small for the source
headers is the constant `ContextBlocks`. Texts, excerpts, timings and token
counts are left out.

`SelectEvidence` is the selection of `evidence.py`: candidates with the same
content in several documents collapse to one representative (of the manual the
query's role prefers, when there is one) placed at the best rank of its group,
and only then the list is cut to `top_k`.

### CorpusIndexing

An operator is a process that runs the command. Each remote call is a step of
its own: `Start` (with `validate_collection_targets`), `Load`,
`VerifyProtected`, then for each manual and for the dense and the hybrid
collection `Embed`, `Ensure`, `CreatePayloadIndex` (hybrid only), `Scroll`,
`Upsert` (once per batch), `Trim`; then `Verify` once per total and once per
manual of each collection, possibly a second pass (`--verify-reindex`), and
`WriteManifest`. `Fail` is a call that fails, or a process that is killed,
before the next call takes effect; `FailAfterEffect` is one that takes effect
and is reported as failed, or whose process dies before going on. In both cases
what the process held in memory is gone. `MaxFaults` bounds them, `MaxRuns`
bounds the commands started.

A point is its chunk: `build_point_id` is a function of the chunk id, and the
chunk id is a fingerprint of the text and its position, so a repeated upsert
writes the same payload. An upsert replaces the whole point, so a dense upsert
into a hybrid collection would leave it without a sparse vector; `sparse`
keeps track of that. The pages of one scroll, and of one id read during
verification, are one step (`QueryRuntime`, which is about reading several pages
beside a re-indexing, takes them apart).

### EvaluationRun

An evaluator is a process that runs `evaluate_e2e.py`. `Start` takes any options
of the command line, `Load` is `_load_checkpoint`, `Execute` (or `ExecuteFails`)
is one query with its scoring and judging, `Save` the checkpoint after it,
`Abort` the checkpoint written before an error ends the command, and `Report` the
check of the count, the gates, the report and the exit status. `Kill` ends the
process at any step. `write_jsonl_atomic` and `write_json_atomic` write a
temporary file of their own and rename it, so a file changes in one step: a
process killed while it writes leaves the old file, one killed after the rename
the new one.

A record keeps the item, the options it was executed under and whether it is
good; the seven gates of `evaluate_quality_gates` are abstracted to a minimum of
good records. `Frozen` stands for everything the identity of a run contains
except the selection (settings, source hashes, libraries, corpus). `--top-k` is
not part of it, in the code as in the model, so records of different values of
`top_k` can share a checkpoint; no property says otherwise, because nothing in
the repository does.

### QueryRuntime

Requests run at the same time; each goes through the route of its kind
(`/query`, `/ready` or `/health`).

| Action | Code |
|---|---|
| `Depend`, `Compose` | `get_query_service`: the cache lookup, then the composition `lru_cache` runs without holding its lock; the first to finish is kept |
| `Authorize` | the API key dependency |
| `Admit` | `run_in_threadpool` of the query, and its first look for the delegate |
| `Lock`, `Install` | the lock of `LazyQueryRetriever`, with the second look at the delegate, and its release |
| `Validate` | one call of the build or of the readiness check: connection, schema, a count, one page of the ids of a manual |
| `Probe` | `/ready` takes a thread for its checks |
| `CallFails` | any of these calls fails, which answers 503 and releases what is held |
| `Finish`, `Health` | the answer |
| `Reindex` | somebody replaces the points of one page of ids in one collection |

`InThread` lists the stages in which a request holds a thread of the pool. A
service is named by the request that composed it and a retriever by the request
that built it, so that two of them can be told apart. `get_indexed_chunk_ids`
scrolls the ids of a manual in pages of 256, so the unit that is read, and
re-indexed, is the page: a re-indexing of a manual may fall between two of its
pages. The points of a page in one collection are a version: the frozen one,
another one with as many points, or a mixture with more. `wasFrozen` and
`troubled` are history variables. A validation is several calls with no common
snapshot, so `PassedChecksWereTrue` says that each page was the frozen one at
some time of the validation, not all of them at one time; so it says of a manual
of several pages that each part of it was frozen, not the whole at once. A
configuration that is not supported ends in a 500, of `/ready` too, because
`RetrievalUnavailableError` is not among the errors it maps.

### RankPolicies

One behaviour is one `RerankPipeline.search` with the union strategy that the
retrieval contract selects: `Retrieve` (both result lists), `Fuse`
(`fuse_weighted_rrf` and `select_coverage_preserving_candidates`),
`Deduplicate`, `Rerank` or `RerankFails`, `ApplyRole`
(`apply_role_aware_rank_fusion`), `ApplyList` or `KeepOrder`. A chunk is a
number, ordered as chunk ids are. Scores are exact fractions where the code has
doubles, so ties are ties. The lists, the cross-encoder's scores and the cues
found in texts are arbitrary; the weights keep the proportions of
`ATV320_FUSION_PROFILE` on smaller lists, and the window of ranks 5 to 10 is a
window of ranks 2 and 3.

`RankingIsPool` is what `QueryService` takes from its retriever: a ranking without
repeated chunks, of chunks that a search has found. Scores descend along a ranking, but on one
of three scales (cross-encoder logits, reciprocal ranks of the role fusion or of
the list fallback); the model keeps scores only until the last order is made.
`Expanded` is `expand_exact_equivalent_qrels` of the evaluation, which
undoes for the annotations what the removal of repeated content did to the
ranking.

### ContextAllocation

`format_evidence` on lengths: the refusals, `_allocate_content_chars` with one
step per source and pass, `_truncate_to_allocation` and the final measurement.
`QueryService` abstracts all this to "so many headers fit".

### Ingestion

The command of `ingest_preview.py` on manuals of a few pages: option checks and
page batches (`Start`), one Docling conversion per batch (`Convert`), the
normalization of its chunks one by one (`Normalize`), the temporary file line by line (`WriteLine`) and its
rename (`Replace`). `Interrupted` is a conversion that is not a full success, a
failed write or a kill. Docling is external: an item lies on one page, its page
number may be missing, and a heading is known only to the conversion whose range
contains it, which is how batches change what a chunk says. Digests are the
values they are taken of.

### FactMatching

One behaviour is one call of `score_expected_answer_fact`. A clause is a sequence
of words and an answer a sequence of clauses; the words of an instance are few,
one of them an inflection of another. `MatchClause` looks for the fact in the
next clause, by aliases in any word order (`Taken`, the greedy assignment of
`_unordered_token_match`) or by groups of alternatives (`GroupStart`), and gives
the match its polarity (`Polarity`: no negation in the window before a matched
word, one, or several, which is ambiguous). `DecideText` takes the fact as stated
if some clause is positive. Identifiers and numbers with units are looked for as
they stand (`DecideLiteral`). Normalization (case, diacritics, suffix rules) is
the relation `Inflections`.

### QualityGates

`ScoreItem` executes and scores the next item (`score_query_execution`): any
outcome that `Executions` allows. With the judge enabled an answer goes through
the three semantic metrics (`JudgeMetric`), any of which may fail
(`JudgeFails`) and end the command without a record, to be executed again.
`JudgeRun` aggregates and applies the gates. Rates are exact fractions, and an
empty group has rate 0 as in the code. The rate of valid citations is 1 as soon as
something is answered, which is `AnswerIsGrounded`.

### ProfileSelection

Two commands and the file they share. The snapshot command reads the calibration
file and searches the questions of its answerable rows (`SearchRows`), then writes
the ranked candidates with the hash of the rows it has read (`WriteSnapshot`). The
replay reads the calibration file (`ReadCalibration`), accepts a snapshot that
names the same rows (`Accepts`, `ReplaySnapshot`), takes the winner of each fold
(`EvaluateFold`), judges the profile of most folds by the twelve gates of
`_quality` (`JudgeConsensus`), tries the two registered fallbacks (`TryFallback`) and
writes its report (`WriteReport`). `FreezeAgain` is `freeze_phase7_calibration_v3`,
at any time; `SearchFails` and `ReplayFails` are kills and refusals. A content
stands for a calibration file and its hash. Pools, and what a profile makes of
them, are arbitrary, except that only a chunk of the pool has a rank. Rates are
exact: the wrong documents are compared by their rate, of which the places may
differ, everything else over the same rows by its count. Every row has a candidate
and a place of evidence; without one the code divides by zero for a language.

The metrics over all rows come from `aggregate_closure_rows`, of a module
(`evaluation.retrieval_closure`) that is not in the repository; they are modelled
after their names and the metrics per language, which the script computes itself
by the same names, and mapped as external where nothing else says what they are.
The release compares the hash in the snapshot with the rows it has read. It
does not compare the snapshot with the file it hashes for its report
(`calibrate_phase7_role_prior.py:150`), which may be a later one; the model has
no such field, and no property is about it. `held_out_dataset_sha256` and the
latencies, which a replay does not measure, are left out too.

### DatasetLifecycle

The disk holds six datasets and three manifests. A dataset is its content
(annotations, kind of answer facts, the corpus its qrels name) and the review
status of its answerable and other rows; its hash is its value. Each command
reads and checks everything first, then leaves its writes in `writes`; `Write`
makes the next one and `Crash` drops the rest, tearing a file that is written in
place (the generator's). `EditByHand`, `WriteHeldoutDraft` and `ReplaceCorpus` are
what people do between commands. `Accepted` is `_load_selected_dataset` with
`_validate_evaluation_manifest`. `approvals` and `tampered` are history
variables.

The scripts of phase 7 import `evaluation.phase7_dataset`, which no longer
exists; `evaluation/dataset.py` is its renamed successor, with the same functions,
and the model is of the scripts with that module. Abstracted: the closure of
qrels under equal content when a dataset is migrated, review notes and report
hashes, edits of a review status by hand (an approval without a token, which
nothing in the code could tell apart) and two commands at once. `ApplyFacts`
corrects two qrels besides adding facts: `Corrected` says which annotations it
makes of those it reads.

## Runs

| Run | Question | Bounds |
|---|---|---|
| `query_service` | Is every answer grounded, every attempt rule kept, and `GroundedQuery` implemented? | five chunks in two manuals, three of them with the same content, one malformed; rankings of up to three; `top_k` up to three; room for two sources; every role and document filter |
| `indexing_faults` | What can one operator's faults, reruns, changing corpora and wrong target names do to the collections? | manuals of two chunks and of one chunk, an old and a new version that share chunks, a corpus that lacks a manual, a leftover chunk of a retired document; batches of one; three commands; two faults |
| `indexing_pair` | Can two operators at once hurt each other, is a pass exact, and does running the command again always repair what faults left? | one corpus, batches of two, three commands, two faults |
| `evaluation_resume` | What can kills, failures, changed options and a second evaluator do to a checkpoint and a report? | two evaluators (symmetric); three items, of which the first two or the last may be selected; two frozen settings, two values of `top_k`; three commands, two faults |
| `evaluation_converges` | Does resuming always reach a verdict? | the whole dataset, four commands, three faults |
| `evaluation_exit` | Are the gates the only source of exit status 0 or 2? (violated) | one command, no fault |
| `runtime_first_use` | Is the retriever of a service built once, a failure its own request's, what passed a validation true, and the number of services bounded? | three requests (symmetric) to query or to ask for readiness, two threads, three configurations, three stores of which two are not frozen, one re-indexed page, one failed call |
| `runtime_answers` | Is each request answered? | three requests of any kind on one thread, one failed call |
| `policies` | Does the ranking keep what its policies promise, and is the context of a prompt kept, filled and shared evenly? | five chunks of two manuals, two with one text in one manual and a copy in the other; dense lists of up to two and sparse lists of up to three; four candidates; two cross-encoder scores and two numbers of cues. Up to four sources of five lengths, two lengths of headers, six limits, a marker of two characters |
| `ingestion` | Are identifiers unique, and is the chunk file always whole? | a manual of four pages, one with a blank page, a document; every page range, batches of one to three pages or none; two commands |
| `measurement` | Does an answer count as it says, is a pass earned, and is a released profile earned on the rows that were searched? | answers of one clause of up to four words or two of up to two, over seven words, a window of one, facts of every type; five items of which three are answerable, one failing judge call; two profiles, three rows in three folds, three outcomes, three results of the searches, three contents of the calibration file of which one lacks a row, any number of freezes, snapshots and failures, one report |
| `dataset_lifecycle` | Does an evaluation accept only approved content, and does freezing one dataset keep the others? | seven commands, two annotations, two corpora, two edits |

Three ranks are enough for a group that spans documents with a member outside
the context, and for the case the selection exists for: two copies of the best
content and one other candidate. Two sources fit while three may be selected,
so that formatting refuses in some behaviours. Two faults allow a failure during
the repair of a failure. Two threads and three requests let one request wait for the lock
that another holds while a third waits for a thread; a single thread is the
hardest case for `EveryRequestAnswered`. In `policies` the marker is longer than
some allocations and the limits include those that leave fewer characters than
sources. Four words hold a negation, a word between, and a fact of two words;
two clauses hold a statement and its denial. Three folds and two profiles give a
majority of two and one of three; one search misses a row and one exceeds the
budget; the three contents let the file change twice while it is searched. Seven commands are enough for every dataset
to be generated, given facts, frozen, typed and frozen again with two commands
to spare, and the proofs lift every bound of that run.

### Properties

Of a query: `AnswerIsGrounded`, `PromptsAreAdmissible`,
`NoContentFromTwoDocuments`, `NothingBetterDropped`, `CorrectionKeepsEvidence`,
`EndingMatchesAttempts`, `NeutralGateJudgesBest` and `KeepsPromise` (refinement
of `GroundedQuery`).

`NeutralGateJudgesBest` is restricted to queries without a role on purpose: with
a role the representative of a repeated content may be a lower-ranked copy, and
its score is what the gate compares. The code accepts that.

Of indexing: `ArchivesUntouched`, `SurvivorsStayVisible`, `PassMeansExact`,
`ReplacesDocuments` (refinement of `DocumentReplacement`) and `RerunConverges`.

`PassMeansExact`, `ReplacesDocuments` and `RerunConverges` hold for operators of
one corpus. They do not hold for two operators with different corpora, which may
leave the union of both versions, and nothing in the repository says they should:
the command takes no lock. `ArchivesUntouched` and `SurvivorsStayVisible` hold for
any operators (and are proved for any number of them).
`RerunConverges` assumes that no chunk of a document outside the corpus is in a
collection: the command never deletes those, so verification keeps failing until
somebody removes them, which is what `verify_index` is for.

Of the evaluation command: `ArtifactsAreOneRun` (a file never mixes runs or
items, so a checkpoint never blocks its own resume), `CheckpointOnlyGrows`,
`UnsavedWorkIsOneItem` (a query is paid for again only for a kill or a failure)
and `ResumeConverges`. `CheckpointOnlyGrows` and
`UnsavedWorkIsOneItem` are about a lone evaluator (`Lone`): two of them on one path do
overwrite each other's checkpoint, and the command has no lock to prevent it.

Of the runtime: `RetrieverBuiltOnce`, `FailureIsOwn` (a failed build is neither
cached nor passed on to those who waited for it), `ServicesBounded` (at most one
service, hence one set of models, per thread), `PassedChecksWereTrue` and
`EveryRequestAnswered`.

Of the ranking: `ReservesSurvive` (the reserves of both lists reach the
cross-encoder, and the profile never makes its own policies raise),
`FusionIsMonotone`, `RankingIsPool`, `DeduplicationKeepsHits` (an annotated chunk
that retrieval dropped for its copy still counts as found) and `RoleOnlyPromotes`.

Of the context: `ContextIsFilled` (the limit is kept, the final check never
fails, and a text is cut only when the context is full to its last character)
and `CutsAreEven` (max-min fairness, the odd characters to the better ranks).

Of ingestion: `IdsAreUnique` and `OutputIsWhole`.

Of measurement: `StatementCounts` (an answer with a sentence that says the fact
without a negation is matched, whatever else it says), `DenialNeverCounts` (no
match without a sentence whose matching words are free of negations),
`PassIsEarned` (how many right answers a pass needs, whatever the system abstains
from), `BetterNeverFails` (the verdict is monotone), `MeansCoverAnswers` and
`ReleaseIsEarned` (a released profile was searched and judged on the same rows,
whatever happened to the files meanwhile, has every row in its pool and more
folds than any other). The failure
class `reranker_miss_top20` may go together with a hit in the evidence: the
representative of a repeated content is moved to the best rank of its group.

Of the datasets: `EvaluatedIsApproved` and `FreezeKeepsPins`. The first has one
exception: a test dataset edited by hand after its approval, without touching its
review status, is pinned unseen by the manifest of calibration v3
(`freeze_phase7_calibration_v3.py` reads the test dataset, hashes it, and writes
`held_out_modified: false` without comparing it to the manifest that froze it).
The second says that what a manifest pins stays evaluable while something else is
frozen, at every step and wherever the freeze dies.

The type invariants of `QueryService` (which TLC checks too), `CorpusIndexing`,
`DatasetLifecycle`, `EvaluationRun` and `QueryRuntime` are proved; in the other
modules the types are parts of the inductive invariants of their proofs.

One disagreement between the code and its documentation came up:
`docs/OPERATIONS.md` says that the quality gates are the only source of exit
code 0 or 2, but a partial selection (`--max-queries`, `--item-id`) exits with 0
while its report says `NOT_EVALUATED_PARTIAL_SELECTION`. Run `evaluation_exit`
shows it. Two more things a reader of the code should know. Because the
`lru_cache` of `app/bootstrap.py:42` computes outside its lock, two first requests
that miss together get two services, each with models of its own, of which one is
kept; `ServicesBounded` says how far it goes. And `/ready` maps `RetrievalError`
only, so that a configuration that is not supported is a 500 there.

### Fairness

`RerunConverges` assumes that a running command proceeds, because every call it
makes has a client timeout, and that an operator whose command did not pass
starts it again. `ResumeConverges` assumes the same of the evaluation, until a
command has reached a verdict. `EveryRequestAnswered` assumes weak fairness of
each request's next step: a thread that has work goes on (Qdrant and the model
provider are called with timeouts), and a request that waits for a thread or a
lock that stays free gets it. Re-indexing and failures are not fair: they may
happen or not.

## Proofs

Eight modules hold theorems, for every value of the constants. Every safety
invariant and every action property that a run checks is stated by one of them,
and both refinements are. Four properties stay with TLC; the end of this
section says which and why.

`QueryServiceProofs`: every set of chunks and documents, every ranking length,
every `top_k` and every context size.

| Theorem | Property |
|---|---|
| `TypeCorrect` | `TypeOK` |
| `Grounded` | `AnswerIsGrounded` |
| `Admissible` | `PromptsAreAdmissible` |
| `Collapsed` | `NoContentFromTwoDocuments` |
| `OnlyWorseDropped` | `NothingBetterDropped` |
| `CorrectionFaithful` | `CorrectionKeepsEvidence` |
| `EndingFaithful` | `EndingMatchesAttempts` |
| `BestIsJudged` | `NeutralGateJudgesBest` |
| `Refinement` | `KeepsPromise` |

The assumptions are those of `QueryAssumption`: documents, contents and roles
are functions of the chunk and of the document, the role of a document is never
"neutral", the bounds are natural numbers. TLC evaluates them in its runs.

The safety properties are not inductive: that an answer cites evidence says
nothing of the state before the answer. `IInv` adds three parts to `TypeOK`:
`AttemptsInv` (one prompt for every recorded outcome, one more while an output is
validated; while the request is open at most one invalid attempt and its errors
are the feedback), `ShownInv` (the evidence is the selection from the ranking, it
passed the gate before anything was generated, and every prompt shows it) and
`ResultInv` (nothing is reported while the request is open; then the result
agrees with the attempts and cites the evidence). Theorem `Invariant` is proved
by one case per action; the other theorems follow from `IInv` and from the
lemmas about selection. Of these, `FirstRanksAreBest` is the argument for
`OnlyWorseDropped`: of a finite set of ranks the first `k` are `k` in number as
soon as one is cut, and better than each that is cut. `BestIsJudged` is proved as a
step from `IInv`, because the ranking the gate judged is not kept in the
result: collapsing duplicates never moves the first rank, and without a role the
candidate that stands there is the one retrieved first (`NeutralKeepsFirst`).

`CorpusIndexingProofs`: any number of operators, corpora, target names, batches,
reruns and faults, under `IndexingAssumption` (finitely many chunks, each of
a document; the corpora are sets of chunks, the archives and the targets are
collections, a batch holds at least one chunk).

| Theorem | Property |
|---|---|
| `IndexTypeCorrect` | `TypeOK` |
| `ArchivesAreSafe` | `ArchivesUntouched` |
| `SurvivorsAreSafe` | `SurvivorsStayVisible` |

`IndexInv` is `TypeOK` with `TargetsAreSafe` (a running command has passed
`validate_collection_targets`) and `DeletesOwnManual` (the ids kept from the
scroll are of the manual being indexed). `ArchivesUntouched` needs the first:
that a call leaves the archives alone is known only from the check at the start
of its command. `SurvivorsStayVisible` needs the second: a chunk that every
command keeps can only be hit by the deletion of a command that believes the
chunk is of its manual and not in its corpus. Lemmas give the effect of each call
on the store; every action is then one of them, or leaves the store alone.

The rest of the module is about any number of operators who index one corpus
(`OneCorpus`), as they do with one frozen chunk file. Two of them with
different corpora delete each other's chunks and a pass means nothing (see the
hazards), so the hypothesis is not an omission.

| Theorem | Property | Hypothesis |
|---|---|---|
| `DocumentsAreReplaced` | `ReplacesDocuments` | `OneCorpus` |
| `PassIsExact` | `PassMeansExact` | `OneCorpus`, and `OneTarget`: all name the same collections |

`DocumentsAreReplaced` is the refinement of `DocumentReplacement`. Its invariant
`ReplaceInv` says of an operator between its scroll and its deletion that what it
has upserted is visible, that everything else of the manual is what it
scrolled, and that nothing is left to upsert when it deletes. It is kept by the
others because they add chunks of the same corpus only, and never delete one.

`PassIsExact` is about a state that outlives the command: others may go on
indexing, or fail, after the pass. `AgreeInv` follows one command to it: the
manuals already done are in the collection (`FinishedIsThere`), the batches
already sent (`UpsertedIsThere`) and the index are too, and a collection whose
total was counted is the corpus (`CountedIsExact`). A total counts points of any
manual, so that it proves anything is an argument about two sets: all manuals
are there, hence the corpus is a subset of the points, and finite sets of equal
size are equal. `StoreAssumption` says that in the store the runs start from a
sparse vector belongs to a point.

`DatasetLifecycleProofs`: any annotations and corpora, any number of commands and
edits, under `LifecycleAssumption` and `NoFileAssumption`.

| Theorem | Property |
|---|---|
| `LifeTypeCorrect` | `LifeTypeOK` |
| `OnlyApprovedIsEvaluated` | `EvaluatedIsApproved` |
| `PinsAreKept` | `FreezeKeepsPins` |

`EvaluatedIsApproved` is about a manifest and a dataset that were written by
different steps, so `LifeInv` adds to the types that every manifest pins approved
records only, that the test dataset is of approved content when its rows are
approved and it was not edited, and that the same is true of every write
still to come (`ManifestsApproved`, `TestApproved`, `WritesApproved`).
`FreezeKeepsPins` needs `FreezeStands`: what a running freeze has still to write is
exactly the rest of one of the three freezes, and what it has written is on disk;
theorem `FreezeProgress` is its invariance, which rests on the fact that nobody
edits while a command runs and that a crash drops all that is left.

`EvaluationRunProofs`: any dataset, any selections and settings, any number of
evaluators, commands and faults, under `EvaluationAssumption` (a selection repeats
no item; there is at least one configuration; finitely many evaluators) and
`NoFileAssumption`.

| Theorem | Property |
|---|---|
| `EvaluationTypeCorrect` | `TypeOK` |
| `FilesAreOneRun` | `ArtifactsAreOneRun` |
| `UnsavedIsOneItem` | `UnsavedWorkIsOneItem` |
| `CheckpointGrows` | `CheckpointOnlyGrows` |

A file is written from memory and memory is filled from a file, so `EvalInv` says of
both that they are of one run (`CheckpointIsOneRun`, `ReportIsOneRun`,
`MemoryIsOneRun`), and that a command that has not loaded has nothing in memory
(`StartsEmpty`). That a report is complete follows by counting: its records are of
distinct items of the selection, and none is missing. The last two theorems hold
while one evaluator has been started and rest on a second invariant, `LoneInv`: its
memory is the checkpoint, or the checkpoint and the one record it is about to
save. Two evaluators of one output directory break both, and the code does
nothing against it (see the hazards).

`QueryRuntimeProofs`: any finite number of requests, any number of threads, any
pages of ids and versions of them, any re-indexing and faults, under
`RuntimeAssumption`.

| Theorem | Property |
|---|---|
| `RuntimeTypeCorrect` | `TypeOK` |
| `BuiltOnce` | `RetrieverBuiltOnce` |
| `ChecksWereTrue` | `PassedChecksWereTrue` |
| `ServicesAreFew` | `ServicesBounded` |
| `FailuresAreOwn` | `FailureIsOwn` |

`BuiltOnce` rests on `BuildersHoldTheLock`: who builds holds the lock of a service
that still has no retriever, which is what the second look under the lock
establishes. `ServicesAreFew` counts the requests in `compose` with the services: as
long as nothing is cached no service exists and the composers hold threads, and
once something is cached nobody starts to compose (`FewServices`).
`ChecksWereTrue` is about a sequence of calls of any length, so
`ValidationsAreHonest` says how far one has come: each page already read was
frozen at some time, unless something not frozen was read since the last
comparison. That a comparison follows every reading, and that the plans read all
pages of what will be searched, is proved of the plans themselves
(`PlansAreSound`), from lemmas about what a concatenation of plans keeps.
`FailuresAreOwn` follows the requests that are not troubled, which have met only the
frozen pages and no failed call: `UntroubledMeetFrozen` says that what they have
read so far is the frozen version, so that every comparison they come to succeeds,
the one of totals too (the points of all pages are a set of pairs, and equal
sets have equal size).

`PolicyProofs`: any chunks, documents, roles, lists, weights, reserves, scores and
cues for the ranking, under `RankAssumption` (the reserves fit the budget, the
boost is not below one); any sources, lengths and limits for the context, under
`AllocationAssumption`.

| Theorem | Property |
|---|---|
| `RankingIsAlwaysPool` | `RankingIsPool` |
| `RoleAlwaysPromotes` | `RoleOnlyPromotes` |
| `FusionAlwaysMonotone` | `FusionIsMonotone` |
| `ReservesAlwaysSurvive` | `ReservesSurvive` |
| `DeduplicationAlwaysKeepsHits` | `DeduplicationKeepsHits` |
| `ContextAlwaysFilled` | `ContextIsFilled` |
| `CutsAlwaysEven` | `CutsAreEven` |

Every stage of the ranking sorts a set by a key and a tie-break. The lemmas about
`SortedBy` (`SortedByOrder`, `SortedList`) say it once: an order that is total on a finite set gives each member a
place of its own, by counting those before it, and the order of places is the
order given. What is left of each property is an argument about
one key: about fractions (a larger share of either list makes a larger sum, the
boost keeps that, a role's rank is never behind its place), about `Distinct` (the
first of a text stays, in front of its copies), about the number of members of a
reserve. `RankInv` says which order the state holds at each stage.
For the context, `AllocInv` says what a pass leaves at any turn: characters are
handed out or remain (`Handed`), who is done has got what it wanted (`Satisfied`),
and the sources still open are at one level, those already visited in this pass
one share higher (`Levels`). Sums are the recursive function `PrefixSums`, of which
the proof needs only that it grows with its summands and by one of them.

`IngestionProofs`: any manuals, texts, page ranges and batches, and any number of
commands and interruptions.

| Theorem | Property |
|---|---|
| `ChunksAreDistinct` | `IdsAreUnique` |
| `OutputAlwaysWhole` | `OutputIsWhole` |

An identifier is a key and the number of its earlier occurrences, so uniqueness is
inductive only with `CountsInv`: every occurrence given out is below the count of
its key, and the counts survive from batch to batch. `OutputIsWhole` is about the
file at the end of three loops, over batches, over the chunks of a conversion and over lines.
`ConvertInv` says where the first two are: the chunks so far are those of the pages
before the first batch left, and the beginning of the one in hand, with the blank
ones left out; `WriteInv` that the lines are a beginning of the chunks. That the
batches follow each other without a gap or an overlap is `BatchesFollow`, and
that two consecutive ranges convert to the whole one is `RawSplits`.

`MeasurementProofs`: any words, inflections, negations, facts and answers; any
dataset with answerable and other items, any gates, outcomes and failures of the
judge; any contents of the calibration file, profiles, rows, folds, pools,
outcomes and gates of a release.

| Theorem | Property |
|---|---|
| `StatementsAlwaysCount` | `StatementCounts` |
| `DenialsNeverCount` | `DenialNeverCounts` |
| `PassesAreEarned` | `PassIsEarned` |
| `BetterPasses` | `BetterNeverFails` |
| `MeansAreOfAnswers` | `MeansCoverAnswers` |
| `ReleaseAlwaysEarned` | `ReleaseIsEarned` |

`MatchInv` says that the traces are those of the clauses looked at and the decision
is taken from all of them; the rest is about one clause. A sentence that says an
alias has places for its words, and the greedy matcher finds places whenever there
are any (`PlacingExists`, an assignment of words to equal words, in the order of
the alias, that never runs out). The places it takes may be other ones than
those of the statement, but without a negation in the sentence they are positive
all the same; and a match whose polarity is positive has no
negation in any window before it, which is what a denial has.
`GateInv` says that the records are those of the items in their order. The gates
are rates, and the rates count sets of records; `BetterPasses` compares two runs
that differ in one record, so each of its counts is the same or
one apart (`OneRecordApart`), and two lemmas say when a fraction stays at least a
gate (`MoreIsAtLeast`, `FewerIsAtLeast`).
`SelectionInv` follows a release back to its files: a snapshot names the rows it has
searched (`SnapshotNamesItsRows`), whatever the calibration file is by now, so a
replay that has accepted it judges these rows (`ReplayIsOfItsRows`), and what it
chooses has passed the gates on the votes of all folds (`ChoiceIsGood`). That a
fold has a winner, and the votes a consensus, rests on keys compared as Python
compares tuples: by such keys a finite set has one member preferred to all others
(`PreferredIs`). That a release has more folds than any other is an argument about a
majority: `SelectionAssumption` takes `StableVotes` to be more than half of the
folds, as it is in the code (four of six); with a smaller number the sentence would
be false.

These proofs avoid induction schemes, which the provers cannot instantiate. A sum
is the size of a set of pairs or a recursive function; where a statement has to
be carried along a sequence or a number, it is proved by contradiction from the least
number for which it fails (`LeastNumber`).

Only model-checked: `RerunConverges`, `ResumeConverges` and
`EveryRequestAnswered`, because liveness is out of the prover's reach.
`GatesAreOnlySourceOfExit` is refuted by its run.

## Plan

Done: the query, indexing, the evaluation with its measurement and its datasets,
the runtime, the ranking, the context and ingestion, all model-checked and proved
about. Next:

- the safety behind the liveness properties, which the provers can reach: that the
  verification of a command which met no fault, alone on a store without retired
  chunks, never fails, and that a request which waits for a lock or a thread
  waits for another one that is not waiting;
- `QueryRuntime` composed with `CorpusIndexing`: what a validation and a search
  see of an indexing command that is still running, instead of the single step
  `Reindex`.

## Not modelled

- The retrieval adapters: single reads and payload parsing; a search is one
  nondeterministic list.
- Text: extraction and content types of ingestion, the cues that ranking finds
  in texts and queries, normalization and the suffix rules of fact matching,
  drafts and reports. They are inputs here: arbitrary lists, cues, words.
- Of the evaluation: the retrieval-only command, tables per group, latencies,
  token diagnostics, strict and coverage matches (diagnostics that no gate
  reads).
- Of the experiments: the ablation of fusion profiles and its reranking
  (`calibrate_phase7_weighted_fusion.py`, `evaluate_phase7_weighted_rerank.py`; the second
  searches again and compares neither dataset nor corpus with the first, so
  nothing follows from one for the other), how a replayed list is ordered
  (outcomes are arbitrary; `RankPolicies` has the ordering), the aggregation of stability
  runs, and the other scripts of `scripts/archive`, which are sequential
  computations from files to a report that no other part reads.
- The operator scripts and the demo interface keep no state that another part
  reads.
- Request parsing precedes `execute()` and is left to tests; of authentication
  only its place in the order of the dependencies is modelled.
- The cross-encoder built on first use without a lock
  (`app/infrastructure/models/reranker.py:42`): two threads may construct it twice,
  with one configuration, so that no answer changes. The generator's lazily built
  model is the same, under a lock.
