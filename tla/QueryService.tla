----------------------------- MODULE QueryService -----------------------------
(***************************************************************************)
(* One grounded query, from QueryService.execute to the HTTP status the    *)
(* route answers with (app/application/query_service.py, app/domain/       *)
(* evidence.py, app/domain/citations.py, app/api/query.py).                *)
(*                                                                         *)
(* The retriever and the language model are the environment: they return   *)
(* any candidate list and any structured output, or fail.  Texts, excerpts *)
(* and timings are abstracted; a source label is the retrieval rank of the *)
(* candidate it stands for (the code renumbers the kept ranks S1, S2, ...  *)
(* one to one), and 0 is a label that was never given out.                 *)
(***************************************************************************)
EXTENDS Naturals, Sequences, FiniteSets

CONSTANTS
  Chunks,          \* chunk identifiers the retriever may return
  Docs,            \* document identifiers
  NoDoc,           \* the request names no document
  DocOf,           \* chunk -> its document
  ContentOf,       \* chunk -> fingerprint of its text
  RoleOf,          \* document -> its document_role, "none" without a trusted context
  Malformed,       \* chunks whose metadata the gate rejects
  MaxRetrieved,    \* bound on the length of a ranking
  MaxTopK,         \* bound on the requested top_k
  ContextBlocks    \* source headers that fit in generation_max_context_chars

Roles == {"installation", "programming", "neutral"}

ASSUME QueryAssumption ==
  /\ NoDoc \notin Docs
  /\ DocOf \in [Chunks -> Docs]
  /\ RoleOf \in [Docs -> {"installation", "programming", "none"}]
  /\ Malformed \subseteq Chunks
  /\ DOMAIN ContentOf = Chunks
  /\ MaxRetrieved \in Nat
  /\ MaxTopK \in Nat
  /\ ContextBlocks \in Nat

VARIABLES
  stage,       \* where execute() is
  request,     \* document filter, inferred query role and top_k
  configured,  \* the provider settings are usable
  retrieved,   \* the ranking the retriever returned
  above,       \* how many leading candidates reach evidence_score_threshold
  evidence,    \* source label -> chunk: selection.candidates
  prompts,     \* the prompts sent: evidence shown and corrections asked
  output,      \* the structured output under validation
  feedback,    \* validation_errors
  outcomes,    \* how each attempt ended
  result,      \* the QueryExecution, or the exception, that ended execute()
  status       \* HTTP status; 0 before the response

vars == <<stage, request, configured, retrieved, above, evidence, prompts,
          output, feedback, outcomes, result, status>>

Labels   == 0..MaxRetrieved
Requests == [doc : Docs \cup {NoDoc}, role : Roles, topK : 1..MaxTopK]
Outputs  == [insufficient : BOOLEAN, blank : BOOLEAN, sources : SUBSET Labels]
NoOutput == [insufficient |-> TRUE, blank |-> TRUE, sources |-> {}]

Failures == {"LLMNotConfigured", "RetrievalUnavailable", "RerankerUnavailable",
             "LLMTimeout", "LLMUnavailable", "Unexpected"}
Reasons  == {"no_candidates", "invalid_candidate_metadata",
             "configured_score_gate_failed", "llm_insufficient_evidence",
             "llm_refusal", "citation_validation_failed"}
Errors   == {"insufficient_cites", "empty_answer", "no_source", "unknown_source",
             "other_document", "unparsed"}

Pending       == [kind |-> "pending",   reason |-> "none", citations |-> {}]
Abstained(r)  == [kind |-> "abstained", reason |-> r,      citations |-> {}]
Failed(e)     == [kind |-> "failed",    reason |-> e,      citations |-> {}]
Answered(C)   == [kind |-> "answered",  reason |-> "none", citations |-> C]

(***************************************************************************)
(* Evidence selection: exact content repeated across documents collapses   *)
(* to one representative placed at the group's best rank, then top_k.      *)
(***************************************************************************)
Ranks(cands)    == DOMAIN cands
Group(cands, i) == {j \in Ranks(cands) : ContentOf[cands[j]] = ContentOf[cands[i]]}

CrossDocument_MoreThanTwo(cands, G) == Cardinality({DocOf[cands[j]] : j \in G}) > 2

CrossDocument(cands, G) == \E j, k \in G : DocOf[cands[j]] # DocOf[cands[k]]
Best(G)         == CHOOSE i \in G : \A j \in G : i <= j

Preferred(cands, G, role) == {j \in G : RoleOf[DocOf[cands[j]]] = role}

Representative_LastOfGroup(cands, G, role) == CHOOSE i \in G : \A j \in G : j <= i

Representative(cands, G, role) ==
  IF Preferred(cands, G, role) # {} THEN Best(Preferred(cands, G, role)) ELSE Best(G)

\* The ranks that survive: every member of a single-document group, and the
\* best rank of a group that spans documents.
KeptRanks(cands) ==
  {i \in Ranks(cands) : CrossDocument(cands, Group(cands, i)) => i = Best(Group(cands, i))}

\* The rank of the candidate that stands at a kept rank.
StandsAt(cands, role, i) ==
  LET G == Group(cands, i)
  IN  IF CrossDocument(cands, G) THEN Representative(cands, G, role) ELSE i

FirstRanks(S, k) == {i \in S : Cardinality({j \in S : j < i}) < k}

SelectEvidence_TopKFirst(cands, role, k) ==
  LET cut == [i \in {j \in Ranks(cands) : j <= k} |-> cands[i]]
  IN  [i \in KeptRanks(cut) |-> cut[StandsAt(cut, role, i)]]

SelectEvidence(cands, role, k) ==
  [i \in FirstRanks(KeptRanks(cands), k) |-> cands[StandsAt(cands, role, i)]]

UniqueChunks(cands) == \A i, j \in Ranks(cands) : cands[i] = cands[j] => i = j

(***************************************************************************)
(* Evidence gate and citation validation.                                  *)
(***************************************************************************)
ValidCandidate(c, doc) == c \notin Malformed /\ (doc = NoDoc \/ DocOf[c] = doc)

ValidMetadata_FirstOnly(ev, doc) ==
  \A s \in DOMAIN ev : (\A t \in DOMAIN ev : s <= t) => ValidCandidate(ev[s], doc)

ValidMetadata(ev, doc) == \A s \in DOMAIN ev : ValidCandidate(ev[s], doc)

\* Score of the first evidence candidate against the threshold.
ClearsThreshold(cands, role, ev, reach) ==
  StandsAt(cands, role, Best(DOMAIN ev)) <= reach

GateReason(cands, req, ev, reach) ==
  IF DOMAIN ev = {}                                 THEN "no_candidates"
  ELSE IF ~ValidMetadata(ev, req.doc)               THEN "invalid_candidate_metadata"
  ELSE IF ~ClearsThreshold(cands, req.role, ev, reach)
                                                    THEN "configured_score_gate_failed"
  ELSE "none"

ErrorIf(e, P) == IF P THEN {e} ELSE {}

ValidationErrors_NoSourceAllowed(out, ev, doc) ==
  ErrorIf("unknown_source", \E s \in out.sources : s \notin DOMAIN ev)

\* validate_generated_answer collects the referential errors; only when there
\* are none does build_citations look at the documents.
ValidationErrors(out, ev, doc) ==
  LET referential ==
        UNION {ErrorIf("insufficient_cites", out.insufficient /\ out.sources # {}),
               ErrorIf("empty_answer", ~out.insufficient /\ out.blank),
               ErrorIf("no_source", ~out.insufficient /\ out.sources = {}),
               ErrorIf("unknown_source", \E s \in out.sources : s \notin DOMAIN ev)}
      foreign == ~out.insufficient /\ doc # NoDoc /\ \E s \in out.sources : DocOf[ev[s]] # doc
  IN  IF referential # {} THEN referential ELSE ErrorIf("other_document", foreign)

CitationsOf(out, ev) == {ev[s] : s \in out.sources}

(***************************************************************************)
(* Actions                                                                 *)
(***************************************************************************)
Init ==
  /\ stage = "idle"
  /\ request \in Requests
  /\ configured \in BOOLEAN
  /\ retrieved = <<>>
  /\ above = 0
  /\ evidence = <<>>
  /\ prompts = <<>>
  /\ output = NoOutput
  /\ feedback = {}
  /\ outcomes = <<>>
  /\ result = Pending
  /\ status = 0

Finish(r) == stage' = "respond" /\ result' = r

\* generator.ensure_configured() precedes retrieval.
CheckConfiguration ==
  /\ stage = "idle"
  /\ IF configured
     THEN stage' = "retrieve" /\ UNCHANGED result
     ELSE Finish(Failed("LLMNotConfigured"))
  /\ UNCHANGED <<request, configured, retrieved, above, evidence, prompts, output,
                 feedback, outcomes, status>>

Retrieve ==
  /\ stage = "retrieve"
  /\ \E n \in 0..MaxRetrieved : \E cands \in [1..n -> Chunks], reach \in 0..n :
       retrieved' = cands /\ above' = reach
  /\ stage' = "select"
  /\ UNCHANGED <<request, configured, evidence, prompts, output, feedback, outcomes,
                 result, status>>

RetrieveFails ==
  /\ stage = "retrieve"
  /\ \E e \in {"RetrievalUnavailable", "RerankerUnavailable", "Unexpected"} : Finish(Failed(e))
  /\ UNCHANGED <<request, configured, retrieved, above, evidence, prompts, output,
                 feedback, outcomes, status>>

\* EvidenceSelectionError: a chunk was ranked twice.
RejectRanking ==
  /\ stage = "select"
  /\ ~UniqueChunks(retrieved)
  /\ Finish(Abstained("invalid_candidate_metadata"))
  /\ UNCHANGED <<request, configured, retrieved, above, evidence, prompts, output,
                 feedback, outcomes, status>>

Select ==
  /\ stage = "select"
  /\ UniqueChunks(retrieved)
  /\ evidence' = SelectEvidence(retrieved, request.role, request.topK)
  /\ stage' = "gate"
  /\ UNCHANGED <<request, configured, retrieved, above, prompts, output, feedback,
                 outcomes, result, status>>

\* The gate, then format_evidence, which refuses when the source headers
\* alone fill the context.
GateRejects ==
  /\ stage = "gate"
  /\ LET reason == GateReason(retrieved, request, evidence, above)
     IN  IF reason # "none"
         THEN Finish(Abstained(reason))
         ELSE /\ Cardinality(DOMAIN evidence) > ContextBlocks
              /\ Finish(Abstained("invalid_candidate_metadata"))
  /\ UNCHANGED <<request, configured, retrieved, above, evidence, prompts, output,
                 feedback, outcomes, status>>

GatePasses ==
  /\ stage = "gate"
  /\ GateReason(retrieved, request, evidence, above) = "none"
  /\ Cardinality(DOMAIN evidence) <= ContextBlocks
  /\ stage' = "generate"
  /\ UNCHANGED <<request, configured, retrieved, above, evidence, prompts, output,
                 feedback, outcomes, result, status>>

SendPrompt_NoCorrection == prompts' = Append(prompts, [evidence |-> evidence, corrections |-> {}])

\* Every generate() call shows the same evidence and the previous errors.
SendPrompt == prompts' = Append(prompts, [evidence |-> evidence, corrections |-> feedback])

GenerateOutput ==
  /\ stage = "generate"
  /\ SendPrompt
  /\ \E out \in Outputs : output' = out
  /\ stage' = "validate"
  /\ UNCHANGED <<request, configured, retrieved, above, evidence, feedback, outcomes,
                 result, status>>

InvalidAttempt_NoRetry(errs) ==
  /\ outcomes' = Append(outcomes, "invalid")
  /\ feedback' = errs
  /\ Finish(Abstained("citation_validation_failed"))

InvalidAttempt_OneTooMany(errs) ==
  /\ outcomes' = Append(outcomes, "invalid")
  /\ feedback' = errs
  /\ IF Len(outcomes) < 2
     THEN stage' = "generate" /\ UNCHANGED result
     ELSE Finish(Abstained("citation_validation_failed"))

\* The retry rule of the attempt loop: continue once, then abstain.
InvalidAttempt(errs) ==
  /\ outcomes' = Append(outcomes, "invalid")
  /\ feedback' = errs
  /\ IF outcomes = <<>>
     THEN stage' = "generate" /\ UNCHANGED result
     ELSE Finish(Abstained("citation_validation_failed"))

\* GenerationValidationError: the provider's output could not be parsed.
GenerateUnparsed ==
  /\ stage = "generate"
  /\ SendPrompt
  /\ InvalidAttempt({"unparsed"})
  /\ UNCHANGED <<request, configured, retrieved, above, evidence, output, status>>

GenerateRefused ==
  /\ stage = "generate"
  /\ SendPrompt
  /\ outcomes' = Append(outcomes, "refusal")
  /\ Finish(Abstained("llm_refusal"))
  /\ UNCHANGED <<request, configured, retrieved, above, evidence, output, feedback, status>>

GenerateFails ==
  /\ stage = "generate"
  /\ SendPrompt
  /\ outcomes' = Append(outcomes, "error")
  /\ \E e \in {"LLMNotConfigured", "LLMTimeout", "LLMUnavailable", "Unexpected"} :
       Finish(Failed(e))
  /\ UNCHANGED <<request, configured, retrieved, above, evidence, output, feedback, status>>

Errs == ValidationErrors(output, evidence, request.doc)

RejectOutput ==
  /\ stage = "validate"
  /\ Errs # {}
  /\ InvalidAttempt(Errs)
  /\ output' = NoOutput
  /\ UNCHANGED <<request, configured, retrieved, above, evidence, prompts, status>>

AcceptOutput ==
  /\ stage = "validate"
  /\ Errs = {}
  /\ output' = NoOutput
  /\ IF output.insufficient
     THEN /\ outcomes' = Append(outcomes, "insufficient")
          /\ Finish(Abstained("llm_insufficient_evidence"))
     ELSE /\ outcomes' = Append(outcomes, "valid")
          /\ Finish(Answered(CitationsOf(output, evidence)))
  /\ UNCHANGED <<request, configured, retrieved, above, evidence, prompts, feedback, status>>

\* The exception mapping of the /query route.
StatusOf(r) ==
  CASE r.kind # "failed"          -> 200
    [] r.reason = "LLMTimeout"    -> 504
    [] r.reason = "Unexpected"    -> 500
    [] OTHER                      -> 503

Respond ==
  /\ stage = "respond"
  /\ status' = StatusOf(result)
  /\ stage' = "done"
  /\ UNCHANGED <<request, configured, retrieved, above, evidence, prompts, output,
                 feedback, outcomes, result>>

Next ==
  \/ CheckConfiguration \/ Retrieve \/ RetrieveFails
  \/ RejectRanking \/ Select \/ GateRejects \/ GatePasses
  \/ GenerateOutput \/ GenerateUnparsed \/ GenerateRefused \/ GenerateFails
  \/ RejectOutput \/ AcceptOutput \/ Respond

Spec == Init /\ [][Next]_vars

(***************************************************************************)
(* Properties                                                              *)
(***************************************************************************)
Rankings     == UNION {[1..n -> Chunks] : n \in 0..MaxRetrieved}
EvidenceMaps == UNION {[S -> Chunks] : S \in SUBSET (1..MaxRetrieved)}
Outcomes     == {"invalid", "refusal", "error", "insufficient", "valid"}

\* Every variable has its type; at most two attempts are ever recorded.
TypeOK ==
  /\ stage \in {"idle", "retrieve", "select", "gate", "generate", "validate",
                "respond", "done"}
  /\ request \in Requests
  /\ configured \in BOOLEAN
  /\ retrieved \in Rankings
  /\ above \in 0..MaxRetrieved
  /\ evidence \in EvidenceMaps
  /\ prompts \in Seq([evidence : EvidenceMaps, corrections : SUBSET Errors])
  /\ output \in Outputs
  /\ feedback \in SUBSET Errors
  /\ outcomes \in Seq(Outcomes) /\ Len(outcomes) <= 2
  /\ result.kind \in {"pending", "abstained", "failed", "answered"}
  /\ result.reason \in {"none"} \cup Reasons \cup Failures
  /\ result.citations \in SUBSET Chunks
  /\ status \in {0, 200, 500, 503, 504}

\* An answer cites at least one chunk, only chunks that the last prompt showed
\* the model, and only chunks of the requested document; nothing but an answer
\* carries citations (query_service.py:198-273, citations.py).
AnswerIsGrounded ==
  /\ result.kind = "answered" =>
       /\ result.citations # {}
       /\ prompts # <<>>
       /\ \A c \in result.citations :
            /\ \E s \in DOMAIN prompts[Len(prompts)].evidence :
                 prompts[Len(prompts)].evidence[s] = c
            /\ request.doc # NoDoc => DocOf[c] = request.doc
  /\ result.kind # "answered" => result.citations = {}

\* The model never sees a prompt without evidence, with a candidate the gate
\* rejects, or with more sources than fit: generation cannot run before the
\* gate passes, on the first attempt or on the correction (ARCHITECTURE.md).
PromptsAreAdmissible ==
  \A n \in DOMAIN prompts :
    LET shown == prompts[n].evidence
    IN  /\ DOMAIN shown # {}
        /\ Cardinality(DOMAIN shown) <= ContextBlocks
        /\ \A s \in DOMAIN shown :
             /\ shown[s] \notin Malformed
             /\ request.doc # NoDoc => DocOf[shown[s]] = request.doc

\* The evidence never shows the same content under two documents
\* (select_evidence_candidates: collapse exact content across documents).
NoContentFromTwoDocuments ==
  \A s, t \in DOMAIN evidence :
    ContentOf[evidence[s]] = ContentOf[evidence[t]] => DocOf[evidence[s]] = DocOf[evidence[t]]

\* Collapsing before truncating loses nothing: content that was retrieved but
\* is not shown was outranked by top_k sources that are shown.
NothingBetterDropped ==
  stage \in {"gate", "generate", "validate"} =>
    \A i \in DOMAIN retrieved :
      \/ \E s \in DOMAIN evidence : ContentOf[evidence[s]] = ContentOf[retrieved[i]]
      \/ /\ Cardinality(DOMAIN evidence) = request.topK
         /\ \A s \in DOMAIN evidence : s < i

\* The correction attempt shows the same evidence and says what was wrong; the
\* first attempt corrects nothing (one attempt "may repair invalid source
\* labels without rerunning retrieval").
CorrectionKeepsEvidence ==
  \A n \in DOMAIN prompts :
    /\ prompts[n].evidence = prompts[1].evidence
    /\ prompts[n].corrections = {} <=> n = 1

\* How a request ends is what its attempts say: giving up on citations takes two
\* invalid outputs, a refusal or an insufficiency is never retried, a provider
\* failure is never reported as an abstention, and an answer needs a valid
\* output last.
EndingMatchesAttempts ==
  LET last == outcomes[Len(outcomes)] IN
  stage \in {"respond", "done"} =>
    /\ result.reason = "citation_validation_failed" <=> outcomes = <<"invalid", "invalid">>
    /\ outcomes = <<>> => result.kind \in {"abstained", "failed"}
    /\ outcomes # <<>> =>
         /\ last = "valid"        <=> result.kind = "answered"
         /\ last = "error"        <=> result.kind = "failed"
         /\ last = "refusal"      <=> result.reason = "llm_refusal"
         /\ last = "insufficient" <=> result.reason = "llm_insufficient_evidence"
         /\ Len(outcomes) = 2     =>  outcomes[1] = "invalid"

\* Without a query role the score gate judges the best candidate retrieved, so
\* collapsing duplicates cannot make it fail (evidence.py:68, 136-145).
NeutralGateJudgesBest ==
  request.role = "neutral" /\ result.reason = "configured_score_gate_failed" => above = 0

\* QueryService implements GroundedQuery: the evidence is what generation was
\* permitted to see, and every prompt is a call.
Permitted == stage \in {"generate", "validate"} \/ prompts # <<>>

Promise == INSTANCE GroundedQuery WITH
  MaxAttempts <- 2,
  phase   <- IF result.kind # "pending" THEN "closed"
             ELSE IF Permitted THEN "permitted" ELSE "gathering",
  allowed <- IF Permitted THEN {evidence[s] : s \in DOMAIN evidence} ELSE {},
  calls   <- Len(prompts),
  verdict <- [kind |-> result.kind, citations |-> result.citations]

KeepsPromise == Promise!GSpec
=============================================================================
