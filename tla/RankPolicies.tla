---------------------------- MODULE RankPolicies ----------------------------
(***************************************************************************)
(* How the union retriever ranks the evidence of one question: weighted    *)
(* reciprocal rank fusion with coverage reserves, removal of repeated      *)
(* content, the cross-encoder, the document-role prior and the             *)
(* list-completeness fallback (RerankPipeline.search and its policies).    *)
(*                                                                         *)
(* A chunk is a number, in the order of the chunk ids.  Scores are exact   *)
(* fractions where the code has doubles; the raw scores of the searches    *)
(* are the order of their lists, those of the cross-encoder are small      *)
(* numbers, and the cues in the texts are a number for each chunk.         *)
(***************************************************************************)
EXTENDS Naturals, Sequences, SequencesExt, FiniteSets

CONSTANTS
  Chunks,         \* numbers in the order of the chunk ids
  DocOf, RoleOf,  \* chunk -> document, document -> "installation" or "programming"
  Content,        \* chunk -> fingerprint of its text
  DenseLimit, SparseLimit,      \* lengths of the two lists
  RrfK, DenseWeight, SparseWeight, FusionBoost,  \* weights and boost as fractions
  DenseReserve, SparseReserve, MaxCandidates,
  RoleWeight, RankOffset,       \* post-rerank role prior
  Kept, WindowEnd, ListOffset,  \* the fallback reorders ranks Kept+1..WindowEnd
  Scores, Features              \* cross-encoder scores and counts of list cues

Fractions == Nat \X (Nat \ {0})

ASSUME RankAssumption ==
  /\ Chunks \subseteq Nat /\ IsFiniteSet(Chunks)
  /\ {DenseLimit, SparseLimit, RrfK, DenseReserve, SparseReserve, RankOffset,
      Kept, WindowEnd, ListOffset} \subseteq Nat
  /\ RrfK > 0 /\ RankOffset > 0 /\ MaxCandidates \in Nat \ {0} /\ Kept < WindowEnd
  /\ {DenseWeight, SparseWeight, FusionBoost, RoleWeight} \subseteq Fractions
  /\ FusionBoost[1] >= FusionBoost[2]
  /\ DenseReserve + SparseReserve <= MaxCandidates
  /\ Scores \subseteq Nat /\ Features \subseteq Nat

VARIABLES
  stage,
  dense, sparse,  \* the two retrieved lists
  queryRole,      \* infer_query_role
  pool,           \* candidates before the cross-encoder
  judged,         \* cross-encoder order
  preferred,      \* order after the role prior
  ranking,        \* final order
  score           \* chunk -> score of the ranking so far

rankVars == <<stage, dense, sparse, queryRole, pool, judged, preferred, ranking, score>>

Stages    == {"retrieve", "fuse", "deduplicate", "rerank", "role", "list", "done", "failed"}
QueryRole == {RoleOf[d] : d \in {DocOf[c] : c \in Chunks}} \cup {"neutral"}
Lists(n)  == {s \in UNION {[1..k -> Chunks] : k \in 0..n} : IsInjective(s)}

(***************************************************************************)
(* Fractions and orders                                                    *)
(***************************************************************************)
Over(w, n)   == <<w[1], w[2] * n>>
Plus(x, y)   == <<x[1] * y[2] + y[1] * x[2], x[2] * y[2]>>
Times(x, y)  == <<x[1] * y[1], x[2] * y[2]>>
Higher(x, y) == x[1] * y[2] > y[1] * x[2]
Zero         == <<0, 1>>
Whole(f)     == [c \in DOMAIN f |-> <<f[c], 1>>]

Rank(list, c)         == CHOOSE n \in DOMAIN list : list[n] = c
Before(list, c, d)    == Rank(list, c) < Rank(list, d)
FirstOf(list, n)      == SubSeq(list, 1, IF n < Len(list) THEN n ELSE Len(list))
ListOrder(list)       == {p \in ToSet(list) \X ToSet(list) : Before(list, p[1], p[2])}

\* Pairs in the order of a score, the highest first; equal ones as ties says.
HighestFirst(scores, ties) ==
  {p \in (DOMAIN scores) \X (DOMAIN scores) :
     \/ Higher(scores[p[1]], scores[p[2]])
     \/ ~Higher(scores[p[2]], scores[p[1]]) /\ p \in ties}

\* A set in an order of pairs: each member stands behind those before it.
SortedBy(S, order) ==
  [n \in 1..Cardinality(S) |->
     CHOOSE c \in S : Cardinality({d \in S : <<d, c>> \in order}) = n - 1]

(***************************************************************************)
(* Fusion                                                                  *)
(***************************************************************************)
Share(w, list, c) == IF c \in ToSet(list) THEN Over(w, RrfK + Rank(list, c)) ELSE Zero

HasRole(c) == queryRole # "neutral" /\ RoleOf[DocOf[c]] = queryRole

FusedScore_FirstOnly(c) ==
  LET sum == IF c \in ToSet(dense) THEN Share(DenseWeight, dense, c)
             ELSE Share(SparseWeight, sparse, c)
  IN  IF HasRole(c) THEN Times(FusionBoost, sum) ELSE sum

FusedScore(c) ==
  LET sum == Plus(Share(DenseWeight, dense, c), Share(SparseWeight, sparse, c))
  IN  IF HasRole(c) THEN Times(FusionBoost, sum) ELSE sum

Candidates == ToSet(dense) \cup ToSet(sparse)

\* A chunk of both lists keeps the better of its two ranks.
ListRanks(c) == {Rank(l, c) : l \in {x \in {dense, sparse} : c \in ToSet(x)}}
BestRank(c)  == CHOOSE n \in ListRanks(c) : \A k \in ListRanks(c) : n <= k

BestRankOrder ==
  {p \in Candidates \X Candidates :
     \/ BestRank(p[1]) < BestRank(p[2])
     \/ BestRank(p[1]) = BestRank(p[2]) /\ p[1] < p[2]}

FusionOrder == HighestFirst([c \in Candidates |-> FusedScore(c)], BestRankOrder)

Fused == SortedBy(Candidates, FusionOrder)

Mandatory == ToSet(FirstOf(dense, DenseReserve)) \cup ToSet(FirstOf(sparse, SparseReserve))

Selected_BestOnly == ToSet(FirstOf(Fused, MaxCandidates))

\* The reserves of both lists, then the best of the others.
Selected ==
  Mandatory \cup
  ToSet(FirstOf(SortedBy(Candidates \ Mandatory, FusionOrder),
                MaxCandidates - Cardinality(Mandatory)))

SameText(c, d) == DocOf[c] = DocOf[d] /\ Content[c] = Content[d]

CandidatePool == SortedBy(Selected, FusionOrder)

\* The first of each text of a document.
Distinct(list) ==
  {c \in ToSet(list) : ~\E d \in ToSet(list) : SameText(c, d) /\ Before(list, d, c)}

(***************************************************************************)
(* The relevance judgements of a question                                  *)
(***************************************************************************)
Expanded_NotAtAll(Q) == Q

\* expand_exact_equivalent_qrels
Expanded(Q) == {c \in Chunks : \E d \in Q : SameText(c, d)}

\* direct_evidence_rank, 0 when no relevant chunk is listed.
RelevantRank(list, Q) ==
  LET hits == {n \in DOMAIN list : list[n] \in Q}
  IN  IF hits = {} THEN 0 ELSE CHOOSE n \in hits : \A k \in hits : n <= k

(***************************************************************************)
(* Actions                                                                 *)
(***************************************************************************)
RankInit ==
  /\ stage = "retrieve"
  /\ dense = <<>> /\ sparse = <<>>
  /\ queryRole \in QueryRole
  /\ pool = <<>> /\ judged = <<>> /\ preferred = <<>> /\ ranking = <<>>
  /\ score = [c \in Chunks |-> Zero]

Retrieve ==
  /\ stage = "retrieve"
  /\ dense' \in Lists(DenseLimit)
  /\ sparse' \in Lists(SparseLimit)
  /\ stage' = "fuse"
  /\ UNCHANGED <<queryRole, pool, judged, preferred, ranking, score>>

\* select_coverage_preserving_candidates
Fuse ==
  /\ stage = "fuse"
  /\ IF Cardinality(Mandatory) > MaxCandidates
     THEN stage' = "failed" /\ UNCHANGED pool
     ELSE stage' = "deduplicate" /\ pool' = CandidatePool
  /\ UNCHANGED <<dense, sparse, queryRole, judged, preferred, ranking, score>>

\* deduplicate_candidates_by_content
Deduplicate ==
  /\ stage = "deduplicate"
  /\ pool' = SortedBy(Distinct(pool), ListOrder(pool))
  /\ stage' = "rerank"
  /\ UNCHANGED <<dense, sparse, queryRole, judged, preferred, ranking, score>>

\* rerank_candidates: any scores; equal ones keep the order of the pool.
Rerank ==
  /\ stage = "rerank"
  /\ \E s \in [ToSet(pool) -> Scores] :
       /\ judged' = SortedBy(ToSet(pool), HighestFirst(Whole(s), ListOrder(pool)))
       /\ score' = [c \in Chunks |-> IF c \in ToSet(pool) THEN Whole(s)[c] ELSE Zero]
  /\ stage' = "role"
  /\ UNCHANGED <<dense, sparse, queryRole, pool, preferred, ranking>>

\* The cross-encoder raises or returns scores that are not usable.
RerankFails ==
  /\ stage = "rerank"
  /\ pool # <<>>
  /\ stage' = "failed"
  /\ UNCHANGED <<dense, sparse, queryRole, pool, judged, preferred, ranking, score>>

RoleRank(c) == Cardinality({d \in ToSet(judged) : HasRole(d) /\ ~Before(judged, c, d)})

RoleScore_Others(c) ==
  LET base == Over(<<1, 1>>, RankOffset + Rank(judged, c))
  IN  IF HasRole(c) THEN base ELSE Plus(base, Over(RoleWeight, RankOffset + Rank(judged, c)))

RoleScore(c) ==
  LET base == Over(<<1, 1>>, RankOffset + Rank(judged, c))
  IN  IF HasRole(c) THEN Plus(base, Over(RoleWeight, RankOffset + RoleRank(c))) ELSE base

RoleOrder == HighestFirst([c \in ToSet(judged) |-> RoleScore(c)], ListOrder(judged))

\* apply_role_aware_rank_fusion
ApplyRole ==
  /\ stage = "role"
  /\ IF queryRole = "neutral"
     THEN preferred' = judged /\ UNCHANGED score
     ELSE /\ preferred' = SortedBy(ToSet(judged), RoleOrder)
          /\ score' = [c \in Chunks |-> IF c \in ToSet(judged) THEN RoleScore(c) ELSE Zero]
  /\ stage' = "list"
  /\ UNCHANGED <<dense, sparse, queryRole, pool, judged, ranking>>

\* The query does not ask for a list, or there are too few candidates.
KeepOrder ==
  /\ stage = "list"
  /\ ranking' = preferred
  /\ stage' = "done"
  /\ UNCHANGED <<dense, sparse, queryRole, pool, judged, preferred, score>>

Window == SubSeq(preferred, Kept + 1, IF WindowEnd < Len(preferred) THEN WindowEnd ELSE Len(preferred))

Promoted_Overlaps(f) ==
  FirstOf(preferred, Kept)
  \o SortedBy(ToSet(Window), HighestFirst(Whole(f), ListOrder(preferred)))
  \o SubSeq(preferred, WindowEnd, Len(preferred))

Promoted(f) ==
  FirstOf(preferred, Kept)
  \o SortedBy(ToSet(Window), HighestFirst(Whole(f), ListOrder(preferred)))
  \o SubSeq(preferred, WindowEnd + 1, Len(preferred))

\* apply_relation_list_completeness_from_metadata, for any cues in the texts.
ApplyList ==
  /\ stage = "list"
  /\ Len(preferred) > Kept
  /\ \E f \in [ToSet(Window) -> Features] : ranking' = Promoted(f)
  /\ score' = [c \in Chunks |-> IF c \in ToSet(preferred)
                                THEN Over(<<1, 1>>, ListOffset + Rank(ranking', c)) ELSE Zero]
  /\ stage' = "done"
  /\ UNCHANGED <<dense, sparse, queryRole, pool, judged, preferred>>

RankNext ==
  \/ Retrieve \/ Fuse \/ Deduplicate \/ Rerank \/ RerankFails \/ ApplyRole
  \/ KeepOrder \/ ApplyList

RankSpec == RankInit /\ [][RankNext]_rankVars

(***************************************************************************)
(* Properties                                                              *)
(***************************************************************************)

\* No list says that c is worse than d.
NoWorse(list, c, d) ==
  d \in ToSet(list) => c \in ToSet(list) /\ ~Before(list, d, c)

\* The profile never makes its own policies raise, so a ranking fails by the
\* cross-encoder only; and each chunk of a reserve has its text among the candidates
\* of the cross-encoder, from its own document: neither the budget nor the removal
\* of repeated content loses it (fusion.py:200, reranking_service.py:285).
ReservesSurvive ==
  /\ stage = "failed" => pool # <<>>
  /\ stage = "rerank" =>
    /\ Len(pool) <= MaxCandidates
    /\ \A c \in Mandatory : \E d \in ToSet(pool) : SameText(c, d)

\* A chunk that no list ranks lower than another, and one ranks higher, is fused
\* before it, unless the other alone has the role of the query.
FusionIsMonotone ==
  stage = "deduplicate" =>
    \A c, d \in ToSet(pool) :
      /\ c # d
      /\ NoWorse(dense, c, d) /\ NoWorse(sparse, c, d)
      /\ HasRole(d) => HasRole(c)
      => Before(pool, c, d)

\* What follows the cross-encoder reorders its candidates and loses or repeats
\* none of them, and no two of them are one text of one document, so evidence
\* selection never meets a chunk twice (evidence.py:92).
RankingIsPool ==
  stage = "done" =>
    /\ ToSet(ranking) = ToSet(pool) /\ Len(ranking) = Len(pool)
    /\ \A c, d \in ToSet(ranking) : SameText(c, d) => c = d

\* The evaluation counts a question as hit at the rank of its first relevant chunk.
\* Removing repeated content may remove a relevant chunk, but since the qrels are
\* closed under it, it never costs a hit nor a place, whatever chunks are relevant
\* (reranking_service.py:285, dataset.py:448-491).
DeduplicationKeepsHits ==
  stage = "rerank" =>
    LET candidates == CandidatePool
    IN  \A Q \in SUBSET Chunks :
          LET before == RelevantRank(candidates, Expanded(Q))
          IN  before # 0 => RelevantRank(pool, Expanded(Q)) \in 1..before

\* The role prior only promotes: a pair changes places only if the lower one has
\* the role of the query and the higher one has not.
RoleOnlyPromotes ==
  stage \in {"list", "done"} =>
    \A c, d \in ToSet(judged) :
      Before(judged, c, d) /\ Before(preferred, d, c) => HasRole(d) /\ ~HasRole(c)
=============================================================================
