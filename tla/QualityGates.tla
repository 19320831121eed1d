---------------------------- MODULE QualityGates ----------------------------
(***************************************************************************)
(* From executed queries to the verdict of the release gates: each item of *)
(* the dataset is executed and scored (score_query_execution), an answer   *)
(* may be judged by the three semantic metrics (semantic.py), and the      *)
(* complete records are aggregated and compared with the thresholds        *)
(* (aggregate_query_records, evaluate_quality_gates).                      *)
(*                                                                         *)
(* A rank is 0 when no relevant chunk is in the list.  Whether an answer   *)
(* states all the facts of its item is decided by FactMatching.  Rates are *)
(* exact fractions; the code's doubles compare alike for these counts.     *)
(***************************************************************************)
EXTENDS Naturals, Sequences, FiniteSets

CONSTANTS
  Answerable,            \* for each item of the dataset in order: is it answerable?
  Ranks,                 \* ranks a relevant chunk may have, with 0
  TopRanked, TopFinal,   \* cutoffs of the failure classes
  RecallGate, FactGate, PrecisionGate, AbstentionGate,  \* thresholds, as fractions
  Judged,                \* values of --semantic-judge: {FALSE}, {TRUE} or both
  MaxFailures            \* bound on failing judge calls

Fractions == {f \in Nat \X (Nat \ {0}) : f[1] <= f[2]}

ASSUME GatesAssumption ==
  /\ Answerable \in Seq(BOOLEAN)
  /\ {Answerable[n] : n \in DOMAIN Answerable} = BOOLEAN
  /\ 0 \in Ranks /\ Ranks \subseteq Nat /\ TopRanked \in Nat /\ TopFinal \in Nat
  /\ {RecallGate, FactGate, PrecisionGate, AbstentionGate} \subseteq Fractions
  /\ PrecisionGate[1] > 0 /\ Judged \subseteq BOOLEAN /\ MaxFailures \in Nat

VARIABLES
  judging,   \* is the semantic judge enabled?
  records,   \* scored items
  pending,   \* the record whose answer is being judged, or NoRecord
  metrics,   \* semantic metrics the pending answer has got
  failures,
  verdict    \* "open", "pass" or "fail"

gateVars == <<judging, records, pending, metrics, failures, verdict>>

NoRecord == [answerable |-> FALSE]
Metrics  == <<"faithfulness", "answer_relevancy", "context_precision">>

(***************************************************************************)
(* score_query_execution                                                   *)
(***************************************************************************)
\* What executing an item may give.  The ranking is made of the pool and the
\* evidence of the ranking; an answer cites evidence only, be it of the expected
\* documents or not.
Executions(answerable) ==
  IF ~answerable THEN [answerable : {FALSE}, abstained : BOOLEAN]
  ELSE {e \in [answerable : {TRUE}, abstained : BOOLEAN, candidate : BOOLEAN,
               rankedRank : Ranks, finalRank : Ranks,
               factsMatch : BOOLEAN, wrongDocument : BOOLEAN] :
          /\ ~e.candidate => e.rankedRank = 0
          /\ e.rankedRank = 0 => e.finalRank = 0
          /\ e.abstained => ~e.factsMatch /\ ~e.wrongDocument}

\* _failure_class, and the classes of unanswerable items
FailureClass(e) ==
  IF ~e.answerable THEN IF e.abstained THEN "correct_abstention" ELSE "false_answer"
  ELSE IF ~e.candidate THEN "candidate_miss"
  ELSE IF e.rankedRank = 0 \/ e.rankedRank > TopRanked THEN "reranker_miss_top20"
  ELSE IF e.finalRank = 0 \/ e.finalRank > TopFinal THEN "reranker_miss_top5"
  ELSE "hit"

Record(e, semantic) ==
  [execution |-> e, failureClass |-> FailureClass(e), semantic |-> semantic]

(***************************************************************************)
(* aggregate_query_records and evaluate_quality_gates                      *)
(***************************************************************************)
\* The number of records with a property.
Number(recs, P(_)) == Cardinality({n \in DOMAIN recs : P(recs[n].execution)})

Answered(e) == e.answerable /\ ~e.abstained

AnswerableCount(recs)   == Number(recs, LAMBDA e : e.answerable)
UnanswerableCount(recs) == Number(recs, LAMBDA e : ~e.answerable)
AnsweredCount(recs)     == Number(recs, Answered)

\* A rate of an empty group is 0.
AtLeast(count, total, gate) ==
  IF total = 0 THEN gate[1] = 0 ELSE count * gate[2] >= gate[1] * total

CandidateRecall_OfAnswered(recs) ==
  AtLeast(Number(recs, LAMBDA e : Answered(e) /\ e.candidate), AnsweredCount(recs), RecallGate)

\* Of the answerable items, those with a relevant chunk in the pool.
CandidateRecall(recs) ==
  AtLeast(Number(recs, LAMBDA e : e.answerable /\ e.candidate),
          AnswerableCount(recs), RecallGate)

FactAccuracy_OfAnswerable(recs) ==
  AtLeast(Number(recs, LAMBDA e : Answered(e) => e.factsMatch),
          Len(recs), FactGate)

\* Of the answers to answerable items, those that state all the facts.
FactAccuracy(recs) ==
  AtLeast(Number(recs, LAMBDA e : Answered(e) /\ e.factsMatch),
          AnsweredCount(recs), FactGate)

\* The citations of an answer are of its evidence (QueryService.AnswerIsGrounded),
\* so that the rate of valid citations is 1 as soon as there is an answer.
ValidCitations(recs) == AnsweredCount(recs) > 0

WrongDocuments(recs) == Number(recs, LAMBDA e : Answered(e) /\ e.wrongDocument)

TruePositives(recs)  == Number(recs, LAMBDA e : ~e.answerable /\ e.abstained)
FalsePositives(recs) == Number(recs, LAMBDA e : e.answerable /\ e.abstained)

AbstentionPrecision(recs) ==
  AtLeast(TruePositives(recs), TruePositives(recs) + FalsePositives(recs), PrecisionGate)

AbstentionRecall(recs) ==
  AtLeast(TruePositives(recs), UnanswerableCount(recs), AbstentionGate)

\* evaluate_quality_gates: every gate must pass.
OverallPass(recs) ==
  /\ CandidateRecall(recs)
  /\ ValidCitations(recs)
  /\ WrongDocuments(recs) = 0
  /\ FactAccuracy(recs)
  /\ AbstentionPrecision(recs)
  /\ AbstentionRecall(recs)

(***************************************************************************)
(* The run                                                                 *)
(***************************************************************************)
GateInit ==
  /\ judging \in Judged
  /\ records = <<>> /\ pending = NoRecord /\ metrics = 0
  /\ failures = 0 /\ verdict = "open"

\* The next item is executed and scored; an abstention is not judged.
ScoreItem ==
  /\ pending = NoRecord /\ Len(records) < Len(Answerable)
  /\ \E e \in Executions(Answerable[Len(records) + 1]) :
       IF judging /\ ~e.abstained
       THEN pending' = e /\ UNCHANGED records
       ELSE /\ records' = Append(records, Record(e, IF judging THEN "not applicable" ELSE "none"))
            /\ UNCHANGED pending
  /\ UNCHANGED <<judging, metrics, failures, verdict>>

\* The judge scores one metric of the pending answer within its range, and the
\* record is complete with the last one.
JudgeMetric ==
  /\ pending # NoRecord
  /\ IF metrics + 1 < Len(Metrics)
     THEN metrics' = metrics + 1 /\ UNCHANGED <<records, pending>>
     ELSE /\ metrics' = 0
          /\ records' = Append(records, Record(pending, "complete"))
          /\ pending' = NoRecord
  /\ UNCHANGED <<judging, failures, verdict>>

JudgeFails_Recorded ==
  /\ pending # NoRecord /\ failures < MaxFailures
  /\ failures' = failures + 1
  /\ records' = Append(records, Record(pending, "failed"))
  /\ pending' = NoRecord /\ metrics' = 0
  /\ UNCHANGED <<judging, verdict>>

\* The provider fails, or a score is not finite or out of its range: the command
\* ends without a record of the item and is resumed from its checkpoint.
JudgeFails ==
  /\ pending # NoRecord /\ failures < MaxFailures
  /\ failures' = failures + 1
  /\ pending' = NoRecord /\ metrics' = 0
  /\ UNCHANGED <<judging, records, verdict>>

\* The records are complete: the gates judge them.
JudgeRun ==
  /\ verdict = "open" /\ pending = NoRecord /\ Len(records) = Len(Answerable)
  /\ verdict' = IF OverallPass(records) THEN "pass" ELSE "fail"
  /\ UNCHANGED <<judging, records, pending, metrics, failures>>

GateNext == ScoreItem \/ JudgeMetric \/ JudgeFails \/ JudgeRun

GateSpec == GateInit /\ [][GateNext]_gateVars

(***************************************************************************)
(* aggregate_semantic_records                                              *)
(***************************************************************************)
SemanticCount(recs, status) == Cardinality({n \in DOMAIN recs : recs[n].semantic = status})

EligibleCount(recs)   == SemanticCount(recs, "complete")
ExcludedCount(recs)   == SemanticCount(recs, "not applicable")
InvocationCount(recs) == EligibleCount(recs) * Len(Metrics)

(***************************************************************************)
(* Properties                                                              *)
(***************************************************************************)
\* A pass is earned by right answers: no combination of abstaining, of answering
\* little and of empty groups passes.  With p the precision gate, at most U(1-p)/p
\* answerable items of A may go unanswered, and the fact gate is of what is left
\* (e2e.py:217-257).
PassIsEarned ==
  LET A == AnswerableCount(records)
      U == UnanswerableCount(records)
      p == PrecisionGate
      right == Number(records, LAMBDA e : Answered(e) /\ e.factsMatch)
  IN  verdict = "pass" =>
        /\ FactGate[2] * p[1] * right + FactGate[1] * (p[2] - p[1]) * U >= FactGate[1] * p[1] * A
        /\ Number(records, LAMBDA e : FailureClass(e) = "false_answer") * AbstentionGate[2]
             <= (AbstentionGate[2] - AbstentionGate[1]) * U
        /\ Number(records, LAMBDA e : FailureClass(e) = "candidate_miss") * RecallGate[2]
             <= (RecallGate[2] - RecallGate[1]) * A

\* At least as good on every count: the right chunk is found, an item is answered
\* if and only if it is answerable, with all facts and from its documents.
Better(e, d) ==
  IF ~e.answerable THEN d.abstained => e.abstained
  ELSE /\ d.candidate => e.candidate
       /\ e.abstained => d.abstained
       /\ d.factsMatch => e.factsMatch
       /\ ~e.abstained /\ d.abstained => e.factsMatch /\ ~e.wrongDocument
       /\ e.wrongDocument => d.wrongDocument

\* Doing better on an item never turns a pass into a fail: no rate is better for
\* a system that answers worse.
BetterNeverFails ==
  verdict = "pass" =>
    \A n \in DOMAIN records : \A e \in Executions(Answerable[n]) :
      Better(e, records[n].execution) =>
        OverallPass([records EXCEPT ![n] = Record(e, records[n].semantic)])

\* The semantic means are over every answer and nothing else, whatever failed on
\* the way: a failing answer is executed again, never left out of the means
\* (semantic.py:290-314, evaluate_e2e.py:189).
MeansCoverAnswers ==
  verdict # "open" /\ judging =>
    /\ InvocationCount(records)
         = Len(Metrics) * Number(records, LAMBDA e : ~e.abstained)
    /\ EligibleCount(records) + ExcludedCount(records) = Len(records)
=============================================================================
