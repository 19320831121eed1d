-------------------------- MODULE QueryServiceProofs --------------------------
(***************************************************************************)
(* Proofs about QueryService, for every set of chunks and documents, every *)
(* ranking length, every top_k and every context size.                     *)
(***************************************************************************)
EXTENDS QueryService, TLAPS, WellFoundedInduction, FiniteSetTheorems, SequenceTheorems

(***************************************************************************)
(* Lemmas about evidence selection.                                        *)
(***************************************************************************)

\* A nonempty set of ranks has a best rank.
LEMMA BestIsLeast ==
  ASSUME NEW G \in SUBSET Nat, G # {}
  PROVE  Best(G) \in G /\ \A j \in G : Best(G) <= j
<1> DEFINE R == {ss \in Nat \X Nat : ss[1] < ss[2]}
<1>1. PICK i \in G : \A j \in G : ~ (<<j, i>> \in R)
  BY NatLessThanWellFounded, WFMin, Zenon DEF OpToRel
<1>2. ASSUME NEW j \in G PROVE i <= j
  <2>1. ~ (<<j, i>> \in R)
    BY <1>1
  <2>2. i \in Nat /\ j \in Nat /\ ~(j < i)
    BY <2>1
  <2> QED BY <2>2
<1> QED BY <1>2 DEF Best

\* The candidate that stands at a rank is a retrieved one with the content of
\* that rank, and the retrieved one itself when its content is in one document.
LEMMA StandsAtItsContent ==
  ASSUME NEW cands \in Rankings, NEW role, NEW i \in Ranks(cands)
  PROVE  /\ StandsAt(cands, role, i) \in Ranks(cands)
         /\ ContentOf[cands[StandsAt(cands, role, i)]] = ContentOf[cands[i]]
         /\ ~CrossDocument(cands, Group(cands, i)) => StandsAt(cands, role, i) = i
<1> DEFINE G == Group(cands, i)
           P == Preferred(cands, G, role)
<1>1. Ranks(cands) \subseteq Nat
  BY DEF Rankings, Ranks
<1>2. i \in G /\ G \subseteq Ranks(cands) /\ P \subseteq G
  BY DEF Group, Preferred
<1>3. Representative(cands, G, role) \in G
  <2>1. CASE P # {}
    BY <2>1, <1>1, <1>2, BestIsLeast DEF Representative
  <2>2. CASE P = {}
    BY <2>2, <1>1, <1>2, BestIsLeast DEF Representative
  <2> QED BY <2>1, <2>2
<1>4. StandsAt(cands, role, i) \in G
  BY <1>2, <1>3 DEF StandsAt
<1>5. ~CrossDocument(cands, G) => StandsAt(cands, role, i) = i
  BY DEF StandsAt
<1> QED BY <1>4, <1>5 DEF Group, StandsAt

\* The evidence is a map from ranks to retrieved chunks.
LEMMA SelectionTyped ==
  ASSUME NEW cands \in Rankings, NEW role, NEW k
  PROVE  SelectEvidence(cands, role, k) \in EvidenceMaps
<1> DEFINE S == FirstRanks(KeptRanks(cands), k)
<1>1. PICK n \in 0..MaxRetrieved : cands \in [1..n -> Chunks]
  BY DEF Rankings
<1>2. S \subseteq Ranks(cands) /\ Ranks(cands) = 1..n
  BY <1>1 DEF FirstRanks, KeptRanks, Ranks
<1>3. S \in SUBSET (1..MaxRetrieved)
  BY <1>1, <1>2, QueryAssumption DEF QueryAssumption
<1>4. \A i \in S : cands[StandsAt(cands, role, i)] \in Chunks
  BY <1>1, <1>2, StandsAtItsContent
<1>5. SelectEvidence(cands, role, k) \in [S -> Chunks]
  BY <1>4 DEF SelectEvidence
<1> QED BY <1>3, <1>5 DEF EvidenceMaps

\* No content is shown under two documents: a group that spans documents keeps
\* one rank.
LEMMA SelectionCollapses ==
  ASSUME NEW cands \in Rankings, NEW role, NEW k,
         NEW s \in DOMAIN SelectEvidence(cands, role, k),
         NEW t \in DOMAIN SelectEvidence(cands, role, k),
         ContentOf[SelectEvidence(cands, role, k)[s]] = ContentOf[SelectEvidence(cands, role, k)[t]]
  PROVE  DocOf[SelectEvidence(cands, role, k)[s]] = DocOf[SelectEvidence(cands, role, k)[t]]
<1> DEFINE ev == SelectEvidence(cands, role, k)
<1>1. s \in KeptRanks(cands) /\ t \in KeptRanks(cands)
  BY DEF SelectEvidence, FirstRanks
<1>2. s \in Ranks(cands) /\ t \in Ranks(cands)
  BY <1>1 DEF KeptRanks
<1>3. ev[s] = cands[StandsAt(cands, role, s)] /\ ev[t] = cands[StandsAt(cands, role, t)]
  BY DEF SelectEvidence
<1>4. ContentOf[cands[s]] = ContentOf[cands[t]]
  BY <1>2, <1>3, StandsAtItsContent
<1>5. Group(cands, s) = Group(cands, t) /\ s \in Group(cands, s) /\ t \in Group(cands, s)
  BY <1>2, <1>4 DEF Group
<1>6. CASE CrossDocument(cands, Group(cands, s))
  <2>1. s = Best(Group(cands, s)) /\ t = Best(Group(cands, t))
    BY <1>1, <1>5, <1>6 DEF KeptRanks
  <2> QED BY <2>1, <1>5
<1>7. CASE ~CrossDocument(cands, Group(cands, s))
  <2>1. StandsAt(cands, role, s) = s /\ StandsAt(cands, role, t) = t
    BY <1>2, <1>5, <1>7, StandsAtItsContent
  <2> QED BY <2>1, <1>3, <1>5, <1>7 DEF CrossDocument
<1> QED BY <1>6, <1>7

\* The ranks above x in a set of ranks.
Above(K, x) == {j \in K : j < x}

\* Truncating to k keeps the k best ranks: when a rank is cut, k are kept and
\* each of them is better.
LEMMA FirstRanksAreBest ==
  ASSUME NEW K \in SUBSET Nat, IsFiniteSet(K), NEW k \in Nat,
         NEW x \in K \ FirstRanks(K, k)
  PROVE  /\ Cardinality(FirstRanks(K, k)) = k
         /\ \A s \in FirstRanks(K, k) : s < x
<1> DEFINE F == FirstRanks(K, k)
<1>1. /\ F \in SUBSET K /\ IsFiniteSet(F) /\ Cardinality(F) \in Nat
      /\ \A j \in K : j \in Nat
      /\ x \in K /\ x \notin F
  <2>1. F \in SUBSET K
    BY DEF FirstRanks
  <2> QED BY <2>1, FS_Subset, FS_CardinalityType
<1>2. ASSUME NEW i \in K
      PROVE  IsFiniteSet(Above(K, i)) /\ Cardinality(Above(K, i)) \in Nat
  <2>1. Above(K, i) \in SUBSET K
    BY DEF Above
  <2> QED BY <2>1, FS_Subset, FS_CardinalityType
<1>3. \A i \in K : i \in F <=> Cardinality(Above(K, i)) < k
  BY DEF FirstRanks, Above
<1> HIDE DEF F
<1>4. ASSUME NEW s \in F, NEW y \in K, y \notin F PROVE s < y
  <2>1. SUFFICES ASSUME ~(s < y) PROVE FALSE
    OBVIOUS
  <2>2. s \in K /\ s \in Nat /\ y \in Nat
    BY <1>1
  <2>3. Above(K, y) \in SUBSET Above(K, s)
    <3>1. \A j \in K : j < y => j < s
      BY <1>1, <2>1, <2>2
    <3> QED BY <3>1 DEF Above
  <2>4. Cardinality(Above(K, y)) <= Cardinality(Above(K, s))
    BY <1>2, <2>2, <2>3, FS_Subset
  <2>5. Cardinality(Above(K, s)) < k /\ ~(Cardinality(Above(K, y)) < k)
    BY <1>3, <1>4, <2>2
  <2> QED BY <1>2, <2>2, <2>4, <2>5
<1>5. k <= Cardinality(F)
  <2> DEFINE m == Best(K \ F)
  <2>1. m \in K /\ m \notin F /\ \A j \in K \ F : m <= j
    <3>1. K \ F \in SUBSET Nat /\ K \ F # {}
      BY <1>1
    <3> QED BY <3>1, BestIsLeast
  <2> HIDE DEF m
  <2>2. Above(K, m) = F
    <3>1. \A j \in K : j < m => j \in F
      BY <1>1, <2>1
    <3>2. \A j \in F : j < m
      BY <1>4, <2>1
    <3> QED BY <1>1, <3>1, <3>2 DEF Above
  <2>3. ~(Cardinality(F) < k)
    BY <1>3, <2>1, <2>2
  <2> QED BY <1>1, <2>3
<1>6. \A s \in F : s < x
  BY <1>1, <1>4
<1>7. Cardinality(F) <= k
  <2>1. CASE F = {}
    BY <2>1, FS_EmptySet
  <2>2. CASE F # {}
    <3> DEFINE Mirror == {x - s : s \in F}
    <3>1. Mirror \in SUBSET Nat
      <4>1. ASSUME NEW s \in F PROVE x - s \in Nat
        <5>1. s \in Nat /\ x \in Nat /\ s < x
          BY <1>1, <1>6
        <5> QED BY <5>1
      <4> QED BY <4>1
    <3>2. Mirror # {}
      BY <2>2
    <3>3. PICK l \in F : Best(Mirror) = x - l
      BY <3>1, <3>2, BestIsLeast
    <3>4. ASSUME NEW j \in F PROVE j <= l
      <4>1. x - l <= x - j
        BY <3>1, <3>2, <3>3, BestIsLeast
      <4>2. x \in Nat /\ l \in Nat /\ j \in Nat
        BY <1>1
      <4> QED BY <4>1, <4>2
    <3>5. F \ {l} \in SUBSET Above(K, l)
      <4>1. ASSUME NEW j \in F, j # l PROVE j \in K /\ j < l
        <5>1. j \in K /\ j \in Nat /\ l \in Nat /\ j <= l
          BY <1>1, <3>4
        <5> QED BY <4>1, <5>1
      <4> QED BY <4>1 DEF Above
    <3>6. l \in K
      BY <1>1
    <3>7. Cardinality(F \ {l}) <= Cardinality(Above(K, l))
      BY <1>2, <3>5, <3>6, FS_Subset
    <3>8. Cardinality(F \ {l}) = Cardinality(F) - 1
      BY <1>1, FS_RemoveElement
    <3>9. Cardinality(Above(K, l)) < k /\ Cardinality(Above(K, l)) \in Nat
      BY <1>2, <1>3, <3>6
    <3> QED BY <1>1, <3>7, <3>8, <3>9
  <2> QED BY <2>1, <2>2
<1>8. Cardinality(F) = k
  BY <1>1, <1>5, <1>7
<1> QED BY <1>6, <1>8 DEF F

\* Content that was retrieved and is not shown was outranked by k sources.
LEMMA SelectionDropsOnlyWorse ==
  ASSUME NEW cands \in Rankings, NEW role, NEW k \in Nat, NEW i \in DOMAIN cands
  PROVE  LET ev == SelectEvidence(cands, role, k) IN
         \/ \E s \in DOMAIN ev : ContentOf[ev[s]] = ContentOf[cands[i]]
         \/ /\ Cardinality(DOMAIN ev) = k
            /\ \A s \in DOMAIN ev : s < i
<1> DEFINE ev == SelectEvidence(cands, role, k)
           K  == KeptRanks(cands)
           G  == Group(cands, i)
           x  == IF CrossDocument(cands, G) THEN Best(G) ELSE i
<1>1. PICK n \in 0..MaxRetrieved : cands \in [1..n -> Chunks]
  BY DEF Rankings
<1>2. DOMAIN ev = FirstRanks(K, k) /\ K \in SUBSET Nat /\ IsFiniteSet(K)
  <2>1. K \in SUBSET (1..n)
    BY <1>1 DEF KeptRanks, Ranks
  <2>2. IsFiniteSet(1..n)
    BY <1>1, FS_Interval
  <2> QED BY <2>1, <2>2, FS_Subset DEF SelectEvidence
<1>3. i \in G /\ G \in SUBSET Nat
  BY <1>1 DEF Group, Ranks
<1>4. x \in G /\ x <= i
  BY <1>3, BestIsLeast
<1>5. x \in Ranks(cands) /\ ContentOf[cands[x]] = ContentOf[cands[i]]
  BY <1>4 DEF Group
<1>6. Group(cands, x) = G
  BY <1>5 DEF Group
<1>7. x \in K
  BY <1>5, <1>6 DEF KeptRanks
<1>8. CASE x \in FirstRanks(K, k)
  <2>1. x \in DOMAIN ev /\ ev[x] = cands[StandsAt(cands, role, x)]
    BY <1>2, <1>8 DEF SelectEvidence
  <2>2. ContentOf[ev[x]] = ContentOf[cands[i]]
    BY <1>5, <2>1, StandsAtItsContent
  <2> QED BY <2>1, <2>2
<1>9. CASE x \notin FirstRanks(K, k)
  <2>1. /\ Cardinality(FirstRanks(K, k)) = k
        /\ \A s \in FirstRanks(K, k) : s < x
    BY <1>2, <1>7, <1>9, FirstRanksAreBest
  <2>2. \A s \in FirstRanks(K, k) : s \in Nat /\ x \in Nat /\ i \in Nat
    BY <1>2, <1>3, <1>4 DEF FirstRanks
  <2>3. \A s \in FirstRanks(K, k) : s < i
    BY <1>4, <2>1, <2>2
  <2> QED BY <1>2, <2>1, <2>3
<1> QED BY <1>8, <1>9

\* Without a role to prefer, the first source of the evidence is the candidate
\* retrieved first.
LEMMA NeutralKeepsFirst ==
  ASSUME NEW cands \in Rankings, NEW k \in Nat \ {0},
         DOMAIN SelectEvidence(cands, "neutral", k) # {}
  PROVE  StandsAt(cands, "neutral", Best(DOMAIN SelectEvidence(cands, "neutral", k))) = 1
<1> DEFINE F == FirstRanks(KeptRanks(cands), k)
           G == Group(cands, 1)
<1>1. PICK n \in 0..MaxRetrieved : cands \in [1..n -> Chunks]
  BY DEF Rankings
<1>2. DOMAIN SelectEvidence(cands, "neutral", k) = F
  BY DEF SelectEvidence
<1>3. F \subseteq Ranks(cands) /\ Ranks(cands) = 1..n /\ n \in Nat
  BY <1>1, QueryAssumption DEF FirstRanks, KeptRanks, Ranks
<1>4. F # {} /\ 1 \in Ranks(cands)
  BY <1>2, <1>3
<1>5. G \in SUBSET Nat /\ 1 \in G /\ \A j \in G : 1 <= j
  BY <1>3, <1>4 DEF Group
<1>6. Best(G) = 1
  <2>1. Best(G) \in G /\ Best(G) <= 1
    BY <1>5, BestIsLeast
  <2> QED BY <1>5, <2>1
<1>7. 1 \in F
  <2>1. 1 \in KeptRanks(cands)
    BY <1>4, <1>6 DEF KeptRanks
  <2>2. {j \in KeptRanks(cands) : j < 1} = {}
    BY <1>3 DEF KeptRanks
  <2> QED BY <2>1, <2>2, FS_EmptySet DEF FirstRanks
<1>8. Best(F) = 1
  <2>1. F \in SUBSET Nat /\ \A j \in F : 1 <= j
    BY <1>3
  <2>2. Best(F) \in F /\ Best(F) <= 1
    BY <1>7, <2>1, BestIsLeast
  <2> QED BY <2>1, <2>2
<1>9. StandsAt(cands, "neutral", 1) = 1
  <2>1. \A j \in G : cands[j] \in Chunks
    BY <1>1, <1>3 DEF Group
  <2>2. Preferred(cands, G, "neutral") = {}
    BY <2>1, QueryAssumption DEF QueryAssumption, Preferred
  <2> QED BY <1>6, <2>2 DEF StandsAt, Representative
<1> QED BY <1>2, <1>8, <1>9

(***************************************************************************)
(* The inductive invariant.                                                *)
(***************************************************************************)
Early   == {"idle", "retrieve", "select", "gate"}
Open    == {"generate", "validate"}
Closed  == {"respond", "done"}

\* What has been attempted: nothing before generation, one prompt for every
\* outcome (and one more while its output is validated), and while the request
\* is open at most one attempt, an invalid one, whose errors are the feedback.
AttemptsInv ==
  /\ stage \in Early => outcomes = <<>> /\ feedback = {}
  /\ stage \in Open => \/ outcomes = <<>> /\ feedback = {}
                       \/ outcomes = <<"invalid">> /\ feedback # {}
  /\ Len(prompts) = Len(outcomes) + (IF stage = "validate" THEN 1 ELSE 0)
  /\ \A n \in DOMAIN prompts : prompts[n].corrections = {} <=> n = 1

\* What was shown: the evidence is the selection from the ranking, it passed
\* the gate before anything was generated, and every prompt shows it.
ShownInv ==
  /\ stage \in {"idle", "retrieve", "select"} => evidence = <<>>
  /\ evidence = <<>> \/ evidence = SelectEvidence(retrieved, request.role, request.topK)
  /\ stage \in {"gate"} \cup Open =>
       evidence = SelectEvidence(retrieved, request.role, request.topK)
  /\ stage \in Open \/ prompts # <<>> =>
       /\ DOMAIN evidence # {}
       /\ Cardinality(DOMAIN evidence) <= ContextBlocks
       /\ ValidMetadata(evidence, request.doc)
  /\ \A n \in DOMAIN prompts : prompts[n].evidence = evidence

\* What is reported: nothing while the request is open, then what the attempts
\* say; only an answer cites, and it cites the evidence.
ResultInv ==
  /\ stage \notin Closed <=> result.kind = "pending"
  /\ stage \notin Closed => result = Pending
  /\ result.kind = "answered" =>
       /\ prompts # <<>>
       /\ result.citations # {}
       /\ \A c \in result.citations : \E s \in DOMAIN evidence : evidence[s] = c
  /\ result.kind # "answered" => result.citations = {}
  /\ EndingMatchesAttempts

IInv == TypeOK /\ AttemptsInv /\ ShownInv /\ ResultInv

\* A prompt that is sent keeps the list of prompts well typed.
LEMMA SendTyped ==
  ASSUME TypeOK, SendPrompt
  PROVE  prompts' \in Seq([evidence : EvidenceMaps, corrections : SUBSET Errors])
BY DEF TypeOK, SendPrompt

\* An attempt made while the request is open is at most the second.
LEMMA OutcomeTyped ==
  ASSUME IInv, stage \in Open, NEW o \in Outcomes, outcomes' = Append(outcomes, o)
  PROVE  outcomes' \in Seq(Outcomes) /\ Len(outcomes') <= 2
<1>1. outcomes \in Seq(Outcomes)
  BY DEF IInv, TypeOK
<1>2. outcomes = <<>> \/ outcomes = <<"invalid">>
  BY DEF IInv, AttemptsInv
<1> QED BY <1>1, <1>2

\* Validation reports errors of the known kinds.
LEMMA ErrsTyped == Errs \in SUBSET Errors
BY DEF Errs, ValidationErrors, ErrorIf, Errors

LEMMA TypeStep ==
  ASSUME IInv, Next
  PROVE  TypeOK'
<1> USE DEF TypeOK
<1>1. CASE CheckConfiguration
  BY <1>1, QueryAssumption DEF IInv, AttemptsInv, ResultInv, CheckConfiguration, Finish, Failed, Failures
<1>2. CASE Retrieve
  BY <1>2, QueryAssumption DEF IInv, AttemptsInv, ResultInv, Retrieve, Rankings
<1>3. CASE RetrieveFails
  BY <1>3, QueryAssumption DEF IInv, AttemptsInv, ResultInv, RetrieveFails, Finish, Failed, Failures
<1>4. CASE RejectRanking
  BY <1>4, QueryAssumption DEF IInv, AttemptsInv, ResultInv, RejectRanking, Finish, Abstained, Reasons
<1>5. CASE Select
  BY <1>5, QueryAssumption, SelectionTyped DEF IInv, AttemptsInv, ResultInv, Select
<1>6. CASE GateRejects
  BY <1>6, QueryAssumption DEF IInv, AttemptsInv, ResultInv, GateRejects, Finish, Abstained, Reasons, GateReason
<1>7. CASE GatePasses
  BY <1>7, QueryAssumption DEF IInv, AttemptsInv, ResultInv, GatePasses
<1>8. CASE GenerateOutput
  BY <1>8, QueryAssumption DEF IInv, AttemptsInv, ResultInv, GenerateOutput, SendPrompt
<1>9. CASE GenerateUnparsed
  <2>1. prompts' \in Seq([evidence : EvidenceMaps, corrections : SUBSET Errors])
    BY <1>9, SendTyped DEF IInv, GenerateUnparsed
  <2>2. outcomes' \in Seq(Outcomes) /\ Len(outcomes') <= 2
    BY <1>9, OutcomeTyped DEF GenerateUnparsed, InvalidAttempt, Open, Outcomes
  <2>3. UNCHANGED <<request, configured, retrieved, above, evidence, output, status>>
    BY <1>9 DEF GenerateUnparsed
  <2>4. /\ feedback' \in SUBSET Errors
        /\ \/ stage' = "generate" /\ result' = result
           \/ stage' = "respond" /\ result' = Abstained("citation_validation_failed")
    BY <1>9 DEF GenerateUnparsed, InvalidAttempt, Finish, Errors
  <2> QED BY <2>1, <2>2, <2>3, <2>4 DEF IInv, Abstained, Reasons
<1>10. CASE GenerateRefused
  <2>1. prompts' \in Seq([evidence : EvidenceMaps, corrections : SUBSET Errors])
    BY <1>10, SendTyped DEF IInv, GenerateRefused
  <2>2. outcomes' \in Seq(Outcomes) /\ Len(outcomes') <= 2
    BY <1>10, OutcomeTyped DEF GenerateRefused, Open, Outcomes
  <2> QED BY <1>10, <2>1, <2>2 DEF IInv, GenerateRefused, Finish, Abstained, Reasons
<1>11. CASE GenerateFails
  <2>1. prompts' \in Seq([evidence : EvidenceMaps, corrections : SUBSET Errors])
    BY <1>11, SendTyped DEF IInv, GenerateFails
  <2>2. outcomes' \in Seq(Outcomes) /\ Len(outcomes') <= 2
    BY <1>11, OutcomeTyped DEF GenerateFails, Open, Outcomes
  <2> QED BY <1>11, <2>1, <2>2 DEF IInv, GenerateFails, Finish, Failed, Failures
<1>12. CASE RejectOutput
  <2>1. outcomes' \in Seq(Outcomes) /\ Len(outcomes') <= 2
    BY <1>12, OutcomeTyped DEF RejectOutput, InvalidAttempt, Open, Outcomes
  <2>2. UNCHANGED <<request, configured, retrieved, above, evidence, prompts, status>>
    BY <1>12 DEF RejectOutput
  <2>3. /\ feedback' \in SUBSET Errors
        /\ output' = NoOutput
        /\ \/ stage' = "generate" /\ result' = result
           \/ stage' = "respond" /\ result' = Abstained("citation_validation_failed")
    BY <1>12, ErrsTyped DEF RejectOutput, InvalidAttempt, Finish
  <2> QED BY <2>1, <2>2, <2>3 DEF IInv, Abstained, Reasons, NoOutput, Outputs
<1>13. CASE AcceptOutput
  <2>1. outcomes' \in Seq(Outcomes) /\ Len(outcomes') <= 2
    BY <1>13, OutcomeTyped DEF AcceptOutput, Open, Outcomes
  <2>2. UNCHANGED <<request, configured, retrieved, above, evidence, prompts, feedback, status>>
    BY <1>13 DEF AcceptOutput
  <2>3. /\ output' = NoOutput
        /\ stage' = "respond"
        /\ \/ result' = Abstained("llm_insufficient_evidence")
           \/ /\ result' = Answered(CitationsOf(output, evidence))
              /\ CitationsOf(output, evidence) \in SUBSET Chunks
    <3>1. Errs = {} => output.insufficient \/ output.sources \in SUBSET DOMAIN evidence
      BY DEF Errs, ValidationErrors, ErrorIf
    <3>2. output.sources \in SUBSET DOMAIN evidence => CitationsOf(output, evidence) \in SUBSET Chunks
      BY DEF IInv, EvidenceMaps, CitationsOf
    <3> QED BY <1>13, <3>1, <3>2 DEF AcceptOutput, Finish
  <2> QED BY <2>1, <2>2, <2>3 DEF IInv, Abstained, Answered, Reasons, NoOutput, Outputs
<1>14. CASE Respond
  BY <1>14, QueryAssumption DEF IInv, AttemptsInv, ResultInv, Respond, StatusOf
<1> QED
  BY <1>1, <1>2, <1>3, <1>4, <1>5, <1>6, <1>7, <1>8, <1>9, <1>10, <1>11, <1>12, <1>13, <1>14 DEF Next

\* Before generation, and in the response, no attempt is made.
LEMMA AttemptsQuiet ==
  ASSUME IInv, UNCHANGED <<prompts, outcomes, feedback>>,
         stage' = "validate" <=> stage = "validate",
         stage' \in Early => stage \in Early,
         stage' \in Open => stage \in Early \cup Open
  PROVE  AttemptsInv'
BY DEF IInv, AttemptsInv

\* The prompt of an attempt corrects something exactly when it is the second.
LEMMA SendCorrects ==
  ASSUME IInv, stage = "generate", SendPrompt
  PROVE  /\ Len(prompts') = Len(outcomes) + 1
         /\ \A n \in DOMAIN prompts' : prompts'[n].corrections = {} <=> n = 1
         /\ \A n \in DOMAIN prompts' : prompts'[n].evidence = evidence
         /\ prompts' # <<>>
<1> DEFINE new == [evidence |-> evidence, corrections |-> feedback]
<1>1. prompts \in Seq([evidence : EvidenceMaps, corrections : SUBSET Errors])
  BY DEF IInv, TypeOK
<1>2. Len(prompts) = Len(outcomes)
  BY DEF IInv, AttemptsInv
<1>3. \/ outcomes = <<>> /\ feedback = {}
      \/ outcomes = <<"invalid">> /\ feedback # {}
  BY DEF IInv, AttemptsInv, Open
<1>4. prompts' = Append(prompts, new)
  BY DEF SendPrompt
<1>5. /\ Len(prompts') = Len(prompts) + 1
      /\ DOMAIN prompts' = 1..(Len(prompts) + 1)
      /\ prompts'[Len(prompts) + 1] = new
      /\ \A n \in 1..Len(prompts) : prompts'[n] = prompts[n]
  BY <1>1, <1>4
<1>6. new.corrections = {} <=> Len(prompts) + 1 = 1
  BY <1>2, <1>3
<1>7. \A n \in 1..Len(prompts) : /\ prompts[n].corrections = {} <=> n = 1
                                /\ prompts[n].evidence = evidence
  BY <1>1 DEF IInv, AttemptsInv, ShownInv
<1> QED BY <1>1, <1>2, <1>5, <1>6, <1>7

LEMMA AttemptsStep ==
  ASSUME IInv, Next
  PROVE  AttemptsInv'
<1>1. CASE CheckConfiguration
  BY <1>1, AttemptsQuiet DEF CheckConfiguration, Finish, Early, Open
<1>2. CASE Retrieve
  BY <1>2, AttemptsQuiet DEF Retrieve, Early, Open
<1>3. CASE RetrieveFails
  BY <1>3, AttemptsQuiet DEF RetrieveFails, Finish, Early, Open
<1>4. CASE RejectRanking
  BY <1>4, AttemptsQuiet DEF RejectRanking, Finish, Early, Open
<1>5. CASE Select
  BY <1>5, AttemptsQuiet DEF Select, Early, Open
<1>6. CASE GateRejects
  BY <1>6, AttemptsQuiet DEF GateRejects, Finish, Early, Open
<1>7. CASE GatePasses
  BY <1>7 DEF IInv, AttemptsInv, GatePasses, Early, Open
<1>8. CASE GenerateOutput
  <2>1. stage = "generate" /\ stage' = "validate" /\ SendPrompt /\ UNCHANGED <<feedback, outcomes>>
    BY <1>8 DEF GenerateOutput
  <2> QED BY <2>1, SendCorrects DEF IInv, AttemptsInv, Early, Open
<1>9. ASSUME NEW errs, errs # {}, stage \in Open, InvalidAttempt(errs),
             Len(prompts') = Len(outcomes) + 1,
             \A n \in DOMAIN prompts' : prompts'[n].corrections = {} <=> n = 1
      PROVE  AttemptsInv'
  <2>1. /\ outcomes' = Append(outcomes, "invalid")
        /\ feedback' = errs
        /\ \/ outcomes = <<>> /\ stage' = "generate"
           \/ stage' = "respond"
    BY <1>9 DEF InvalidAttempt, Finish
  <2>2. Len(outcomes') = Len(outcomes) + 1
    BY <2>1 DEF IInv, TypeOK
  <2>3. outcomes = <<>> => outcomes' = <<"invalid">>
    BY <2>1
  <2> QED BY <1>9, <2>1, <2>2, <2>3 DEF AttemptsInv, Early, Open
<1>10. ASSUME NEW o \in Outcomes, outcomes' = Append(outcomes, o), stage' = "respond",
              Len(prompts') = Len(outcomes) + 1,
              \A n \in DOMAIN prompts' : prompts'[n].corrections = {} <=> n = 1
       PROVE  AttemptsInv'
  <2>1. Len(outcomes') = Len(outcomes) + 1
    BY <1>10 DEF IInv, TypeOK
  <2> QED BY <1>10, <2>1 DEF AttemptsInv, Early, Open
<1>11. CASE GenerateUnparsed
  BY <1>9, <1>11, SendCorrects DEF GenerateUnparsed, Open
<1>12. CASE GenerateRefused
  BY <1>10, <1>12, SendCorrects DEF GenerateRefused, Finish, Outcomes
<1>13. CASE GenerateFails
  BY <1>10, <1>13, SendCorrects DEF GenerateFails, Finish, Outcomes
<1>14. stage = "validate" => Len(prompts) = Len(outcomes) + 1
  BY DEF IInv, AttemptsInv
<1>15. CASE RejectOutput
  BY <1>9, <1>14, <1>15 DEF IInv, AttemptsInv, RejectOutput, Open
<1>16. CASE AcceptOutput
  BY <1>10, <1>14, <1>16 DEF IInv, AttemptsInv, AcceptOutput, Finish, Outcomes
<1>17. CASE Respond
  BY <1>17, AttemptsQuiet DEF Respond, Early, Open
<1> QED
  BY <1>1, <1>2, <1>3, <1>4, <1>5, <1>6, <1>7, <1>8, <1>11, <1>12, <1>13, <1>15, <1>16, <1>17
  DEF Next

\* Steps that leave the ranking, the evidence and the prompts alone.
LEMMA ShownQuiet ==
  ASSUME IInv, UNCHANGED <<request, retrieved, evidence, prompts>>,
         stage' \in {"idle", "retrieve", "select"} => stage \in {"idle", "retrieve", "select"},
         stage' = "gate" => stage = "gate",
         stage' \in Open => stage \in Open
  PROVE  ShownInv'
BY DEF IInv, ShownInv, Open

LEMMA ShownStep ==
  ASSUME IInv, Next
  PROVE  ShownInv'
<1>1. CASE CheckConfiguration
  BY <1>1, ShownQuiet DEF CheckConfiguration, Finish, Open
<1>2. CASE Retrieve
  BY <1>2 DEF IInv, ShownInv, Retrieve, Open
<1>3. CASE RetrieveFails
  BY <1>3, ShownQuiet DEF RetrieveFails, Finish, Open
<1>4. CASE RejectRanking
  BY <1>4, ShownQuiet DEF RejectRanking, Finish, Open
<1>5. CASE Select
  <2>1. prompts = <<>>
    <3>1. Len(prompts) = 0
      BY <1>5 DEF IInv, AttemptsInv, Select, Early
    <3>2. prompts \in Seq([evidence : EvidenceMaps, corrections : SUBSET Errors])
      BY DEF IInv, TypeOK
    <3> QED BY <3>1, <3>2
  <2> QED BY <1>5, <2>1 DEF ShownInv, Select, Open
<1>6. CASE GateRejects
  BY <1>6, ShownQuiet DEF GateRejects, Finish, Open
<1>7. CASE GatePasses
  <2>1. DOMAIN evidence # {} /\ ValidMetadata(evidence, request.doc)
    BY <1>7 DEF GatePasses, GateReason
  <2> QED BY <1>7, <2>1 DEF IInv, ShownInv, GatePasses, Open
<1>8. ASSUME stage = "generate", SendPrompt, UNCHANGED <<request, retrieved, evidence>>,
             stage' \in {"generate", "validate", "respond"}
      PROVE  ShownInv'
  <2>1. /\ \A n \in DOMAIN prompts' : prompts'[n].evidence = evidence
        /\ prompts' # <<>>
    BY <1>8, SendCorrects
  <2> QED BY <1>8, <2>1 DEF IInv, ShownInv, Open
<1>9. CASE GenerateOutput
  BY <1>8, <1>9 DEF GenerateOutput
<1>10. CASE GenerateUnparsed
  BY <1>8, <1>10 DEF GenerateUnparsed, InvalidAttempt, Finish
<1>11. CASE GenerateRefused
  BY <1>8, <1>11 DEF GenerateRefused, Finish
<1>12. CASE GenerateFails
  BY <1>8, <1>12 DEF GenerateFails, Finish
<1>13. CASE RejectOutput
  BY <1>13, ShownQuiet DEF RejectOutput, InvalidAttempt, Finish, Open
<1>14. CASE AcceptOutput
  BY <1>14, ShownQuiet DEF AcceptOutput, Finish, Open
<1>15. CASE Respond
  BY <1>15, ShownQuiet DEF Respond, Open
<1> QED
  BY <1>1, <1>2, <1>3, <1>4, <1>5, <1>6, <1>7, <1>9, <1>10, <1>11, <1>12, <1>13, <1>14, <1>15
  DEF Next

\* How an attempt that ends in o extends the record of attempts.
LEMMA AttemptRecorded ==
  ASSUME IInv, stage \in Open, NEW o \in Outcomes, outcomes' = Append(outcomes, o)
  PROVE  /\ outcomes' # <<>>
         /\ outcomes'[Len(outcomes')] = o
         /\ Len(outcomes') = 2 => outcomes'[1] = "invalid"
         /\ outcomes' = <<"invalid", "invalid">> <=> outcomes # <<>> /\ o = "invalid"
<1>1. outcomes = <<>> \/ outcomes = <<"invalid">>
  BY DEF IInv, AttemptsInv
<1>2. CASE outcomes = <<>>
  <2>1. outcomes' = <<o>>
    BY <1>2
  <2> QED BY <1>2, <2>1
<1>3. CASE outcomes = <<"invalid">>
  <2>1. /\ Len(outcomes') = 2
        /\ outcomes'[1] = "invalid"
        /\ outcomes'[2] = o
        /\ outcomes' \in Seq(Outcomes)
    BY <1>3 DEF Outcomes
  <2> DEFINE twice == <<"invalid", "invalid">>
  <2>2. twice \in Seq(Outcomes) /\ Len(twice) = 2 /\ twice[1] = "invalid" /\ twice[2] = "invalid"
    BY DEF Outcomes
  <2> HIDE DEF twice
  <2>3. outcomes' = twice <=> o = "invalid"
    <3>1. o = "invalid" => \A n \in 1..2 : outcomes'[n] = twice[n]
      BY <2>1, <2>2
    <3>2. o = "invalid" => outcomes' = twice
      BY <2>1, <2>2, <3>1, SeqEqual
    <3> QED BY <2>1, <2>2, <3>2
  <2>4. outcomes # <<>> /\ outcomes' # <<>>
    BY <1>3, <2>1
  <2> QED BY <2>1, <2>3, <2>4 DEF twice
<1> QED BY <1>1, <1>2, <1>3

\* Steps that leave the request open.
LEMMA ResultQuiet ==
  ASSUME IInv, UNCHANGED result, stage \notin Closed, stage' \notin Closed
  PROVE  ResultInv'
BY DEF IInv, ResultInv, EndingMatchesAttempts, Closed, Pending

\* Steps that end the request before any attempt.
LEMMA ResultEarly ==
  ASSUME IInv, stage \in Early, stage' = "respond", UNCHANGED outcomes,
         \/ \E e \in Failures : result' = Failed(e)
         \/ \E r \in Reasons : result' = Abstained(r) /\ r # "citation_validation_failed"
  PROVE  ResultInv'
<1>1. outcomes' = <<>>
  BY DEF IInv, AttemptsInv
<1>2. /\ result'.kind \in {"abstained", "failed"}
      /\ result'.citations = {}
      /\ result'.reason # "citation_validation_failed"
  BY DEF Failed, Abstained, Failures
<1> QED BY <1>1, <1>2 DEF ResultInv, EndingMatchesAttempts, Closed

\* Steps that end the request with an attempt that produced no answer.
LEMMA ResultDeclined ==
  ASSUME IInv, stage \in Open, stage' = "respond",
         NEW o \in {"invalid", "refusal", "error", "insufficient"},
         outcomes' = Append(outcomes, o),
         \/ o = "error" /\ \E e \in Failures : result' = Failed(e)
         \/ o = "refusal" /\ result' = Abstained("llm_refusal")
         \/ o = "insufficient" /\ result' = Abstained("llm_insufficient_evidence")
         \/ /\ o = "invalid" /\ outcomes # <<>>
            /\ result' = Abstained("citation_validation_failed")
  PROVE  ResultInv'
<1>1. /\ outcomes' # <<>>
      /\ outcomes'[Len(outcomes')] = o
      /\ Len(outcomes') = 2 => outcomes'[1] = "invalid"
      /\ outcomes' = <<"invalid", "invalid">> <=> outcomes # <<>> /\ o = "invalid"
  BY AttemptRecorded DEF Outcomes
<1>2. /\ result'.kind = IF o = "error" THEN "failed" ELSE "abstained"
      /\ result'.citations = {}
      /\ result'.reason = "citation_validation_failed" <=> o = "invalid"
      /\ result'.reason = "llm_refusal" <=> o = "refusal"
      /\ result'.reason = "llm_insufficient_evidence" <=> o = "insufficient"
  BY DEF Failed, Abstained, Failures
<1>3. outcomes' = <<"invalid", "invalid">> <=> o = "invalid"
  BY <1>1
<1> QED BY <1>1, <1>2, <1>3 DEF ResultInv, EndingMatchesAttempts, Closed

LEMMA ResultStep ==
  ASSUME IInv, Next
  PROVE  ResultInv'
<1>1. CASE CheckConfiguration
  BY <1>1, ResultQuiet, ResultEarly DEF CheckConfiguration, Finish, Early, Closed, Failures
<1>2. CASE Retrieve
  BY <1>2, ResultQuiet DEF Retrieve, Closed
<1>3. CASE RetrieveFails
  BY <1>3, ResultEarly DEF RetrieveFails, Finish, Early, Failures
<1>4. CASE RejectRanking
  BY <1>4, ResultEarly DEF RejectRanking, Finish, Early, Reasons
<1>5. CASE Select
  BY <1>5, ResultQuiet DEF Select, Closed
<1>6. CASE GateRejects
  BY <1>6, ResultEarly DEF GateRejects, GateReason, Finish, Early, Reasons
<1>7. CASE GatePasses
  BY <1>7, ResultQuiet DEF GatePasses, Closed
<1>8. CASE GenerateOutput
  BY <1>8, ResultQuiet DEF GenerateOutput, Closed
<1>9. ASSUME NEW errs, stage \in Open, InvalidAttempt(errs)
      PROVE  ResultInv'
  <2>1. CASE outcomes = <<>>
    BY <1>9, <2>1, ResultQuiet DEF InvalidAttempt, Open, Closed
  <2>2. CASE outcomes # <<>>
    BY <1>9, <2>2, ResultDeclined DEF InvalidAttempt, Finish
  <2> QED BY <2>1, <2>2
<1>10. CASE GenerateUnparsed
  BY <1>9, <1>10 DEF GenerateUnparsed, Open
<1>11. CASE GenerateRefused
  BY <1>11, ResultDeclined DEF GenerateRefused, Finish, Open
<1>12. CASE GenerateFails
  BY <1>12, ResultDeclined DEF GenerateFails, Finish, Open, Failures
<1>13. CASE RejectOutput
  BY <1>9, <1>13 DEF RejectOutput, Open
<1>14. CASE AcceptOutput
  <2>1. CASE output.insufficient
    BY <1>14, <2>1, ResultDeclined DEF AcceptOutput, Finish, Open
  <2>2. CASE ~output.insufficient
    <3>1. /\ outcomes' = Append(outcomes, "valid")
          /\ stage' = "respond"
          /\ result' = Answered(CitationsOf(output, evidence))
          /\ stage \in Open /\ Errs = {}
          /\ UNCHANGED <<evidence, prompts>>
      BY <1>14, <2>2 DEF AcceptOutput, Finish, Open
    <3>2. output.sources # {} /\ \A s \in output.sources : s \in DOMAIN evidence
      BY <2>2, <3>1 DEF Errs, ValidationErrors, ErrorIf
    <3>3. prompts # <<>>
      BY <1>14 DEF IInv, TypeOK, AttemptsInv, AcceptOutput
    <3>4. /\ outcomes' # <<>>
          /\ outcomes'[Len(outcomes')] = "valid"
          /\ Len(outcomes') = 2 => outcomes'[1] = "invalid"
          /\ outcomes' # <<"invalid", "invalid">>
      BY <3>1, AttemptRecorded DEF Outcomes
    <3>5. /\ result'.kind = "answered" /\ result'.reason = "none"
          /\ result'.citations = {evidence[s] : s \in output.sources}
      BY <3>1 DEF Answered, CitationsOf
    <3>6. /\ result'.citations # {}
          /\ \A c \in result'.citations : \E s \in DOMAIN evidence' : evidence'[s] = c
      BY <3>1, <3>2, <3>5
    <3> QED BY <3>1, <3>3, <3>4, <3>5, <3>6 DEF ResultInv, EndingMatchesAttempts, Closed
  <2> QED BY <2>1, <2>2
<1>15. CASE Respond
  BY <1>15 DEF IInv, ResultInv, EndingMatchesAttempts, Respond, Closed
<1> QED
  BY <1>1, <1>2, <1>3, <1>4, <1>5, <1>6, <1>7, <1>8, <1>10, <1>11, <1>12, <1>13, <1>14, <1>15
  DEF Next

(***************************************************************************)
(* The invariant holds in every reachable state, and what it implies.      *)
(***************************************************************************)
LEMMA InvariantHoldsInitially ==
  ASSUME Init
  PROVE  IInv
<1>1. TypeOK
  <2>1. retrieved \in Rankings
    <3>1. <<>> \in [1..0 -> Chunks]
      OBVIOUS
    <3> QED BY <3>1, QueryAssumption DEF Init, Rankings, QueryAssumption
  <2>2. evidence \in EvidenceMaps
    <3>1. <<>> \in [{} -> Chunks]
      OBVIOUS
    <3>2. {} \in SUBSET (1..MaxRetrieved)
      OBVIOUS
    <3> QED BY <3>1, <3>2 DEF Init, EvidenceMaps
  <2>3. above \in 0..MaxRetrieved
    BY QueryAssumption DEF Init, QueryAssumption
  <2>4. prompts \in Seq([evidence : EvidenceMaps, corrections : SUBSET Errors])
    BY DEF Init
  <2>5. outcomes \in Seq(Outcomes) /\ Len(outcomes) <= 2
    BY DEF Init
  <2>6. output \in Outputs
    BY DEF Init, Outputs, NoOutput
  <2>7. /\ result.kind = "pending" /\ result.reason = "none" /\ result.citations = {}
    BY DEF Init, Pending
  <2> QED BY <2>1, <2>2, <2>3, <2>4, <2>5, <2>6, <2>7 DEF Init, TypeOK
<1>2. AttemptsInv
  BY DEF Init, AttemptsInv, Early, Open
<1>3. ShownInv
  BY DEF Init, ShownInv, Open
<1>4. ResultInv
  BY DEF Init, ResultInv, EndingMatchesAttempts, Closed, Pending
<1> QED BY <1>1, <1>2, <1>3, <1>4 DEF IInv

LEMMA InvariantIsKept ==
  ASSUME IInv, [Next]_vars
  PROVE  IInv'
<1>1. CASE Next
  BY <1>1, TypeStep, AttemptsStep, ShownStep, ResultStep DEF IInv
<1>2. CASE UNCHANGED vars
  <2>1. TypeOK'
    BY <1>2 DEF IInv, TypeOK, vars
  <2>2. AttemptsInv' /\ ShownInv' /\ ResultInv'
    BY <1>2 DEF IInv, AttemptsInv, ShownInv, ResultInv, EndingMatchesAttempts, vars
  <2> QED BY <2>1, <2>2 DEF IInv
<1> QED BY <1>1, <1>2

\* The inductive invariant holds throughout every query.
THEOREM Invariant == Spec => []IInv
<1>1. Init => IInv
  BY InvariantHoldsInitially
<1>2. IInv /\ [Next]_vars => IInv'
  BY InvariantIsKept
<1> QED BY <1>1, <1>2, PTL DEF Spec

\* Every variable of a query keeps its type, and execute() never records a
\* third attempt.
THEOREM TypeCorrect == Spec => []TypeOK
<1>1. IInv => TypeOK
  BY DEF IInv
<1> QED BY <1>1, Invariant, PTL

\* Every answer the service returns cites evidence of the last prompt and of
\* the requested document, whatever the retriever ranked and the model wrote.
THEOREM Grounded == Spec => []AnswerIsGrounded
<1>1. IInv => AnswerIsGrounded
  <2> SUFFICES ASSUME IInv PROVE AnswerIsGrounded
    OBVIOUS
  <2>1. result.kind # "answered" => result.citations = {}
    BY DEF IInv, ResultInv
  <2>2. ASSUME result.kind = "answered"
        PROVE  /\ result.citations # {}
               /\ prompts # <<>>
               /\ \A c \in result.citations :
                    /\ \E s \in DOMAIN prompts[Len(prompts)].evidence :
                         prompts[Len(prompts)].evidence[s] = c
                    /\ request.doc # NoDoc => DocOf[c] = request.doc
    <3>1. /\ prompts # <<>> /\ result.citations # {}
          /\ \A c \in result.citations : \E s \in DOMAIN evidence : evidence[s] = c
      BY <2>2 DEF IInv, ResultInv
    <3>2. prompts[Len(prompts)].evidence = evidence
      <4>1. Len(prompts) \in DOMAIN prompts
        BY <3>1 DEF IInv, TypeOK
      <4> QED BY <4>1 DEF IInv, ShownInv
    <3>3. ValidMetadata(evidence, request.doc)
      BY <3>1 DEF IInv, ShownInv
    <3> QED BY <3>1, <3>2, <3>3 DEF ValidMetadata, ValidCandidate
  <2> QED BY <2>1, <2>2 DEF AnswerIsGrounded
<1> QED BY <1>1, Invariant, PTL

\* The model is only ever shown evidence that passed the gate and fits.
THEOREM Admissible == Spec => []PromptsAreAdmissible
<1>1. IInv => PromptsAreAdmissible
  <2> SUFFICES ASSUME IInv, NEW n \in DOMAIN prompts
               PROVE  LET shown == prompts[n].evidence
                      IN  /\ DOMAIN shown # {}
                          /\ Cardinality(DOMAIN shown) <= ContextBlocks
                          /\ \A s \in DOMAIN shown :
                               /\ shown[s] \notin Malformed
                               /\ request.doc # NoDoc => DocOf[shown[s]] = request.doc
    BY DEF PromptsAreAdmissible
  <2>1. prompts # <<>>
    OBVIOUS
  <2>2. /\ DOMAIN evidence # {}
        /\ Cardinality(DOMAIN evidence) <= ContextBlocks
        /\ ValidMetadata(evidence, request.doc)
    BY <2>1 DEF IInv, ShownInv
  <2>3. prompts[n].evidence = evidence
    BY DEF IInv, ShownInv
  <2> QED BY <2>2, <2>3 DEF ValidMetadata, ValidCandidate
<1> QED BY <1>1, Invariant, PTL

\* Evidence never repeats one content under two documents, for every ranking.
THEOREM Collapsed == Spec => []NoContentFromTwoDocuments
<1>1. IInv => NoContentFromTwoDocuments
  <2> SUFFICES ASSUME IInv, NEW s \in DOMAIN evidence, NEW t \in DOMAIN evidence,
                      ContentOf[evidence[s]] = ContentOf[evidence[t]]
               PROVE  DocOf[evidence[s]] = DocOf[evidence[t]]
    BY DEF NoContentFromTwoDocuments
  <2>1. evidence = SelectEvidence(retrieved, request.role, request.topK)
    <3>1. evidence # <<>>
      OBVIOUS
    <3> QED BY <3>1 DEF IInv, ShownInv
  <2>2. retrieved \in Rankings
    BY DEF IInv, TypeOK
  <2> QED BY <2>1, <2>2, SelectionCollapses
<1> QED BY <1>1, Invariant, PTL

\* Content left out of the evidence was outranked by top_k sources that are in
\* it, for every ranking and top_k.
THEOREM OnlyWorseDropped == Spec => []NothingBetterDropped
<1>1. IInv => NothingBetterDropped
  <2> SUFFICES ASSUME IInv, stage \in {"gate", "generate", "validate"},
                      NEW i \in DOMAIN retrieved
               PROVE  \/ \E s \in DOMAIN evidence :
                            ContentOf[evidence[s]] = ContentOf[retrieved[i]]
                      \/ /\ Cardinality(DOMAIN evidence) = request.topK
                         /\ \A s \in DOMAIN evidence : s < i
    BY DEF NothingBetterDropped
  <2>1. evidence = SelectEvidence(retrieved, request.role, request.topK)
    BY DEF IInv, ShownInv, Open
  <2>2. retrieved \in Rankings /\ request.topK \in Nat
    BY QueryAssumption DEF IInv, TypeOK, Requests, QueryAssumption
  <2> QED BY <2>1, <2>2, SelectionDropsOnlyWorse
<1> QED BY <1>1, Invariant, PTL

\* A correction repeats the evidence of the first prompt and names the errors.
THEOREM CorrectionFaithful == Spec => []CorrectionKeepsEvidence
<1>1. IInv => CorrectionKeepsEvidence
  <2> SUFFICES ASSUME IInv, NEW n \in DOMAIN prompts
               PROVE  /\ prompts[n].evidence = prompts[1].evidence
                      /\ prompts[n].corrections = {} <=> n = 1
    BY DEF CorrectionKeepsEvidence
  <2>1. 1 \in DOMAIN prompts
    BY DEF IInv, TypeOK
  <2> QED BY <2>1 DEF IInv, ShownInv, AttemptsInv
<1> QED BY <1>1, Invariant, PTL

\* How a query ends is what its attempts say.
THEOREM EndingFaithful == Spec => []EndingMatchesAttempts
<1>1. IInv => EndingMatchesAttempts
  BY DEF IInv, ResultInv
<1> QED BY <1>1, Invariant, PTL

\* The score gate, without a query role, refuses only when no retrieved candidate
\* reaches the threshold: the one it judges is the best, whatever was collapsed.
THEOREM BestIsJudged == Spec => []NeutralGateJudgesBest
<1>1. Init => NeutralGateJudgesBest
  BY DEF Init, NeutralGateJudgesBest, Pending
<1>2. IInv /\ NeutralGateJudgesBest /\ [Next]_vars => NeutralGateJudgesBest'
  <2> SUFFICES ASSUME IInv, NeutralGateJudgesBest, [Next]_vars, request'.role = "neutral",
                      result'.reason = "configured_score_gate_failed"
               PROVE  above' = 0
    BY DEF NeutralGateJudgesBest
  <2>1. request' = request
    BY DEF Next, vars, CheckConfiguration, Retrieve, RetrieveFails, RejectRanking, Select,
           GateRejects, GatePasses, GenerateOutput, GenerateUnparsed, GenerateRefused,
           GenerateFails, RejectOutput, AcceptOutput, Respond
  <2>2. CASE GateRejects
    <3>1. /\ GateReason(retrieved, request, evidence, above) = "configured_score_gate_failed"
          /\ stage = "gate" /\ above' = above
      BY <2>2 DEF GateRejects, Finish, Abstained
    <3>2. /\ DOMAIN evidence # {}
          /\ ~ClearsThreshold(retrieved, request.role, evidence, above)
      BY <3>1 DEF GateReason
    <3>3. /\ evidence = SelectEvidence(retrieved, "neutral", request.topK)
          /\ retrieved \in Rankings /\ request.topK \in Nat \ {0} /\ above \in Nat
      BY <2>1, <3>1, QueryAssumption DEF IInv, ShownInv, TypeOK, Requests, QueryAssumption
    <3>4. ~(1 <= above)
      BY <2>1, <3>2, <3>3, NeutralKeepsFirst DEF ClearsThreshold
    <3> QED BY <3>1, <3>3, <3>4
  <2>3. CASE Retrieve
    BY <2>3 DEF IInv, ResultInv, Retrieve, Closed, Pending
  <2>4. CASE UNCHANGED <<above, result>>
    BY <2>1, <2>4 DEF NeutralGateJudgesBest
  <2> QED
    BY <2>2, <2>3, <2>4
    DEF Next, vars, Finish, Failed, Abstained, Answered, InvalidAttempt, CheckConfiguration,
        RetrieveFails, RejectRanking, Select, GatePasses, GenerateOutput, GenerateUnparsed,
        GenerateRefused, GenerateFails, RejectOutput, AcceptOutput, Respond
<1> QED BY <1>1, <1>2, Invariant, PTL DEF Spec

(***************************************************************************)
(* Refinement: every step of QueryService is a step of GroundedQuery, or   *)
(* leaves what GroundedQuery sees unchanged.                               *)
(***************************************************************************)

\* Whether generation was permitted is visible in the stage.
LEMMA PermittedByStage ==
  ASSUME IInv
  PROVE  /\ stage \in Early => prompts = <<>> /\ ~Permitted
         /\ stage \in Open => Permitted /\ Len(prompts) \in Nat
         /\ stage = "generate" => Len(prompts) < 2
         /\ stage = "validate" => prompts # <<>>
         /\ Len(prompts) = 0 => prompts = <<>>
<1>1. prompts \in Seq([evidence : EvidenceMaps, corrections : SUBSET Errors])
  BY DEF IInv, TypeOK
<1>2. Len(prompts) = 0 => prompts = <<>>
  BY <1>1
<1>3. stage \in Early => prompts = <<>> /\ ~Permitted
  BY <1>1, <1>2 DEF IInv, AttemptsInv, Early, Permitted
<1>4. stage \in Open => Permitted /\ Len(prompts) \in Nat
  BY <1>1 DEF Open, Permitted
<1>5. stage = "generate" => Len(prompts) < 2
  BY DEF IInv, AttemptsInv, Open
<1>6. stage = "validate" => prompts # <<>>
  BY DEF IInv, TypeOK, AttemptsInv
<1> QED BY <1>2, <1>3, <1>4, <1>5, <1>6

\* Ending the request without an answer declines it.
LEMMA PromiseDeclines ==
  ASSUME IInv, stage \notin Closed, stage' = "respond", UNCHANGED evidence,
         result'.kind \in {"abstained", "failed"}, result'.citations = {},
         IF stage = "generate" THEN SendPrompt ELSE UNCHANGED prompts
  PROVE  Promise!Decline
<1>1. result.kind = "pending" /\ stage \in Early \cup Open
  BY DEF IInv, TypeOK, ResultInv, Closed, Early, Open
<1>2. CASE stage = "generate"
  <2>1. Permitted /\ Len(prompts) < 2
    BY <1>2, PermittedByStage DEF Open
  <2>2. Len(prompts') = Len(prompts) + 1 /\ Permitted'
    BY <1>2, SendCorrects DEF IInv, AttemptsInv, Permitted
  <2> QED BY <1>1, <2>1, <2>2 DEF Promise!Decline
<1>3. CASE stage # "generate"
  <2>1. Permitted' <=> Permitted
    BY <1>1, <1>3, PermittedByStage DEF Permitted, Open
  <2> QED BY <1>1, <1>3, <2>1 DEF Promise!Decline
<1> QED BY <1>2, <1>3

\* A prompt whose outcome leaves the request open is a call.
LEMMA PromiseCalls ==
  ASSUME IInv, stage = "generate", SendPrompt, stage' \in Open, UNCHANGED <<evidence, result>>
  PROVE  Promise!Call
<1>1. result.kind = "pending"
  BY DEF IInv, ResultInv, Closed
<1>2. Permitted /\ Permitted' /\ Len(prompts) < 2
  BY PermittedByStage DEF Open, Permitted
<1>3. Len(prompts') = Len(prompts) + 1
  BY SendCorrects DEF IInv, AttemptsInv
<1> QED BY <1>1, <1>2, <1>3 DEF Promise!Call

\* An invalid attempt is the end of the request, or leaves it open.
LEMMA PromiseOfInvalid ==
  ASSUME IInv, NEW errs, InvalidAttempt(errs), stage \in Open, UNCHANGED evidence,
         IF stage = "generate" THEN SendPrompt ELSE UNCHANGED prompts
  PROVE  [Promise!GNext]_Promise!gvars
<1>1. CASE stage' = "generate" /\ UNCHANGED result
  <2>1. CASE stage = "generate"
    BY <1>1, <2>1, PromiseCalls DEF Promise!GNext, Open
  <2>2. CASE stage # "generate"
    BY <1>1, <2>2 DEF Promise!gvars, Permitted, Open
  <2> QED BY <2>1, <2>2
<1>2. CASE stage' = "respond" /\ result' = Abstained("citation_validation_failed")
  BY <1>2, PromiseDeclines DEF Promise!GNext, Abstained, Open, Closed
<1> QED BY <1>1, <1>2 DEF InvalidAttempt, Finish

LEMMA PromiseStep ==
  ASSUME IInv, IInv', Next
  PROVE  [Promise!GNext]_Promise!gvars
<1>1. ASSUME UNCHANGED <<prompts, evidence, result>>, Permitted' <=> Permitted
      PROVE  UNCHANGED Promise!gvars
  BY <1>1 DEF Promise!gvars
<1>2. stage \in Early => ~Permitted /\ prompts = <<>>
  BY PermittedByStage
<1>3. CASE CheckConfiguration
  <2>1. CASE configured
    BY <1>1, <1>2, <1>3, <2>1 DEF CheckConfiguration, Early, Permitted
  <2>2. CASE ~configured
    BY <1>3, <2>2, PromiseDeclines DEF CheckConfiguration, Finish, Failed, Closed, Promise!GNext
  <2> QED BY <2>1, <2>2
<1>4. CASE Retrieve
  BY <1>1, <1>2, <1>4 DEF Retrieve, Early, Permitted
<1>5. CASE RetrieveFails
  BY <1>5, PromiseDeclines DEF RetrieveFails, Finish, Failed, Closed, Promise!GNext
<1>6. CASE RejectRanking
  BY <1>6, PromiseDeclines DEF RejectRanking, Finish, Abstained, Closed, Promise!GNext
<1>7. CASE Select
  <2>1. ~Permitted /\ ~Permitted' /\ UNCHANGED <<prompts, result>>
    BY <1>2, <1>7 DEF Select, Early, Permitted
  <2> QED BY <2>1 DEF Promise!gvars
<1>8. CASE GateRejects
  BY <1>8, PromiseDeclines DEF GateRejects, Finish, Abstained, Closed, Promise!GNext
<1>9. CASE GatePasses
  <2>1. ~Permitted /\ Permitted' /\ UNCHANGED <<prompts, result, evidence>>
    BY <1>2, <1>9 DEF GatePasses, Early, Permitted
  <2>2. result.kind = "pending"
    BY <1>9 DEF IInv, ResultInv, GatePasses, Closed
  <2>3. {evidence[s] : s \in DOMAIN evidence} \in SUBSET Chunks
    BY DEF IInv, TypeOK, EvidenceMaps
  <2>4. {evidence[s] : s \in DOMAIN evidence} # {}
    BY <1>9 DEF GatePasses, GateReason
  <2>5. Promise!Permit
    BY <2>1, <2>2, <2>3, <2>4 DEF Promise!Permit
  <2> QED BY <2>5 DEF Promise!GNext
<1>10. CASE GenerateOutput
  BY <1>10, PromiseCalls DEF GenerateOutput, Open, Promise!GNext
<1>11. CASE GenerateUnparsed
  BY <1>11, PromiseOfInvalid DEF GenerateUnparsed, Open
<1>12. CASE GenerateRefused
  BY <1>12, PromiseDeclines DEF GenerateRefused, Finish, Abstained, Closed, Promise!GNext
<1>13. CASE GenerateFails
  BY <1>13, PromiseDeclines DEF GenerateFails, Finish, Failed, Closed, Promise!GNext
<1>14. CASE RejectOutput
  BY <1>14, PromiseOfInvalid DEF RejectOutput, Open
<1>15. CASE AcceptOutput
  <2>1. CASE output.insufficient
    BY <1>15, <2>1, PromiseDeclines DEF AcceptOutput, Finish, Abstained, Closed, Promise!GNext
  <2>2. CASE ~output.insufficient
    <3>1. /\ stage = "validate" /\ stage' = "respond" /\ UNCHANGED <<evidence, prompts>>
          /\ result'.kind = "answered"
      BY <1>15, <2>2 DEF AcceptOutput, Finish, Answered
    <3>2. result.kind = "pending"
      BY <3>1 DEF IInv, ResultInv, Closed
    <3>3. Permitted /\ Permitted' /\ Len(prompts) > 0
      BY <3>1, PermittedByStage DEF Permitted, Open
    <3>4. /\ result'.citations # {}
          /\ result'.citations \in SUBSET {evidence[s] : s \in DOMAIN evidence}
      BY <3>1 DEF IInv, ResultInv
    <3>5. Promise!Answer
      BY <3>1, <3>2, <3>3, <3>4 DEF Promise!Answer
    <3> QED BY <3>5 DEF Promise!GNext
  <2> QED BY <2>1, <2>2
<1>16. CASE Respond
  BY <1>1, <1>16 DEF Respond, Permitted
<1> QED
  BY <1>3, <1>4, <1>5, <1>6, <1>7, <1>8, <1>9, <1>10, <1>11, <1>12, <1>13, <1>14, <1>15, <1>16
  DEF Next

\* The query service keeps the promise of GroundedQuery: it implements that
\* specification under the mapping of QueryService.
THEOREM Refinement == Spec => KeepsPromise
<1>1. Init => Promise!GInit
  BY DEF Init, Promise!GInit, Promise!Pending, Pending, Permitted
<1>2. IInv /\ IInv' /\ [Next]_vars => [Promise!GNext]_Promise!gvars
  <2>1. CASE UNCHANGED vars
    BY <2>1 DEF vars, Promise!gvars, Permitted
  <2> QED BY <2>1, PromiseStep
<1> QED BY <1>1, <1>2, Invariant, PTL DEF Spec, KeepsPromise, Promise!GSpec
=============================================================================
