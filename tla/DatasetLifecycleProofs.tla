------------------------ MODULE DatasetLifecycleProofs ------------------------
(***************************************************************************)
(* Proofs about DatasetLifecycle, for every set of annotations, corpora    *)
(* and every number of commands and edits.                                 *)
(***************************************************************************)
EXTENDS DatasetLifecycle, TLAPS

(***************************************************************************)
(* The inductive invariant: what is approved on disk, and what a running   *)
(* command is about to put there, has been approved by a token.            *)
(***************************************************************************)
\* The datasets that the manifest m approves have contents of S.
PinsApproved(m, v, S) ==
  /\ m \in {"manifest", "manifest-v3"} =>
       v.calibration \in Records /\ v.calibration.content \in S
  /\ m \in {"manifest", "heldout-v2-manifest"} =>
       v.test \in Records /\ v.test.content \in S

TestApproved(v, S) == v \in Records /\ Approved(v) => v.content \in S

ManifestsApproved == \A m \in Manifests : disk[m] # Absent => PinsApproved(m, disk[m], approvals)

WriteApproved(w, S) ==
  /\ w.to \in Manifests => PinsApproved(w.to, w.value, S)
  /\ w.to = "test" => TestApproved(w.value, S)

WritesApproved == \A n \in DOMAIN writes : WriteApproved(writes[n], approvals)

LifeInv ==
  /\ LifeTypeOK
  /\ ManifestsApproved
  /\ tampered \/ TestApproved(disk["test"], approvals)
  /\ WritesApproved

(***************************************************************************)
(* Writes                                                                  *)
(***************************************************************************)
LEMMA DatasetWrite ==
  ASSUME NEW d \in Datasets, NEW content \in Contents,
         NEW answerable \in Statuses, NEW others \in Statuses
  PROVE  /\ Dataset(d, content, answerable, others) \in Writes
         /\ Dataset(d, content, answerable, others).to = d
         /\ Dataset(d, content, answerable, others).value \in Records
         /\ Dataset(d, content, answerable, others).value.content = content
         /\ Dataset(d, content, answerable, others).value.answerable = answerable
BY DEF Dataset, Writes, Records

LEMMA ManifestWrite ==
  ASSUME NEW m \in Manifests, corpus \in Corpora,
         NEW c \in Records \cup {Absent}, NEW t \in Records \cup {Absent}
  PROVE  /\ Manifest(m, c, t) \in Writes
         /\ Manifest(m, c, t).to = m
         /\ Manifest(m, c, t).value.calibration = c
         /\ Manifest(m, c, t).value.test = t
BY DEF Manifest, Writes, Pins

LEMMA Kinds == Datasets \cap Manifests = {} /\ "test" \in Datasets
BY DEF Datasets, Manifests

LEMMA Monotone ==
  ASSUME NEW S, NEW T, S \subseteq T, NEW w, WriteApproved(w, S)
  PROVE  WriteApproved(w, T)
BY DEF WriteApproved, PinsApproved, TestApproved

\* A command that starts keeps the invariant if what it will write is approved.
LEMMA Starting ==
  ASSUME LifeInv, NEW ws \in Seq(Writes), Run(ws),
         approvals \subseteq approvals', approvals' \subseteq Contents,
         \A n \in DOMAIN ws : WriteApproved(ws[n], approvals')
  PROVE  LifeInv'
<1>1. LifeTypeOK'
  BY LifecycleAssumption DEF LifeInv, LifeTypeOK, Run
<1>2. ManifestsApproved'
  BY DEF LifeInv, ManifestsApproved, PinsApproved, Run
<1>3. (tampered \/ TestApproved(disk["test"], approvals))'
  BY DEF LifeInv, TestApproved, Run
<1>4. WritesApproved'
  BY DEF WritesApproved, Run
<1>5. QED
  BY <1>1, <1>2, <1>3, <1>4 DEF LifeInv

\* The steps between the commands only change what no manifest promises.
LEMMA Reading ==
  ASSUME LifeTypeOK, NEW d \in Datasets, disk[d] \notin {Absent, Torn}
  PROVE  /\ disk[d] \in Records /\ disk[d].content \in Contents
         /\ disk[d].answerable \in Statuses /\ disk[d].others \in Statuses
BY DEF LifeTypeOK, Records

(***************************************************************************)
(* One lemma for each command                                              *)
(***************************************************************************)
LEMMA Facts ==
  ASSUME NEW content \in Contents, NEW f \in {"none", "reviewed", "typed"}
  PROVE  [content EXCEPT !.facts = f] \in Contents
BY DEF Contents

LEMMA Unapproved ==
  ASSUME NEW d \in Datasets, NEW content \in Contents, NEW others \in Statuses, NEW S
  PROVE  LET w == Dataset(d, content, "needs_human_review", others)
         IN  w \in Writes /\ WriteApproved(w, S)
BY DatasetWrite, Kinds DEF WriteApproved, TestApproved, Approved, Statuses

LEMMA ApprovedWrite ==
  ASSUME NEW d \in Datasets, NEW content \in Contents, NEW S, content \in S
  PROVE  LET w == Approve(d, content)
         IN  w \in Writes /\ WriteApproved(w, S) /\ w.value \in Records /\ w.value.content = content
BY DatasetWrite, Kinds DEF WriteApproved, TestApproved, Approve, Statuses

LEMMA Pair ==
  ASSUME NEW v \in Writes, NEW w \in Writes, NEW S, WriteApproved(v, S), WriteApproved(w, S)
  PROVE  <<v, w>> \in Seq(Writes) /\ \A n \in DOMAIN <<v, w>> : WriteApproved(<<v, w>>[n], S)
OBVIOUS

LEMMA GenerateKeeps == ASSUME LifeInv, Generate PROVE LifeInv'
<1> DEFINE content == [truth |-> Generated, facts |-> "none", corpus |-> corpus]
<1> DEFINE v == [Review("calibration", content) EXCEPT !.whole = FALSE]
<1> DEFINE w == [Review("test", content) EXCEPT !.whole = FALSE]
<1>1. content \in Contents
  BY LifecycleAssumption DEF LifeInv, LifeTypeOK, Contents
<1>2. v \in Writes /\ v.to = "calibration"
  BY <1>1 DEF Review, Dataset, Writes, Records, Datasets, Statuses
<1>3. w \in Writes /\ w.to = "test" /\ w.value.answerable = "needs_human_review"
  BY <1>1 DEF Review, Dataset, Writes, Records, Datasets, Statuses
<1>4. WriteApproved(v, approvals) /\ WriteApproved(w, approvals)
  BY <1>2, <1>3, Kinds DEF WriteApproved, TestApproved, Approved, Datasets, Manifests
<1> HIDE DEF v, w
<1>5. <<v, w>> \in Seq(Writes) /\ \A n \in DOMAIN <<v, w>> : WriteApproved(<<v, w>>[n], approvals)
  BY <1>2, <1>3, <1>4, Pair
<1>6. Run(<<v, w>>) /\ approvals' = approvals
  BY DEF Generate, v, w
<1>7. approvals \subseteq Contents
  BY DEF LifeInv, LifeTypeOK
<1>8. QED
  BY <1>5, <1>6, <1>7, Starting

LEMMA MigrateKeeps == ASSUME LifeInv, Migrate PROVE LifeInv'
<1> DEFINE v == Review("calibration", disk["calibration"].content)
<1> DEFINE w == Review("test", disk["test"].content)
<1>1. disk["calibration"].content \in Contents /\ disk["test"].content \in Contents
  BY Reading DEF LifeInv, Migrate, Datasets
<1>2. /\ v \in Writes /\ WriteApproved(v, approvals)
      /\ w \in Writes /\ WriteApproved(w, approvals)
  BY <1>1, Unapproved DEF Review, Datasets, Statuses
<1>3. Run(<<v, w>>) /\ approvals' = approvals
  BY DEF Migrate
<1> HIDE DEF v, w
<1>4. QED
  BY <1>2, <1>3, Pair, Starting DEF LifeInv, LifeTypeOK

LEMMA ApplyFactsKeeps == ASSUME LifeInv, ApplyFacts PROVE LifeInv'
<1> DEFINE c == [Reviewed(disk["calibration"].content) EXCEPT !.truth = Corrected[@]]
<1> DEFINE v == Review("calibration", c)
<1> DEFINE w == Review("test", Reviewed(disk["test"].content))
<1>1. disk["calibration"].content \in Contents /\ disk["test"].content \in Contents
  BY Reading DEF LifeInv, ApplyFacts, Readable, Datasets
<1>2. Reviewed(disk["calibration"].content) \in Contents /\ Reviewed(disk["test"].content) \in Contents
  BY <1>1, Facts DEF Reviewed
<1>3. c \in Contents
  BY <1>2, LifecycleAssumption DEF Contents
<1> HIDE DEF c
<1>4. /\ v \in Writes /\ WriteApproved(v, approvals)
      /\ w \in Writes /\ WriteApproved(w, approvals)
  BY <1>2, <1>3, Unapproved DEF Review, Datasets, Statuses
<1>5. Run(<<v, w>>) /\ approvals' = approvals
  BY DEF ApplyFacts, c
<1> HIDE DEF v, w
<1>6. QED
  BY <1>4, <1>5, Pair, Starting DEF LifeInv, LifeTypeOK

LEMMA DraftKeeps == ASSUME LifeInv, DraftFactTypes PROVE LifeInv'
<1> DEFINE content == [disk["calibration"].content EXCEPT !.facts = "typed"]
<1> DEFINE w == Dataset("calibration-v3-draft", content, "needs_human_review", disk["calibration"].others)
<1>1. content \in Contents /\ disk["calibration"].others \in Statuses
  BY Reading, Facts DEF LifeInv, DraftFactTypes, Readable, Datasets
<1>2. w \in Writes /\ WriteApproved(w, approvals)
  BY <1>1, Unapproved DEF Datasets
<1>3. Run(<<w>>) /\ approvals' = approvals
  BY DEF DraftFactTypes
<1> HIDE DEF w
<1>4. <<w>> \in Seq(Writes) /\ \A n \in DOMAIN <<w>> : WriteApproved(<<w>>[n], approvals)
  BY <1>2
<1>5. QED
  BY <1>3, <1>4, Starting DEF LifeInv, LifeTypeOK

LEMMA FreezeV2Keeps == ASSUME LifeInv, FreezeV2 PROVE LifeInv'
<1> DEFINE c == disk["calibration"].content
<1> DEFINE t == disk["test"].content
<1> DEFINE u == Approve("calibration", c)
<1> DEFINE v == Approve("test", t)
<1> DEFINE w == Manifest("manifest", u.value, v.value)
<1>1. c \in Contents /\ t \in Contents
  BY Reading DEF LifeInv, FreezeV2, Readable, Datasets
<1>2. Run(<<u, v, w>>) /\ approvals' = approvals \cup {c, t}
  BY DEF FreezeV2
<1>3. c \in approvals' /\ t \in approvals'
  BY <1>2
<1>4. /\ u \in Writes /\ WriteApproved(u, approvals') /\ u.value \in Records /\ u.value.content = c
      /\ v \in Writes /\ WriteApproved(v, approvals') /\ v.value \in Records /\ v.value.content = t
  BY <1>1, <1>3, ApprovedWrite DEF Datasets
<1> HIDE DEF u, v, c, t
<1>5. /\ w \in Writes /\ w.to = "manifest"
      /\ w.value.calibration = u.value /\ w.value.test = v.value
  BY <1>4, ManifestWrite DEF LifeInv, LifeTypeOK, Manifests
<1>6. WriteApproved(w, approvals')
  BY <1>3, <1>4, <1>5 DEF WriteApproved, PinsApproved
<1> HIDE DEF w
<1>7. <<u, v, w>> \in Seq(Writes) /\ \A n \in DOMAIN <<u, v, w>> : WriteApproved(<<u, v, w>>[n], approvals')
  BY <1>4, <1>5, <1>6
<1>8. approvals \subseteq approvals' /\ approvals' \subseteq Contents
  BY <1>1, <1>2 DEF LifeInv, LifeTypeOK
<1>9. QED
  BY <1>2, <1>7, <1>8, Starting

LEMMA FreezeV3Keeps == ASSUME LifeInv, FreezeV3 PROVE LifeInv'
<1> DEFINE c == disk["calibration-v3-draft"].content
<1> DEFINE v == Approve("calibration-v3", c)
<1> DEFINE w == Manifest("manifest-v3", v.value, disk["test"])
<1>1. c \in Contents /\ disk["test"] \in Records
  BY Reading DEF LifeInv, FreezeV3, Readable, Datasets
<1>2. Run(<<v, w>>) /\ approvals' = approvals \cup {c}
  BY DEF FreezeV3, ManifestV3
<1>3. c \in approvals'
  BY <1>2
<1>4. v \in Writes /\ WriteApproved(v, approvals') /\ v.value \in Records /\ v.value.content = c
  BY <1>1, <1>3, ApprovedWrite DEF Datasets
<1> HIDE DEF v, c
<1>5. w \in Writes /\ w.to = "manifest-v3" /\ w.value.calibration = v.value
  BY <1>1, <1>4, ManifestWrite DEF LifeInv, LifeTypeOK, Manifests
<1>6. WriteApproved(w, approvals')
  BY <1>3, <1>4, <1>5 DEF WriteApproved, PinsApproved
<1> HIDE DEF w
<1>7. approvals \subseteq approvals' /\ approvals' \subseteq Contents
  BY <1>1, <1>2 DEF LifeInv, LifeTypeOK
<1>8. QED
  BY <1>2, <1>4, <1>5, <1>6, <1>7, Pair, Starting

LEMMA FreezeHeldoutKeeps == ASSUME LifeInv, FreezeHeldout PROVE LifeInv'
<1> DEFINE c == disk["heldout-v2-draft"].content
<1> DEFINE v == Approve("heldout-v2", c)
<1> DEFINE w == Manifest("heldout-v2-manifest", Absent, v.value)
<1>1. c \in Contents
  BY Reading DEF LifeInv, FreezeHeldout, Readable, Datasets
<1>2. Run(<<v, w>>) /\ approvals' = approvals \cup {c}
  BY DEF FreezeHeldout
<1>3. c \in approvals'
  BY <1>2
<1>4. v \in Writes /\ WriteApproved(v, approvals') /\ v.value \in Records /\ v.value.content = c
  BY <1>1, <1>3, ApprovedWrite DEF Datasets
<1> HIDE DEF v, c
<1>5. w \in Writes /\ w.to = "heldout-v2-manifest" /\ w.value.test = v.value
  <2>1. corpus \in Corpora /\ "heldout-v2-manifest" \in Manifests
    BY DEF LifeInv, LifeTypeOK, Manifests
  <2>2. Absent \in Records \cup {Absent} /\ v.value \in Records \cup {Absent}
    BY <1>4
  <2>3. QED
    BY <2>1, <2>2, ManifestWrite
<1>6. WriteApproved(w, approvals')
  BY <1>3, <1>4, <1>5 DEF WriteApproved, PinsApproved
<1> HIDE DEF w
<1>7. approvals \subseteq approvals' /\ approvals' \subseteq Contents
  BY <1>1, <1>2 DEF LifeInv, LifeTypeOK
<1>8. QED
  BY <1>2, <1>4, <1>5, <1>6, <1>7, Pair, Starting

\* The next write moves a value the invariant already vouches for to the disk.
LEMMA WriteKeeps == ASSUME LifeInv, Write PROVE LifeInv'
<1> DEFINE w == Head(writes)
<1>1. /\ w \in Writes /\ w = writes[1] /\ 1 \in DOMAIN writes
      /\ Tail(writes) \in Seq(Writes)
      /\ \A n \in DOMAIN Tail(writes) : n + 1 \in DOMAIN writes /\ Tail(writes)[n] = writes[n + 1]
  BY DEF LifeInv, LifeTypeOK, Write, Idle
<1>2. WriteApproved(w, approvals)
  BY <1>1 DEF LifeInv, WritesApproved
<1>3. /\ disk' = [disk EXCEPT ![w.to] = w.value]
      /\ tampered' = (tampered /\ w.to # "test")
      /\ writes' = Tail(writes) /\ approvals' = approvals
      /\ corpus' = corpus /\ commands' = commands /\ edits' = edits
  BY DEF Write
<1>4. \/ w.to \in Datasets /\ w.value \in Records
      \/ w.to \in Manifests /\ w.value \in Pins
  BY <1>1 DEF Writes
<1> HIDE DEF w
<1>5. LifeTypeOK'
  BY <1>1, <1>3, <1>4, Kinds DEF LifeInv, LifeTypeOK
<1>6. ManifestsApproved'
  BY <1>2, <1>3, <1>4, Kinds DEF LifeInv, LifeTypeOK, ManifestsApproved, WriteApproved
<1>7. (tampered \/ TestApproved(disk["test"], approvals))'
  BY <1>2, <1>3, <1>4, Kinds DEF LifeInv, LifeTypeOK, WriteApproved
<1>8. WritesApproved'
  BY <1>1, <1>3 DEF LifeInv, WritesApproved
<1>9. QED
  BY <1>5, <1>6, <1>7, <1>8 DEF LifeInv

\* A torn file is not a dataset, and only the generator tears one.
LEMMA CrashKeeps == ASSUME LifeInv, Crash PROVE LifeInv'
<1> DEFINE w == Head(writes)
<1>1. w \in Writes
  BY DEF LifeInv, LifeTypeOK, Crash, Idle
<1>2. /\ writes' = <<>> /\ approvals' = approvals
      /\ corpus' = corpus /\ commands' = commands /\ edits' = edits
  BY DEF Crash
<1>3. WritesApproved'
  BY <1>2 DEF WritesApproved
<1>4. CASE disk' = disk /\ tampered' = tampered
  BY <1>2, <1>3, <1>4 DEF LifeInv, LifeTypeOK, ManifestsApproved
<1>5. CASE /\ ~w.whole /\ disk' = [disk EXCEPT ![w.to] = Torn]
           /\ tampered' = (tampered /\ w.to # "test")
  <2>1. w.to \in Datasets
    BY <1>1, <1>5 DEF Writes
  <2> HIDE DEF w
  <2>2. LifeTypeOK'
    BY <1>2, <1>5, <2>1, Kinds DEF LifeInv, LifeTypeOK
  <2>3. ManifestsApproved'
    BY <1>2, <1>5, <2>1, Kinds DEF LifeInv, LifeTypeOK, ManifestsApproved
  <2>4. (tampered \/ TestApproved(disk["test"], approvals))'
    BY <1>2, <1>5, <2>1, Kinds, NoFileAssumption DEF LifeInv, LifeTypeOK, TestApproved
  <2>5. QED
    BY <1>3, <2>2, <2>3, <2>4 DEF LifeInv
<1>6. QED
  BY <1>4, <1>5 DEF Crash

LEMMA EditKeeps == ASSUME LifeInv, NEW d \in Datasets, EditByHand(d) PROVE LifeInv'
<1>1. PICK truth \in Truths : disk' = [disk EXCEPT ![d].content.truth = truth]
  BY DEF EditByHand
<1>2. /\ tampered' = (tampered \/ d = "test") /\ approvals' = approvals
      /\ corpus' = corpus /\ writes' = writes /\ commands' = commands
      /\ edits \in Nat /\ edits' = edits + 1 /\ edits < MaxEdits
      /\ disk[d] \in Records
  BY Reading DEF EditByHand, LifeInv, LifeTypeOK
<1> DEFINE r == [disk[d] EXCEPT !.content.truth = truth]
<1>3. r \in Records
  BY <1>1, <1>2 DEF Records, Contents
<1>4. disk' = [disk EXCEPT ![d] = r]
  BY <1>1
<1> HIDE DEF r
<1>5. LifeTypeOK'
  BY <1>2, <1>3, <1>4, Kinds, LifecycleAssumption DEF LifeInv, LifeTypeOK
<1>6. ManifestsApproved'
  BY <1>2, <1>4, Kinds DEF LifeInv, LifeTypeOK, ManifestsApproved
<1>7. (tampered \/ TestApproved(disk["test"], approvals))'
  BY <1>2, <1>4, Kinds DEF LifeInv, LifeTypeOK
<1>8. QED
  BY <1>2, <1>5, <1>6, <1>7 DEF LifeInv, WritesApproved

LEMMA DraftByHandKeeps == ASSUME LifeInv, WriteHeldoutDraft PROVE LifeInv'
<1>1. PICK truth \in Truths, facts \in {"none", "typed"} :
        disk' = [disk EXCEPT !["heldout-v2-draft"] =
                   Review("heldout-v2-draft",
                          [truth |-> truth, facts |-> facts, corpus |-> corpus]).value]
  BY DEF WriteHeldoutDraft
<1> DEFINE r == Review("heldout-v2-draft", [truth |-> truth, facts |-> facts, corpus |-> corpus]).value
<1>2. r \in Records
  BY DEF Review, Dataset, Records, Contents, Statuses, LifeInv, LifeTypeOK
<1>3. disk' = [disk EXCEPT !["heldout-v2-draft"] = r]
  BY <1>1
<1>4. /\ tampered' = tampered /\ approvals' = approvals
      /\ corpus' = corpus /\ writes' = writes /\ commands' = commands
      /\ edits \in Nat /\ edits' = edits + 1 /\ edits < MaxEdits
  BY DEF WriteHeldoutDraft, LifeInv, LifeTypeOK
<1> HIDE DEF r
<1>5. "heldout-v2-draft" \in Datasets
  BY DEF Datasets
<1>6. LifeTypeOK'
  BY <1>2, <1>3, <1>4, <1>5, Kinds, LifecycleAssumption DEF LifeInv, LifeTypeOK
<1>7. ManifestsApproved'
  BY <1>3, <1>4, <1>5, Kinds DEF LifeInv, LifeTypeOK, ManifestsApproved
<1>8. (tampered \/ TestApproved(disk["test"], approvals))'
  BY <1>3, <1>4, <1>5, Kinds DEF LifeInv, LifeTypeOK
<1>9. QED
  BY <1>4, <1>6, <1>7, <1>8 DEF LifeInv, WritesApproved

LEMMA ReplaceKeeps == ASSUME LifeInv, ReplaceCorpus PROVE LifeInv'
BY LifecycleAssumption DEF LifeInv, LifeTypeOK, ReplaceCorpus, ManifestsApproved, WritesApproved

(***************************************************************************)
(* Theorems                                                                *)
(***************************************************************************)
LEMMA InitInv == LifeInit => LifeInv
<1> SUFFICES ASSUME LifeInit PROVE LifeInv
  OBVIOUS
<1>1. LifeTypeOK
  <2>1. disk \in [Datasets \cup Manifests -> Records \cup Pins \cup {Absent, Torn}]
    BY DEF LifeInit
  <2>2. \A f \in Datasets \cup Manifests : disk[f] = Absent
    BY DEF LifeInit
  <2>3. writes \in Seq(Writes) /\ commands \in 0..MaxCommands /\ edits \in 0..MaxEdits
    BY LifecycleAssumption DEF LifeInit
  <2>4. QED
    BY <2>1, <2>2, <2>3 DEF LifeInit, LifeTypeOK
<1>2. disk["test"] = Absent
  BY Kinds DEF LifeInit
<1>3. QED
  BY <1>1, <1>2, Kinds, NoFileAssumption
  DEF LifeInit, LifeInv, ManifestsApproved, TestApproved, WritesApproved

LEMMA StepInv == LifeInv /\ [LifeNext]_lifeVars => LifeInv'
<1> SUFFICES ASSUME LifeInv, [LifeNext]_lifeVars PROVE LifeInv'
  OBVIOUS
<1>1. CASE LifeNext
  BY <1>1, GenerateKeeps, MigrateKeeps, ApplyFactsKeeps, DraftKeeps, FreezeV2Keeps,
     FreezeV3Keeps, FreezeHeldoutKeeps, WriteKeeps, CrashKeeps, EditKeeps,
     DraftByHandKeeps, ReplaceKeeps
  DEF LifeNext, Freeze
<1>2. CASE UNCHANGED lifeVars
  BY <1>2 DEF lifeVars, LifeInv, LifeTypeOK, ManifestsApproved, WritesApproved
<1>3. QED
  BY <1>1, <1>2

\* The inductive invariant holds in every reachable state.
THEOREM LifeInvariant == LifeSpec => []LifeInv
BY InitInv, StepInv, PTL DEF LifeSpec

\* Every variable of the datasets' life keeps its type.
THEOREM LifeTypeCorrect == LifeSpec => []LifeTypeOK
<1>1. LifeInv => LifeTypeOK
  BY DEF LifeInv
<1>2. QED
  BY <1>1, LifeInvariant, PTL

LEMMA InvApproves == LifeInv => EvaluatedIsApproved
<1> SUFFICES ASSUME LifeInv, NEW e \in Evaluations, Accepted(e), ~(e[1] = "test" /\ tampered)
             PROVE  disk[e[1]].content \in approvals
  BY DEF EvaluatedIsApproved
<1> DEFINE f == disk[e[1]]
<1>1. /\ e[1] \in Datasets /\ e[2] \in Manifests /\ f \in Records
  BY Reading DEF Evaluations, Datasets, Manifests, Accepted, Readable, LifeInv
<1>2. CASE e[1] = "test"
  BY <1>1, <1>2 DEF LifeInv, TestApproved, Accepted
<1>3. CASE e[1] # "test"
  BY <1>1, <1>3 DEF LifeInv, ManifestsApproved, PinsApproved, Accepted, PinHolds, Evaluations
<1>4. QED
  BY <1>2, <1>3

\* Whatever the operators do and wherever a command dies, what an evaluation
\* accepts has been approved by a token (but for an edited test dataset).
THEOREM OnlyApprovedIsEvaluated == LifeSpec => []EvaluatedIsApproved
BY InvApproves, LifeInvariant, PTL

(***************************************************************************)
(* A freeze writes back what it read: where a running freeze stands        *)
(***************************************************************************)
SameContent(d, r) == disk[d] \in Records /\ disk[d].content = r.content

Whole(d, r) == [to |-> d, whole |-> TRUE, value |-> r]

NoFreeze(ws) == \A n \in DOMAIN ws : ws[n].to \in Datasets /\ ~Approved(ws[n].value)

FreezingV2(c, t) ==
  LET m == Manifest("manifest", c, t)
  IN  /\ Approved(c) /\ Approved(t)
      /\ \/ /\ writes = <<Whole("calibration", c), Whole("test", t), m>>
            /\ SameContent("calibration", c) /\ SameContent("test", t)
         \/ /\ writes = <<Whole("test", t), m>>
            /\ disk["calibration"] = c /\ SameContent("test", t)
         \/ /\ writes = <<m>>
            /\ disk["calibration"] = c /\ disk["test"] = t

FreezingV3(c, t) ==
  LET m == Manifest("manifest-v3", c, t)
  IN  /\ disk["test"] = t
      /\ \/ writes = <<Whole("calibration-v3", c), m>>
         \/ writes = <<m>> /\ disk["calibration-v3"] = c

FreezingHeldout(c) ==
  LET m == Manifest("heldout-v2-manifest", Absent, c)
  IN  \/ writes = <<Whole("heldout-v2", c), m>>
      \/ writes = <<m>> /\ disk["heldout-v2"] = c

FreezeStands ==
  \/ NoFreeze(writes)
  \/ \E c, t \in Records : FreezingV2(c, t)
  \/ \E c, t \in Records : FreezingV3(c, t)
  \/ \E c \in Records : FreezingHeldout(c)

LEMMA ApprovalWritten ==
  ASSUME NEW d \in Datasets, NEW content \in Contents
  PROVE  \E r \in Records : /\ Approve(d, content) = Whole(d, r) /\ Approved(r)
                            /\ r = Approve(d, content).value /\ r.content = content
<1> DEFINE r == [content |-> content, answerable |-> "approved", others |-> "approved"]
<1>1. r \in Records
  BY DEF Records, Statuses
<1>2. Approve(d, content) = Whole(d, r) /\ r = Approve(d, content).value /\ Approved(r)
  BY DEF Approve, Dataset, Whole, Approved
<1>3. QED
  BY <1>1, <1>2

LEMMA CommandsStand ==
  ASSUME LifeInv, Generate \/ Migrate \/ ApplyFacts \/ DraftFactTypes
  PROVE  FreezeStands'
<1>1. \A d, content, others : ~Approved(Dataset(d, content, "needs_human_review", others).value)
  BY DEF Approved, Dataset
<1>2. \A d, content : Review(d, content).to = d /\ ~Approved(Review(d, content).value)
  BY DEF Approved, Dataset, Review
<1>3. CASE Generate
  BY <1>3 DEF Generate, Run, Review, Dataset, Approved, FreezeStands, NoFreeze, Datasets
<1>4. CASE Migrate
  BY <1>2, <1>4 DEF Migrate, Run, FreezeStands, NoFreeze, Datasets
<1>5. CASE ApplyFacts
  BY <1>2, <1>5 DEF ApplyFacts, Run, FreezeStands, NoFreeze, Datasets
<1>6. CASE DraftFactTypes
  BY <1>1, <1>6 DEF DraftFactTypes, Run, FreezeStands, NoFreeze, Datasets, Dataset
<1>7. QED
  BY <1>3, <1>4, <1>5, <1>6

LEMMA FreezeV2Stands == ASSUME LifeInv, FreezeV2 PROVE FreezeStands'
<1>1. /\ disk["calibration"] \in Records /\ disk["calibration"].content \in Contents
      /\ disk["test"] \in Records /\ disk["test"].content \in Contents
  BY Reading DEF LifeInv, FreezeV2, Readable, Datasets
<1>2. PICK c \in Records :
        /\ Approve("calibration", disk["calibration"].content) = Whole("calibration", c)
        /\ Approved(c) /\ c = Approve("calibration", disk["calibration"].content).value
        /\ c.content = disk["calibration"].content
  BY <1>1, ApprovalWritten DEF Datasets
<1>3. PICK t \in Records :
        /\ Approve("test", disk["test"].content) = Whole("test", t)
        /\ Approved(t) /\ t = Approve("test", disk["test"].content).value
        /\ t.content = disk["test"].content
  BY <1>1, ApprovalWritten DEF Datasets
<1>4. /\ writes' = <<Whole("calibration", c), Whole("test", t), Manifest("manifest", c, t)>>
      /\ disk' = disk /\ corpus' = corpus
  BY <1>2, <1>3 DEF FreezeV2, Run
<1>5. FreezingV2(c, t)'
  BY <1>1, <1>2, <1>3, <1>4 DEF FreezingV2, SameContent, Manifest, Approved, Whole
<1>6. QED
  BY <1>5 DEF FreezeStands

LEMMA FreezeV3Stands == ASSUME LifeInv, FreezeV3 PROVE FreezeStands'
<1> DEFINE content == disk["calibration-v3-draft"].content
<1>1. content \in Contents /\ disk["test"] \in Records
  BY Reading DEF LifeInv, FreezeV3, Readable, Datasets
<1>2. PICK c \in Records :
        /\ Approve("calibration-v3", content) = Whole("calibration-v3", c)
        /\ c = Approve("calibration-v3", content).value
  BY <1>1, ApprovalWritten DEF Datasets
<1>3. /\ writes' = <<Whole("calibration-v3", c), Manifest("manifest-v3", c, disk["test"])>>
      /\ disk' = disk /\ corpus' = corpus
  BY <1>2 DEF FreezeV3, ManifestV3, Run
<1>4. FreezingV3(c, disk["test"])'
  BY <1>3 DEF FreezingV3, Manifest, Whole
<1>5. QED
  BY <1>1, <1>3, <1>4 DEF FreezeStands

LEMMA FreezeHeldoutStands == ASSUME LifeInv, FreezeHeldout PROVE FreezeStands'
<1> DEFINE content == disk["heldout-v2-draft"].content
<1>1. content \in Contents
  BY Reading DEF LifeInv, FreezeHeldout, Readable, Datasets
<1>2. PICK c \in Records :
        /\ Approve("heldout-v2", content) = Whole("heldout-v2", c)
        /\ c = Approve("heldout-v2", content).value
  BY <1>1, ApprovalWritten DEF Datasets
<1>3. /\ writes' = <<Whole("heldout-v2", c), Manifest("heldout-v2-manifest", Absent, c)>>
      /\ disk' = disk /\ corpus' = corpus
  BY <1>2 DEF FreezeHeldout, Run
<1>4. FreezingHeldout(c)'
  BY <1>3 DEF FreezingHeldout, Manifest, Whole
<1>5. QED
  BY <1>4 DEF FreezeStands

LEMMA Tuples ==
  /\ \A x, y : Head(<<x, y>>) = x /\ Tail(<<x, y>>) = <<y>>
  /\ \A x, y, z : Head(<<x, y, z>>) = x /\ Tail(<<x, y, z>>) = <<y, z>>
OBVIOUS

\* A write advances a running freeze, and the file it writes is as promised.
LEMMA WriteStands == ASSUME LifeInv, FreezeStands, Write PROVE FreezeStands'
<1>1. /\ writes # <<>> /\ writes \in Seq(Writes)
      /\ disk' = [disk EXCEPT ![Head(writes).to] = Head(writes).value]
      /\ writes' = Tail(writes) /\ corpus' = corpus
      /\ \A f \in Datasets \cup Manifests : f \in DOMAIN disk
  BY DEF Write, Idle, LifeInv, LifeTypeOK
<1>2. CASE NoFreeze(writes)
  BY <1>1, <1>2 DEF NoFreeze, FreezeStands
<1>3. ASSUME NEW c \in Records, NEW t \in Records, FreezingV2(c, t)
      PROVE  FreezeStands'
  <2> DEFINE m == Manifest("manifest", c, t)
  <2>1. Approved(c)' /\ Approved(t)' /\ m' = m /\ Approved(c) /\ Approved(t)
    BY <1>1, <1>3 DEF FreezingV2, Approved, Manifest
  <2>2. CASE writes = <<Whole("calibration", c), Whole("test", t), m>>
    <3> DEFINE w == Whole("calibration", c)
    <3> w.to = "calibration" /\ w.value = c
      BY DEF Whole
    <3> HIDE DEF w, m
    <3>1. /\ writes' = <<Whole("test", t), m>>
          /\ disk' = [disk EXCEPT !["calibration"] = c]
      <4>1. Head(writes) = w /\ Tail(writes) = <<Whole("test", t), m>>
        BY <2>2, Tuples DEF w
      <4>2. QED
        BY <1>1, <4>1
    <3> USE DEF m
    <3>2. SameContent("test", t)
      BY <1>3, <2>2 DEF FreezingV2
    <3>3. disk'["calibration"] = c /\ SameContent("test", t)'
      BY <1>1, <3>1, <3>2 DEF SameContent, Datasets
    <3>4. QED
      BY <2>1, <3>1, <3>3 DEF FreezingV2, FreezeStands, Whole
  <2>3. CASE writes = <<Whole("test", t), m>>
    <3> DEFINE w == Whole("test", t)
    <3> w.to = "test" /\ w.value = t
      BY DEF Whole
    <3> HIDE DEF w, m
    <3>1. /\ writes' = <<m>>
          /\ disk' = [disk EXCEPT !["test"] = t]
      <4>1. Head(writes) = w /\ Tail(writes) = <<m>>
        BY <2>3, Tuples DEF w
      <4>2. QED
        BY <1>1, <4>1
    <3> USE DEF m
    <3>2. disk["calibration"] = c
      BY <1>3, <2>3 DEF FreezingV2
    <3>3. disk'["calibration"] = c /\ disk'["test"] = t
      BY <1>1, <3>1, <3>2 DEF Datasets
    <3>4. QED
      BY <2>1, <3>1, <3>3 DEF FreezingV2, FreezeStands
  <2>4. CASE writes = <<m>>
    BY <1>1, <2>4 DEF FreezeStands, NoFreeze
  <2>5. QED
    BY <1>3, <2>2, <2>3, <2>4 DEF FreezingV2
<1>4. ASSUME NEW c \in Records, NEW t \in Records, FreezingV3(c, t)
      PROVE  FreezeStands'
  <2> DEFINE m == Manifest("manifest-v3", c, t)
  <2>1. m' = m /\ disk["test"] = t
    BY <1>1, <1>4 DEF FreezingV3, Manifest
  <2>2. CASE writes = <<Whole("calibration-v3", c), m>>
    <3> DEFINE w == Whole("calibration-v3", c)
    <3> w.to = "calibration-v3" /\ w.value = c
      BY DEF Whole
    <3> HIDE DEF w, m
    <3>1. /\ writes' = <<m>>
          /\ disk' = [disk EXCEPT !["calibration-v3"] = c]
      <4>1. Head(writes) = w /\ Tail(writes) = <<m>>
        BY <2>2, Tuples DEF w
      <4>2. QED
        BY <1>1, <4>1
    <3> USE DEF m
    <3>2. disk'["calibration-v3"] = c /\ disk'["test"] = t
      BY <1>1, <2>1, <3>1 DEF Datasets
    <3>3. QED
      BY <2>1, <3>1, <3>2 DEF FreezingV3, FreezeStands
  <2>3. CASE writes = <<m>>
    BY <1>1, <2>3 DEF FreezeStands, NoFreeze
  <2>4. QED
    BY <1>4, <2>2, <2>3 DEF FreezingV3
<1>5. ASSUME NEW c \in Records, FreezingHeldout(c)
      PROVE  FreezeStands'
  <2> DEFINE m == Manifest("heldout-v2-manifest", Absent, c)
  <2>1. m' = m
    BY <1>1 DEF Manifest
  <2>2. CASE writes = <<Whole("heldout-v2", c), m>>
    <3> DEFINE w == Whole("heldout-v2", c)
    <3> w.to = "heldout-v2" /\ w.value = c
      BY DEF Whole
    <3> HIDE DEF w, m
    <3>1. /\ writes' = <<m>>
          /\ disk' = [disk EXCEPT !["heldout-v2"] = c]
      <4>1. Head(writes) = w /\ Tail(writes) = <<m>>
        BY <2>2, Tuples DEF w
      <4>2. QED
        BY <1>1, <4>1
    <3> USE DEF m
    <3>2. disk'["heldout-v2"] = c
      BY <1>1, <3>1 DEF Datasets
    <3>3. QED
      BY <2>1, <3>1, <3>2 DEF FreezingHeldout, FreezeStands
  <2>3. CASE writes = <<m>>
    BY <1>1, <2>3 DEF FreezeStands, NoFreeze
  <2>4. QED
    BY <1>5, <2>2, <2>3 DEF FreezingHeldout
<1>6. QED
  BY <1>2, <1>3, <1>4, <1>5 DEF FreezeStands

\* While a command is at work nothing else changes the disk or the corpus.
LEMMA IdleStands == ASSUME writes' = <<>> PROVE FreezeStands'
BY DEF FreezeStands, NoFreeze

LEMMA StepStands == LifeInv /\ FreezeStands /\ [LifeNext]_lifeVars => FreezeStands'
<1> SUFFICES ASSUME LifeInv, FreezeStands, [LifeNext]_lifeVars PROVE FreezeStands'
  OBVIOUS
<1>1. CASE Generate \/ Migrate \/ ApplyFacts \/ DraftFactTypes
  BY <1>1, CommandsStand
<1>2. CASE Freeze
  BY <1>2, FreezeV2Stands, FreezeV3Stands, FreezeHeldoutStands DEF Freeze
<1>3. CASE Write
  BY <1>3, WriteStands
<1>4. CASE Crash \/ (\E d \in Datasets : EditByHand(d)) \/ WriteHeldoutDraft \/ ReplaceCorpus
  BY <1>4, IdleStands DEF Crash, EditByHand, WriteHeldoutDraft, ReplaceCorpus, Idle
<1>5. CASE UNCHANGED lifeVars
  BY <1>5 DEF lifeVars, FreezeStands, NoFreeze, FreezingV2, FreezingV3, FreezingHeldout,
     SameContent, Manifest, Approved, Whole
<1>6. QED
  BY <1>1, <1>2, <1>3, <1>4, <1>5 DEF LifeNext

LEMMA InitStands == LifeInit => FreezeStands
BY DEF LifeInit, FreezeStands, NoFreeze

\* What a running freeze has still to write fits what it has written: the dataset
\* before its manifest, and the record that the manifest will pin.
THEOREM FreezeProgress == LifeSpec => []FreezeStands
<1>1. LifeSpec => []LifeInv
  BY LifeInvariant
<1>2. QED
  BY <1>1, InitStands, StepStands, PTL DEF LifeSpec

\* What is accepted stays so while its files, or its dataset and what its
\* manifest says of it, stay as they are.
LEMMA StillAccepted ==
  ASSUME NEW e \in Evaluations, Accepted(e), corpus' = corpus,
         disk'[e[1]] = disk[e[1]],
         \/ disk'[e[2]] = disk[e[2]]
         \/ /\ disk'[e[2]] # Absent /\ disk'[e[2]].corpus = corpus
            /\ disk'[e[2]][e[3]] = disk[e[1]]
  PROVE  Accepted(e)'
BY DEF Accepted, Readable, Valid, Approved, PinHolds

LEMMA ManifestIsPin ==
  ASSUME NEW m \in Manifests, corpus \in Corpora,
         NEW c \in Records \cup {Absent}, NEW t \in Records \cup {Absent}
  PROVE  /\ Manifest(m, c, t).to = m /\ Manifest(m, c, t).value # Absent
         /\ Manifest(m, c, t).value.corpus = corpus
         /\ Manifest(m, c, t).value["calibration"] = c
         /\ Manifest(m, c, t).value["test"] = t
<1> Manifest(m, c, t).value \in Pins
  BY DEF Manifest, Pins
<1> QED
  BY NoFileAssumption DEF Manifest

\* Two approved datasets of one content are one dataset.
LEMMA SameApproved ==
  ASSUME NEW d, NEW r \in Records, SameContent(d, r), Approved(disk[d]), Approved(r)
  PROVE  disk[d] = r
BY DEF SameContent, Records, Approved

LEMMA WriteKeepsPins ==
  ASSUME LifeInv, FreezeStands, Write, Freezing, NEW e \in Evaluations, Accepted(e)
  PROVE  Accepted(e)' \/ Replaced(e)
<1>1. /\ writes # <<>> /\ corpus' = corpus /\ corpus \in Corpora
      /\ disk' = [disk EXCEPT ![Head(writes).to] = Head(writes).value]
      /\ \A f \in Datasets \cup Manifests : f \in DOMAIN disk
      /\ writes \in Seq(Writes)
  BY DEF Write, Idle, LifeInv, LifeTypeOK
<1>2. /\ Head(writes) = writes[1] /\ 1 \in DOMAIN writes
      /\ ~NoFreeze(writes)
  BY <1>1, Kinds DEF NoFreeze, Freezing
<1>3. Approved(disk[e[1]])
  BY DEF Accepted
<1>4. ASSUME NEW m \in Manifests, NEW c \in Records \cup {Absent}, NEW t \in Records \cup {Absent},
             Head(writes) = Manifest(m, c, t),
             e[2] = m => disk[e[1]] = IF e[3] = "test" THEN t ELSE c
      PROVE  Accepted(e)'
  <2> DEFINE w == Manifest(m, c, t)
  <2>1. /\ w.to = m /\ w.value # Absent /\ w.value.corpus = corpus
        /\ w.value["calibration"] = c /\ w.value["test"] = t
    BY <1>1, <1>4, ManifestIsPin
  <2>2. disk' = [disk EXCEPT ![m] = w.value]
    BY <1>1, <1>4, <2>1
  <2> HIDE DEF w
  <2>3. disk'[e[1]] = disk[e[1]] /\ e[2] \in DOMAIN disk /\ e[3] \in {"calibration", "test"}
    BY <1>1, <2>2, Kinds DEF Evaluations, Datasets, Manifests
  <2>4. CASE e[2] = m
    BY <1>1, <1>4, <2>1, <2>2, <2>3, <2>4, StillAccepted
  <2>5. CASE e[2] # m
    BY <1>1, <2>2, <2>3, <2>5, StillAccepted
  <2>6. QED
    BY <2>4, <2>5
<1>5. ASSUME NEW d \in Datasets, NEW r \in Records, Head(writes) = Whole(d, r),
             e[1] = d => disk[d] = r
      PROVE  Accepted(e)'
  <2> DEFINE w == Whole(d, r)
  <2> w.to = d /\ w.value = r
    BY DEF Whole
  <2> HIDE DEF w
  <2>1. disk' = [disk EXCEPT ![d] = r]
    <3>1. Head(writes) = w
      BY <1>5 DEF w
    <3>2. QED
      BY <1>1, <3>1
  <2>2. disk'[e[1]] = disk[e[1]] /\ disk'[e[2]] = disk[e[2]]
    BY <1>1, <1>5, <2>1, Kinds DEF Evaluations, Datasets, Manifests
  <2>3. QED
    BY <1>1, <2>2, StillAccepted
<1>6. ASSUME NEW c \in Records, NEW t \in Records, FreezingV2(c, t)
      PROVE  Accepted(e)'
  <2> DEFINE m == Manifest("manifest", c, t)
  <2>1. Approved(c) /\ Approved(t) /\ "manifest" \in Manifests
        /\ "calibration" \in Datasets /\ "test" \in Datasets
    BY <1>6 DEF FreezingV2, Manifests, Datasets
  <2>2. CASE writes = <<Whole("calibration", c), Whole("test", t), m>> /\ SameContent("calibration", c)
    <3>1. Head(writes) = Whole("calibration", c)
      BY <2>2
    <3>2. QED
      BY <1>3, <1>5, <2>1, <2>2, <3>1, SameApproved
  <2>3. CASE writes = <<Whole("test", t), m>> /\ SameContent("test", t)
    <3>1. Head(writes) = Whole("test", t)
      BY <2>3, Tuples
    <3>2. QED
      BY <1>3, <1>5, <2>1, <2>3, <3>1, SameApproved
  <2>4. CASE writes = <<m>> /\ disk["calibration"] = c /\ disk["test"] = t
    <3>1. Head(writes) = m
      BY <2>4
    <3>2. e[2] = "manifest" => disk[e[1]] = IF e[3] = "test" THEN t ELSE c
      BY <2>4 DEF Evaluations
    <3>3. QED
      BY <1>4, <2>1, <3>1, <3>2
  <2>5. QED
    BY <1>6, <2>2, <2>3, <2>4 DEF FreezingV2
<1>7. ASSUME NEW c \in Records, NEW t \in Records, FreezingV3(c, t)
      PROVE  Accepted(e)' \/ Replaced(e)
  <2> DEFINE m == Manifest("manifest-v3", c, t)
  <2>1. "manifest-v3" \in Manifests /\ "calibration-v3" \in Datasets /\ disk["test"] = t
    BY <1>7 DEF FreezingV3, Manifests, Datasets
  <2>2. CASE writes = <<Whole("calibration-v3", c), m>>
    <3>1. Head(writes) = Whole("calibration-v3", c) /\ Whole("calibration-v3", c).to = "calibration-v3"
      BY <2>2, Tuples DEF Whole
    <3>2. QED
      BY <1>5, <2>1, <3>1 DEF Replaced
  <2>3. CASE writes = <<m>> /\ disk["calibration-v3"] = c
    <3>1. Head(writes) = m
      BY <2>3
    <3>2. e[2] = "manifest-v3" => disk[e[1]] = IF e[3] = "test" THEN t ELSE c
      BY <2>1, <2>3 DEF Evaluations
    <3>3. QED
      BY <1>4, <2>1, <3>1, <3>2
  <2>4. QED
    BY <1>7, <2>2, <2>3 DEF FreezingV3
<1>8. ASSUME NEW c \in Records, FreezingHeldout(c)
      PROVE  Accepted(e)' \/ Replaced(e)
  <2> DEFINE m == Manifest("heldout-v2-manifest", Absent, c)
  <2>1. "heldout-v2-manifest" \in Manifests /\ "heldout-v2" \in Datasets
    BY DEF Manifests, Datasets
  <2>2. CASE writes = <<Whole("heldout-v2", c), m>>
    <3>1. Head(writes) = Whole("heldout-v2", c) /\ Whole("heldout-v2", c).to = "heldout-v2"
      BY <2>2, Tuples DEF Whole
    <3>2. QED
      BY <1>5, <2>1, <3>1 DEF Replaced
  <2>3. CASE writes = <<m>> /\ disk["heldout-v2"] = c
    <3>1. Head(writes) = m
      BY <2>3
    <3>2. e[2] = "heldout-v2-manifest" => disk[e[1]] = IF e[3] = "test" THEN c ELSE Absent
      BY <2>3 DEF Evaluations
    <3>3. Absent \in Records \cup {Absent} /\ c \in Records \cup {Absent}
      OBVIOUS
    <3>4. QED
      BY <1>4, <2>1, <3>1, <3>2, <3>3
  <2>4. QED
    BY <1>8, <2>2, <2>3 DEF FreezingHeldout
<1>9. QED
  BY <1>2, <1>6, <1>7, <1>8 DEF FreezeStands

\* A freeze replaces its files whole, so that a crash tears none of them.
LEMMA CrashKeepsPins ==
  ASSUME LifeInv, FreezeStands, Crash, Freezing, NEW e \in Evaluations, Accepted(e)
  PROVE  Accepted(e)'
<1>1. /\ corpus' = corpus /\ ~NoFreeze(writes)
      /\ disk' = disk \/ ~Head(writes).whole
  BY Kinds DEF Crash, Idle, LifeInv, LifeTypeOK, NoFreeze, Freezing
<1>2. Head(writes).whole
  <2>1. \A d, r : Whole(d, r).whole
    BY DEF Whole
  <2>2. \A m, c, t : Manifest(m, c, t).whole
    BY DEF Manifest
  <2>3. \A x : Head(<<x>>) = x
    OBVIOUS
  <2>4. CASE \E c, t \in Records : FreezingV2(c, t)
    BY <2>1, <2>2, <2>3, <2>4, Tuples DEF FreezingV2
  <2>5. CASE \E c, t \in Records : FreezingV3(c, t)
    BY <2>1, <2>2, <2>3, <2>5, Tuples DEF FreezingV3
  <2>6. CASE \E c \in Records : FreezingHeldout(c)
    BY <2>1, <2>2, <2>3, <2>6, Tuples DEF FreezingHeldout
  <2>7. QED
    BY <1>1, <2>4, <2>5, <2>6 DEF FreezeStands
<1>3. QED
  BY <1>1, <1>2, StillAccepted

LEMMA StepKeepsPins ==
  LifeInv /\ FreezeStands /\ [LifeNext]_lifeVars =>
    [Freezing => \A e \in Evaluations : Accepted(e) => Accepted(e)' \/ Replaced(e)]_lifeVars
<1> SUFFICES ASSUME LifeInv, FreezeStands, LifeNext, Freezing, NEW e \in Evaluations, Accepted(e)
             PROVE  Accepted(e)' \/ Replaced(e)
  OBVIOUS
<1>1. ~Idle
  BY DEF Freezing
<1>2. Write \/ Crash
  BY <1>1 DEF LifeNext, Generate, Migrate, ApplyFacts, DraftFactTypes, Freeze, FreezeV2,
     FreezeV3, FreezeHeldout, Run, EditByHand, WriteHeldoutDraft, ReplaceCorpus
<1>3. QED
  BY <1>2, WriteKeepsPins, CrashKeepsPins

\* A freeze, finished or cut short anywhere, costs no other dataset its acceptance.
THEOREM PinsAreKept == LifeSpec => FreezeKeepsPins
<1>1. LifeSpec => []LifeInv /\ []FreezeStands
  BY LifeInvariant, FreezeProgress, PTL
<1>2. QED
  BY <1>1, StepKeepsPins, PTL DEF LifeSpec, FreezeKeepsPins
=============================================================================
