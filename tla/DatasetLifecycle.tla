-------------------------- MODULE DatasetLifecycle --------------------------
(***************************************************************************)
(* The life of the evaluation datasets on disk: an operator generates      *)
(* them, migrates them, adds answer facts, edits them by hand and freezes  *)
(* them with an approval token, in any order; an evaluation accepts a      *)
(* dataset when it is valid and approved and its manifest pins it          *)
(* (evaluation/dataset.py, scripts/archive/phase7,                         *)
(* evaluate_e2e._load_selected_dataset).                                   *)
(*                                                                         *)
(* A dataset is its content with the review status of its answerable rows  *)
(* and of the others; dataset_sha256 tells any two of them apart.  Its     *)
(* content is the annotated truth, the kind of its answer facts and the    *)
(* corpus whose chunks its qrels name.                                     *)
(***************************************************************************)
EXTENDS Naturals, Sequences, FiniteSets

CONSTANTS
  Truths, Corpora,         \* annotations a reviewer may write; corpora
  Generated,               \* the annotation the generator writes
  Corrected,               \* annotation -> the annotation with its qrels corrected
  Absent, Torn,            \* no file; a file whose writing was cut short
  MaxCommands, MaxEdits    \* bounds on commands, and on edits and new corpora

ASSUME LifecycleAssumption ==
  /\ Generated \in Truths /\ Corrected \in [Truths -> Truths]
  /\ MaxCommands \in Nat /\ MaxEdits \in Nat

Datasets  == {"calibration", "test", "calibration-v3-draft", "calibration-v3",
              "heldout-v2-draft", "heldout-v2"}
Manifests == {"manifest", "manifest-v3", "heldout-v2-manifest"}

Contents == [truth : Truths, facts : {"none", "reviewed", "typed"}, corpus : Corpora]
Statuses == {"needs_human_review", "approved"}
Records  == [content : Contents, answerable : Statuses, others : Statuses]
Pins     == [corpus : Corpora, calibration : Records \cup {Absent}, test : Records \cup {Absent}]

ASSUME NoFileAssumption ==
  /\ Absent \notin Records \cup Pins /\ Torn \notin Records \cup Pins /\ Absent # Torn
  /\ Records \cap Pins = {}

VARIABLES
  disk,      \* what each file holds
  corpus,    \* the frozen chunks
  writes,    \* writes the running command has still to make, in order
  commands, edits,
  approvals, \* contents a person has approved by a token
  tampered   \* was the test dataset edited by hand since it was approved?

lifeVars == <<disk, corpus, writes, commands, edits, approvals, tampered>>

(***************************************************************************)
(* Reading and validation                                                  *)
(***************************************************************************)
Approved(f) == f.answerable = "approved" /\ f.others = "approved"

\* read_dataset: rows an approved answerable item may not be without are facts.
Readable(f) ==
  /\ f \notin {Absent, Torn}
  /\ f.answerable = "approved" => f.content.facts # "none"

\* validate_dataset: the qrels name chunks of the corpus.
Valid(f) == f.content.corpus = corpus

Idle == writes = <<>>

\* A file replaced whole (write_jsonl_atomic) by a dataset.
Dataset(d, content, answerable, others) ==
  [to |-> d, whole |-> TRUE,
   value |-> [content |-> content, answerable |-> answerable, others |-> others]]

Review(d, content) == Dataset(d, content, "needs_human_review", "needs_human_review")
Approve(d, content) == Dataset(d, content, "approved", "approved")

Manifest(m, calibration, test) ==
  [to |-> m, whole |-> TRUE, value |-> [corpus |-> corpus, calibration |-> calibration, test |-> test]]

Run(ws) ==
  /\ Idle /\ commands < MaxCommands
  /\ commands' = commands + 1
  /\ writes' = ws
  /\ UNCHANGED <<disk, corpus, edits, tampered>>

(***************************************************************************)
(* Commands: each reads and checks everything before its first write       *)
(***************************************************************************)
\* generate_phase7_annotation_draft writes its files in place.
Generate ==
  /\ LET content == [truth |-> Generated, facts |-> "none", corpus |-> corpus]
     IN  Run(<<[Review("calibration", content) EXCEPT !.whole = FALSE],
               [Review("test", content) EXCEPT !.whole = FALSE]>>)
  /\ UNCHANGED approvals

\* migrate_phase7_dataset_v2 reads the rows as they are and takes every approval back.
Migrate ==
  /\ \A d \in {"calibration", "test"} : disk[d] \notin {Absent, Torn} /\ Valid(disk[d])
  /\ Run(<<Review("calibration", disk["calibration"].content),
           Review("test", disk["test"].content)>>)
  /\ UNCHANGED approvals

Reviewed(content) == [content EXCEPT !.facts = "reviewed"]

\* apply_phase7_answer_facts; the rows whose qrels it corrects are of calibration.
ApplyFacts ==
  /\ \A d \in {"calibration", "test"} : Readable(disk[d]) /\ Valid(disk[d])
  /\ Run(<<Review("calibration",
                  [Reviewed(disk["calibration"].content) EXCEPT !.truth = Corrected[@]]),
           Review("test", Reviewed(disk["test"].content))>>)
  /\ UNCHANGED approvals

\* freeze_phase7_dataset, with its token; what it reads back is what it has written.
FreezeV2 ==
  /\ \A d \in {"calibration", "test"} :
       Readable(disk[d]) /\ Valid(disk[d]) /\ disk[d].content.facts # "none"
  /\ LET calibration == Approve("calibration", disk["calibration"].content)
         test        == Approve("test", disk["test"].content)
     IN  Run(<<calibration, test, Manifest("manifest", calibration.value, test.value)>>)
  /\ approvals' = approvals \cup {disk["calibration"].content, disk["test"].content}

\* draft_phase7_calibration_fact_types types the facts of answerable rows; the
\* other rows are copied with their status.
DraftFactTypes ==
  /\ Readable(disk["calibration"]) /\ disk["calibration"].content.facts # "none"
  /\ Run(<<Dataset("calibration-v3-draft", [disk["calibration"].content EXCEPT !.facts = "typed"],
                   "needs_human_review", disk["calibration"].others)>>)
  /\ UNCHANGED approvals

ManifestV3_SamePath(calibration, test) == Manifest("manifest", calibration, test)

\* The manifest pins the test dataset as it is, approved or not.
ManifestV3(calibration, test) == Manifest("manifest-v3", calibration, test)

\* freeze_phase7_calibration_v3
FreezeV3 ==
  /\ \A d \in {"calibration-v3-draft", "test"} : Readable(disk[d]) /\ Valid(disk[d])
  /\ disk["calibration-v3-draft"].answerable = "needs_human_review"
  /\ disk["calibration-v3-draft"].content.facts # "none"
  /\ LET calibration == Approve("calibration-v3", disk["calibration-v3-draft"].content)
     IN  Run(<<calibration, ManifestV3(calibration.value, disk["test"])>>)
  /\ approvals' = approvals \cup {disk["calibration-v3-draft"].content}

\* freeze_phase7_heldout_v2
FreezeHeldout ==
  /\ Readable(disk["heldout-v2-draft"]) /\ Valid(disk["heldout-v2-draft"])
  /\ disk["heldout-v2-draft"].answerable = "needs_human_review"
  /\ disk["heldout-v2-draft"].others = "needs_human_review"
  /\ disk["heldout-v2-draft"].content.facts # "none"
  /\ LET heldout == Approve("heldout-v2", disk["heldout-v2-draft"].content)
     IN  Run(<<heldout, Manifest("heldout-v2-manifest", Absent, heldout.value)>>)
  /\ approvals' = approvals \cup {disk["heldout-v2-draft"].content}

\* The running command replaces the next file.
Write ==
  /\ ~Idle
  /\ disk' = [disk EXCEPT ![Head(writes).to] = Head(writes).value]
  /\ tampered' = (tampered /\ Head(writes).to # "test")
  /\ writes' = Tail(writes)
  /\ UNCHANGED <<corpus, commands, edits, approvals>>

\* The command dies, or a write fails; a file written in place may be torn.
Crash ==
  /\ ~Idle
  /\ \/ UNCHANGED <<disk, tampered>>
     \/ /\ ~Head(writes).whole
        /\ disk' = [disk EXCEPT ![Head(writes).to] = Torn]
        /\ tampered' = (tampered /\ Head(writes).to # "test")
  /\ writes' = <<>>
  /\ UNCHANGED <<corpus, commands, edits, approvals>>

(***************************************************************************)
(* Between the commands                                                    *)
(***************************************************************************)
\* A reviewer changes the annotations of a dataset and no status.
EditByHand(d) ==
  /\ Idle /\ edits < MaxEdits /\ disk[d] \notin {Absent, Torn}
  /\ \E truth \in Truths \ {disk[d].content.truth} :
       disk' = [disk EXCEPT ![d].content.truth = truth]
  /\ tampered' = (tampered \/ d = "test")
  /\ edits' = edits + 1
  /\ UNCHANGED <<corpus, writes, commands, approvals>>

\* The private held-out draft is written by hand.
WriteHeldoutDraft ==
  /\ Idle /\ edits < MaxEdits
  /\ \E truth \in Truths, facts \in {"none", "typed"} :
       disk' = [disk EXCEPT !["heldout-v2-draft"] =
                  Review("heldout-v2-draft",
                         [truth |-> truth, facts |-> facts, corpus |-> corpus]).value]
  /\ edits' = edits + 1
  /\ UNCHANGED <<corpus, writes, commands, approvals, tampered>>

\* The chunks are frozen anew from another ingestion.
ReplaceCorpus ==
  /\ Idle /\ edits < MaxEdits
  /\ corpus' \in Corpora \ {corpus}
  /\ edits' = edits + 1
  /\ UNCHANGED <<disk, writes, commands, approvals, tampered>>

LifeInit ==
  /\ disk = [f \in Datasets \cup Manifests |-> Absent]
  /\ corpus \in Corpora
  /\ writes = <<>> /\ commands = 0 /\ edits = 0
  /\ approvals = {} /\ tampered = FALSE

Freeze == FreezeV2 \/ FreezeV3 \/ FreezeHeldout

LifeNext ==
  \/ Generate \/ Migrate \/ ApplyFacts \/ DraftFactTypes \/ Freeze
  \/ Write \/ Crash
  \/ \E d \in Datasets : EditByHand(d)
  \/ WriteHeldoutDraft \/ ReplaceCorpus

LifeSpec == LifeInit /\ [][LifeNext]_lifeVars

(***************************************************************************)
(* Evaluation                                                              *)
(***************************************************************************)
\* The dataset, its manifest and the field of the manifest that pins it.
Evaluations ==
  {<<"calibration", "manifest", "calibration">>, <<"test", "manifest", "test">>,
   <<"calibration-v3", "manifest-v3", "calibration">>, <<"test", "manifest-v3", "test">>,
   <<"heldout-v2", "heldout-v2-manifest", "test">>}

PinHolds_CorpusOnly(f, manifest, key) == manifest # Absent /\ manifest.corpus = corpus

\* _validate_evaluation_manifest
PinHolds(f, manifest, key) ==
  manifest # Absent /\ manifest.corpus = corpus /\ manifest[key] = f

\* _load_selected_dataset: would an evaluation accept the dataset now?
Accepted(e) ==
  LET f == disk[e[1]]
  IN  Readable(f) /\ Valid(f) /\ Approved(f) /\ PinHolds(f, disk[e[2]], e[3])

(***************************************************************************)
(* Properties                                                              *)
(***************************************************************************)
Writes == [to : Datasets, whole : BOOLEAN, value : Records]
            \cup [to : Manifests, whole : {TRUE}, value : Pins]

\* Every variable has its type; a dataset is never written where a manifest belongs.
LifeTypeOK ==
  /\ disk \in [Datasets \cup Manifests -> Records \cup Pins \cup {Absent, Torn}]
  /\ \A d \in Datasets : disk[d] \in Records \cup {Absent, Torn}
  /\ \A m \in Manifests : disk[m] \in Pins \cup {Absent}
  /\ writes \in Seq(Writes)
  /\ corpus \in Corpora /\ commands \in 0..MaxCommands /\ edits \in 0..MaxEdits
  /\ approvals \subseteq Contents /\ tampered \in BOOLEAN

\* Whatever is generated, migrated, edited, drafted, frozen or cut short in
\* between, an evaluation accepts only content that a person has approved by a
\* token; the one exception is a test dataset edited by hand after its approval,
\* which the manifest of calibration v3 pins unseen
\* (evaluate_e2e.py:400-435, freeze_phase7_calibration_v3.py:37-57).
EvaluatedIsApproved ==
  \A e \in Evaluations :
    Accepted(e) /\ ~(e[1] = "test" /\ tampered) => disk[e[1]].content \in approvals

\* The next write is one of a freeze: an approved dataset, or a manifest.
Freezing == ~Idle /\ (Head(writes).to \in Manifests \/ Approved(Head(writes).value))

Replaced(e) == e[1] = Head(writes).to /\ e[1] \in {"calibration-v3", "heldout-v2"}

\* Freezing one dataset, in full or cut short, costs no other one its acceptance:
\* what a manifest pins stays evaluable, but for the dataset being replaced until
\* its manifest follows (freeze_phase7_dataset.py:69-80,
\* freeze_phase7_calibration_v3.py:49-56).
FreezeKeepsPins ==
  [][Freezing =>
       \A e \in Evaluations : Accepted(e) => Accepted(e)' \/ Replaced(e)]_lifeVars
=============================================================================
