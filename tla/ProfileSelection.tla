-------------------------- MODULE ProfileSelection --------------------------
(***************************************************************************)
(* How the retrieval profile was chosen from the calibration rows, in the  *)
(* archived commands of phase 7.  One command searches the rows' questions *)
(* and leaves a snapshot of the ranked candidates                          *)
(* (create_phase7_reranker_snapshot).  Another replays the rank profiles   *)
(* over the snapshot, judges the candidates by the annotations of the      *)
(* calibration file, takes the winner of most folds, tries two registered  *)
(* fallbacks of it and releases what passes the gates                      *)
(* (calibrate_phase7_role_prior).  The calibration file may be frozen anew *)
(* at any time (freeze_phase7_calibration_v3).                             *)
(*                                                                         *)
(* A content stands for a calibration file and its hash.  The pool of a    *)
(* row is how many candidates the snapshot has for it, and if a relevant   *)
(* one is among them; an outcome is what a profile makes of it: the final  *)
(* rank of the first relevant candidate, or 0, and how much of the         *)
(* evidence is of wrong documents, the first place apart.                  *)
(***************************************************************************)
EXTENDS Integers, Sequences, FiniteSetsExt, Functions

CONSTANTS
  Contents, NoContent,  \* contents the calibration file may have; none
  RowsOf,               \* the answerable rows of a content
  Rows, Folds,          \* rows of FOLDS; sets of rows held out, in order
  English,              \* rows in English; the others are in Vietnamese
  Profiles, NameRank,   \* profiles, in the order of their parameters; order of names
  Pools, Outcomes,      \* what a search may give; what a profile may give on a row
  TopK, Scale,          \* places of evidence; a multiple of ranks and of sums of places
  StableVotes, MaxCandidates, RequiredRow,                                   \* gates;
  HitGate, VietnameseGate, ReciprocalGate, WrongGate, LanguageWrongGate  \* fractions

ASSUME SelectionAssumption ==
  /\ NoContent \notin Contents
  /\ IsFiniteSet(Rows) /\ RequiredRow \in Rows
  /\ English \subseteq Rows /\ English \notin {{}, Rows}
  /\ Folds \in Seq(SUBSET Rows) /\ UNION Range(Folds) = Rows
  /\ \A n \in DOMAIN Folds : Folds[n] # Rows
  /\ Profiles \subseteq Nat /\ IsFiniteSet(Profiles) /\ Profiles # {}
  /\ NameRank \in [Profiles -> Nat] /\ IsInjective(NameRank)
  /\ Pools \subseteq [Rows -> [found : BOOLEAN, size : Nat \ {0}]]
  /\ Outcomes \subseteq
       [rank : Nat, places : Nat \ {0}, wrong : Nat, wrongFirst : BOOLEAN]
  /\ TopK \in Nat /\ Scale \in Nat
  /\ StableVotes \in Nat /\ 2 * StableVotes > Len(Folds)  \* 4 of 6 in the code

VARIABLES
  calibration,  \* content of the calibration file
  searching,    \* content a snapshot command has read, or NoContent
  snapshot,     \* [searched, sha256], the content searched and the one named; or NoSnapshot
  stage,        \* of the replay: "idle", "read", "folds", "list", "relation", "write", "end"
  read,         \* content of the calibration file it has read
  scored,       \* snapshot it has read
  pool, table,  \* pools of the rows; outcome of each profile on each row
  winners,      \* winner of each fold so far
  choice,       \* [variant, outcomes] that passed the gates, or Unreleased
  report        \* the written report: what it releases, or Unreleased

snapshotVars  == <<calibration, searching, snapshot>>
replayVars    == <<stage, read, scored, pool, table, winners, choice, report>>
selectionVars == <<snapshotVars, replayVars>>

NoSnapshot == [sha256 |-> NoContent]
Unreleased == [variant |-> "none"]

(***************************************************************************)
(* Metrics over rows                                                       *)
(***************************************************************************)
Hit(o) == o.rank \in 1..TopK

\* The sum of a function is how many pairs there are below it.
Total(n) == Cardinality(UNION {{r} \X (1..n[r]) : r \in DOMAIN n})

Recall(R)         == Cardinality({r \in R : pool[r].found})
Hits(f, R)        == Cardinality({r \in R : Hit(f[r])})
WrongFirst(f, R)  == Cardinality({r \in R : f[r].wrongFirst})
Wrong(f, R)       == Total([r \in R |-> f[r].wrong])
Places(f, R)      == Total([r \in R |-> f[r].places])
Reciprocals(f, R) == Total([r \in R |-> IF Hit(f[r]) THEN Scale \div f[r].rank ELSE 0])

Reaches(count, total, gate) == count * gate[2] >= gate[1] * total
Within(count, total, gate)  == count * gate[2] <= gate[1] * total

(***************************************************************************)
(* The profile of most folds                                               *)
(***************************************************************************)
\* Keys are compared as Python compares tuples; the least is preferred.
Precedes(k, l) ==
  \E i \in DOMAIN k : k[i] < l[i] /\ \A j \in 1..(i - 1) : k[j] = l[j]

Preferred(key) ==
  CHOOSE p \in DOMAIN key : \A q \in DOMAIN key \ {p} : Precedes(key[p], key[q])

\* _select_profile: rates over the same rows compare as their counts, but for the
\* wrong documents, of which the places may differ.
FoldKey(f, p, R) ==
  <<-Recall(R), -Hits(f, R), (Wrong(f, R) * Scale) \div Places(f, R), WrongFirst(f, R),
    -Reciprocals(f, R), p, NameRank[p]>>

\* _cross_validate
Training(n) == Rows \ Folds[n]

FoldWinner(n) == Preferred([p \in Profiles |-> FoldKey(table[p], p, Training(n))])

Votes(ws, p) == Cardinality({n \in DOMAIN ws : ws[n] = p})

\* Most votes, then the first name.
Consensus(ws) == Preferred([p \in Range(ws) |-> <<-Votes(ws, p), NameRank[p]>>])

Stable(ws) == Votes(ws, Consensus(ws)) >= StableVotes

\* _quality
Quality(f) ==
  LET vietnamese   == Rows \ English
      wrongIn(R)   == Within(Wrong(f, R), Places(f, R), LanguageWrongGate)
  IN  /\ Recall(Rows) = Cardinality(Rows)
      /\ Reaches(Hits(f, Rows), Cardinality(Rows), HitGate)
      /\ Reaches(Reciprocals(f, Rows), Scale * Cardinality(Rows), ReciprocalGate)
      /\ Hits(f, English) = Cardinality(English)
      /\ Reaches(Hits(f, vietnamese), Cardinality(vietnamese), VietnameseGate)
      /\ WrongFirst(f, Rows) = 0
      /\ Within(Wrong(f, Rows), Places(f, Rows), WrongGate)
      /\ wrongIn(English) /\ wrongIn(vietnamese)
      /\ \A r \in Rows : pool[r].size <= MaxCandidates
      /\ Hit(f[RequiredRow])
      /\ Stable(winners)

(***************************************************************************)
(* The calibration file and its snapshot                                   *)
(***************************************************************************)
FreezeAgain ==
  /\ calibration' \in Contents \ {calibration}
  /\ UNCHANGED <<searching, snapshot, replayVars>>

\* The snapshot command reads the file and searches the questions of it.
SearchRows ==
  /\ searching = NoContent
  /\ searching' = calibration
  /\ UNCHANGED <<calibration, snapshot, replayVars>>

WriteSnapshot_HashesFile ==
  /\ searching # NoContent
  /\ snapshot' = [searched |-> searching, sha256 |-> calibration]
  /\ searching' = NoContent
  /\ UNCHANGED <<calibration, replayVars>>

\* It names the rows it has read, whatever the file has become.
WriteSnapshot ==
  /\ searching # NoContent
  /\ snapshot' = [searched |-> searching, sha256 |-> searching]
  /\ searching' = NoContent
  /\ UNCHANGED <<calibration, replayVars>>

\* It is killed, or a search or a check of its candidates fails.
SearchFails ==
  /\ searching # NoContent
  /\ searching' = NoContent
  /\ UNCHANGED <<calibration, snapshot, replayVars>>

(***************************************************************************)
(* The replay                                                              *)
(***************************************************************************)
ReadCalibration ==
  /\ stage = "idle"
  /\ read' = calibration
  /\ stage' = "read"
  /\ UNCHANGED <<snapshotVars, scored, pool, table, winners, choice, report>>

\* The snapshot must name the rows that were read, and the folds must cover them.
Accepts(s, c) ==
  /\ s # NoSnapshot /\ s.sha256 = c
  /\ RowsOf[s.searched] = RowsOf[c] /\ RowsOf[c] = Rows

\* Replaying a profile, or a fallback, only orders what is in the pools.
Replays(found) ==
  {f \in [Rows -> Outcomes] : \A r \in Rows : f[r].rank # 0 => found[r].found}

ReplaySnapshot ==
  /\ stage = "read" /\ Accepts(snapshot, read)
  /\ scored' = snapshot
  /\ pool' \in Pools
  /\ table' \in [Profiles -> Replays(pool')]
  /\ stage' = "folds"
  /\ UNCHANGED <<snapshotVars, read, winners, choice, report>>

EvaluateFold ==
  /\ stage = "folds" /\ Len(winners) < Len(Folds)
  /\ winners' = Append(winners, FoldWinner(Len(winners) + 1))
  /\ UNCHANGED <<snapshotVars, stage, read, scored, pool, table, choice, report>>

\* The outcomes are chosen if they pass the gates; otherwise the next are tried.
Judge(variant, f, next) ==
  /\ IF Quality(f)
     THEN choice' = [variant |-> variant, outcomes |-> f] /\ stage' = "write"
     ELSE stage' = next /\ UNCHANGED choice
  /\ UNCHANGED <<snapshotVars, read, scored, pool, table, winners, report>>

JudgeConsensus ==
  /\ stage = "folds" /\ Len(winners) = Len(Folds)
  /\ Judge("base", table[Consensus(winners)], "list")

\* A fallback adds list completeness, or relation lists, to the consensus; it is
\* judged on all rows, with the stability of the consensus.
TryFallback ==
  /\ stage \in {"list", "relation"}
  /\ \E f \in Replays(pool) : Judge(stage, f, IF stage = "list" THEN "relation" ELSE "write")

\* The command ends; all but the files is gone.
EndsAt(s) ==
  /\ stage' = s
  /\ read' = NoContent /\ scored' = NoSnapshot /\ pool' = <<>> /\ table' = <<>>
  /\ winners' = <<>> /\ choice' = Unreleased
  /\ UNCHANGED snapshotVars

\* One report is looked at: "end" is a bound.
WriteReport ==
  /\ stage = "write"
  /\ report' = IF choice = Unreleased THEN Unreleased
               ELSE [variant |-> choice.variant, profile |-> Consensus(winners),
                     outcomes |-> choice.outcomes, pool |-> pool, folds |-> winners,
                     searched |-> scored.searched, calibration |-> read]
  /\ EndsAt("end")

\* It is killed, or it refuses what it has read; nothing is written.
ReplayFails ==
  /\ stage \notin {"idle", "end"}
  /\ UNCHANGED report
  /\ EndsAt("idle")

SelectionInit ==
  /\ calibration \in Contents /\ searching = NoContent /\ snapshot = NoSnapshot
  /\ stage = "idle" /\ read = NoContent /\ scored = NoSnapshot /\ pool = <<>> /\ table = <<>>
  /\ winners = <<>> /\ choice = Unreleased /\ report = Unreleased

SelectionNext ==
  \/ FreezeAgain \/ SearchRows \/ WriteSnapshot \/ SearchFails
  \/ ReadCalibration \/ ReplaySnapshot \/ EvaluateFold \/ JudgeConsensus \/ TryFallback
  \/ WriteReport \/ ReplayFails

SelectionSpec == SelectionInit /\ [][SelectionNext]_selectionVars

(***************************************************************************)
(* Properties                                                              *)
(***************************************************************************)
\* However the calibration file is frozen anew and snapshots are made around a
\* replay, what it releases was searched with the very rows whose annotations
\* judged it, the rows of the folds; every row is found within the budget, with no
\* wrong document first; and the profile has more folds than any other, on its own
\* or as the one a fallback belongs to (calibrate_phase7_role_prior.py:68-171).
ReleaseIsEarned ==
  report # Unreleased =>
    /\ report.searched = report.calibration /\ RowsOf[report.calibration] = Rows
    /\ \A r \in Rows :
         /\ report.pool[r].found /\ report.pool[r].size <= MaxCandidates
         /\ ~report.outcomes[r].wrongFirst
    /\ \A p \in Profiles \ {report.profile} :
         Votes(report.folds, p) < Votes(report.folds, report.profile)
=============================================================================
