---------------------------- MODULE EvaluationRun ----------------------------
(***************************************************************************)
(* The approval-gated end-to-end evaluation: select items of one dataset,  *)
(* resume from a checkpoint, execute and score the missing items one by    *)
(* one, saving after each, then write the report and exit with the verdict *)
(* of the quality gates (scripts/evaluation/evaluate_e2e.py).              *)
(*                                                                         *)
(* A file is replaced in one step (write_jsonl_atomic, write_json_atomic), *)
(* so a kill between two steps leaves the old or the new one.  A record is *)
(* the item, the options it was executed under and whether it scored well; *)
(* the gates' thresholds are abstracted to a number of good records.       *)
(***************************************************************************)
EXTENDS Naturals, Sequences, SequencesExt, FiniteSets

CONSTANTS
  Evaluators,   \* processes that may run the command
  Dataset,      \* the items of the dataset, in order
  Selections,   \* item sequences --item-id or --max-queries may select
  Frozen,       \* settings, source files and libraries the identity covers
  TopKs,        \* values of --top-k, which the identity does not cover
  GateMinimum,  \* good records the quality gates ask for
  NoFile,       \* the checkpoint or the report does not exist
  MaxRuns,      \* bound on the commands started
  MaxFaults     \* bound on failed executions and killed processes

Items   == {Dataset[n] : n \in DOMAIN Dataset}
Configs == [selected : Selections, frozen : Frozen, topK : TopKs]
Records == [item : Items, by : Configs, good : BOOLEAN]

\* run_identity: everything the checkpoint is checked against.
Identity(c) == [selected |-> c.selected, frozen |-> c.frozen]

Files == [identity : {Identity(c) : c \in Configs}, records : Seq(Records)]

ASSUME EvaluationAssumption ==
  /\ \A s \in Selections : s \in Seq(Items) /\ s # <<>> /\ IsInjective(s)
  /\ Dataset \in Seq(Items) /\ Dataset \in Selections
  /\ Frozen # {} /\ TopKs # {} /\ IsFiniteSet(Evaluators)
  /\ GateMinimum \in Nat /\ MaxRuns \in Nat /\ MaxFaults \in Nat

ASSUME NoFileAssumption == NoFile \notin Files

VARIABLES
  checkpoint,  \* [identity, records] on disk, or NoFile
  report,      \* [identity, records, verdict] on disk, or NoFile
  pc,          \* evaluator -> step of main()
  config,      \* evaluator -> its options
  records,     \* evaluator -> records in memory
  exit,        \* evaluator -> exit status of its last command
  executed,    \* queries sent to the provider so far
  runs,        \* commands started
  faults       \* failed executions and killed processes

vars == <<checkpoint, report, pc, config, records, exit, executed, runs, faults>>

Steps    == {"load", "score", "save", "abort"}
Statuses == {"none", "0", "1", "2", "killed"}

ItemsOf(recs) == {recs[n].item : n \in DOMAIN recs}

\* Places of the selection without a record; the items are taken in order.
Missing(e)  == {n \in DOMAIN config[e].selected :
                  config[e].selected[n] \notin ItemsOf(records[e])}
NextItem(e) == config[e].selected[CHOOSE n \in Missing(e) : \A k \in Missing(e) : n <= k]

Complete(e)     == Len(config[e].selected) = Len(Dataset)
GatesPass(recs) == Cardinality({n \in DOMAIN recs : recs[n].good}) >= GateMinimum

Saved(e) == [identity |-> Identity(config[e]), records |-> records[e]]

\* The process ends with a status; its memory is gone.
Leave(e, status) ==
  /\ pc' = [pc EXCEPT ![e] = "exited"]
  /\ exit' = [exit EXCEPT ![e] = status]
  /\ records' = [records EXCEPT ![e] = <<>>]

Init ==
  /\ checkpoint = NoFile
  /\ report = NoFile
  /\ pc = [e \in Evaluators |-> "exited"]
  /\ config = [e \in Evaluators |-> CHOOSE c \in Configs : TRUE]  \* of no command yet
  /\ records = [e \in Evaluators |-> <<>>]
  /\ exit = [e \in Evaluators |-> "none"]
  /\ executed = 0
  /\ runs = 0
  /\ faults = 0

Start(e) ==
  /\ pc[e] = "exited"
  /\ runs < MaxRuns
  /\ runs' = runs + 1
  /\ \E c \in Configs : config' = [config EXCEPT ![e] = c]
  /\ pc' = [pc EXCEPT ![e] = "load"]
  /\ exit' = [exit EXCEPT ![e] = "none"]
  /\ UNCHANGED <<checkpoint, report, records, executed, faults>>

Load_StartsOver(e) ==
  /\ pc[e] = "load"
  /\ records' = [records EXCEPT ![e] =
       IF checkpoint # NoFile /\ checkpoint.identity = Identity(config[e])
       THEN checkpoint.records ELSE <<>>]
  /\ pc' = [pc EXCEPT ![e] = "score"]
  /\ UNCHANGED <<checkpoint, report, config, exit, executed, runs, faults>>

Load_AnyIdentity(e) ==
  /\ pc[e] = "load"
  /\ records' = [records EXCEPT ![e] = IF checkpoint = NoFile THEN <<>> ELSE checkpoint.records]
  /\ pc' = [pc EXCEPT ![e] = "score"]
  /\ UNCHANGED <<checkpoint, report, config, exit, executed, runs, faults>>

Load_RequiresAllItems(e) ==
  /\ pc[e] = "load"
  /\ IF checkpoint = NoFile
     THEN pc' = [pc EXCEPT ![e] = "score"] /\ UNCHANGED <<records, exit>>
     ELSE IF checkpoint.identity = Identity(config[e])
             /\ Len(checkpoint.records) = Len(config[e].selected)
     THEN /\ records' = [records EXCEPT ![e] = checkpoint.records]
          /\ pc' = [pc EXCEPT ![e] = "score"]
          /\ UNCHANGED exit
     ELSE Leave(e, "1")
  /\ UNCHANGED <<checkpoint, report, config, executed, runs, faults>>

\* _load_checkpoint: fail closed on a foreign identity or a repeated item.
Load(e) ==
  /\ pc[e] = "load"
  /\ IF checkpoint = NoFile
     THEN pc' = [pc EXCEPT ![e] = "score"] /\ UNCHANGED <<records, exit>>
     ELSE IF checkpoint.identity = Identity(config[e])
             /\ Cardinality(ItemsOf(checkpoint.records)) = Len(checkpoint.records)
     THEN /\ records' = [records EXCEPT ![e] = checkpoint.records]
          /\ pc' = [pc EXCEPT ![e] = "score"]
          /\ UNCHANGED exit
     ELSE Leave(e, "1")
  /\ UNCHANGED <<checkpoint, report, config, executed, runs, faults>>

Execute_SavesAtEnd(e) ==
  /\ pc[e] = "score"
  /\ Missing(e) # {}
  /\ \E g \in BOOLEAN :
       records' = [records EXCEPT ![e] =
                     Append(@, [item |-> NextItem(e), by |-> config[e], good |-> g])]
  /\ pc' = [pc EXCEPT ![e] = IF Cardinality(Missing(e)) = 1 THEN "save" ELSE "score"]
  /\ executed' = executed + 1
  /\ UNCHANGED <<checkpoint, report, config, exit, runs, faults>>

\* The next missing item is executed and scored.
Execute(e) ==
  /\ pc[e] = "score"
  /\ Missing(e) # {}
  /\ \E g \in BOOLEAN :
       records' = [records EXCEPT ![e] =
                     Append(@, [item |-> NextItem(e), by |-> config[e], good |-> g])]
  /\ pc' = [pc EXCEPT ![e] = "save"]
  /\ executed' = executed + 1
  /\ UNCHANGED <<checkpoint, report, config, exit, runs, faults>>

\* The query, its scoring or the semantic judge raises.
ExecuteFails(e) ==
  /\ pc[e] = "score"
  /\ Missing(e) # {}
  /\ faults < MaxFaults
  /\ faults' = faults + 1
  /\ executed' = executed + 1
  /\ pc' = [pc EXCEPT ![e] = "abort"]
  /\ UNCHANGED <<checkpoint, report, config, records, exit, runs>>

Save(e) ==
  /\ pc[e] = "save"
  /\ checkpoint' = Saved(e)
  /\ pc' = [pc EXCEPT ![e] = "score"]
  /\ UNCHANGED <<report, config, records, exit, executed, runs, faults>>

Abort(e) ==
  /\ pc[e] = "abort"
  /\ checkpoint' = Saved(e)
  /\ Leave(e, "1")
  /\ UNCHANGED <<report, config, executed, runs, faults>>

\* All items are done: the count is checked, the gates judge a complete
\* dataset only, and a partial diagnostic exits with 0.
Report(e) ==
  /\ pc[e] = "score"
  /\ Missing(e) = {}
  /\ IF Len(records[e]) # Len(config[e].selected)
     THEN Leave(e, "1") /\ UNCHANGED report
     ELSE LET verdict == IF ~Complete(e) THEN "not evaluated"
                         ELSE IF GatesPass(records[e]) THEN "pass" ELSE "fail"
          IN  /\ report' = [identity |-> Identity(config[e]), records |-> records[e],
                            verdict |-> verdict]
              /\ Leave(e, IF verdict = "fail" THEN "2" ELSE "0")
  /\ UNCHANGED <<checkpoint, config, executed, runs, faults>>

Kill(e) ==
  /\ pc[e] \in Steps
  /\ faults < MaxFaults
  /\ faults' = faults + 1
  /\ Leave(e, "killed")
  /\ UNCHANGED <<checkpoint, report, config, executed, runs>>

Advance(e) == Load(e) \/ Execute(e) \/ Save(e) \/ Abort(e) \/ Report(e)

Next == \E e \in Evaluators : Start(e) \/ Advance(e) \/ ExecuteFails(e) \/ Kill(e)

Spec == Init /\ [][Next]_vars

\* A running command proceeds, and one that did not reach a verdict is started
\* again (within the bounds).
Judged == \E e \in Evaluators : exit[e] \in {"0", "2"}

FairSpec ==
  /\ Spec
  /\ \A e \in Evaluators : WF_vars(Advance(e)) /\ WF_vars(~Judged /\ Start(e))

(***************************************************************************)
(* Properties                                                              *)
(***************************************************************************)
\* Every variable has its type; an evaluator never holds more records than items.
TypeOK ==
  /\ checkpoint = NoFile \/ checkpoint \in Files
  /\ report = NoFile \/
       /\ [identity |-> report.identity, records |-> report.records] \in Files
       /\ report.verdict \in {"not evaluated", "pass", "fail"}
  /\ pc \in [Evaluators -> Steps \cup {"exited"}]
  /\ config \in [Evaluators -> Configs]
  /\ records \in [Evaluators -> Seq(Records)]
  /\ \A e \in Evaluators : Len(records[e]) <= Len(config[e].selected)
  /\ exit \in [Evaluators -> Statuses]
  /\ executed \in Nat /\ runs \in 0..MaxRuns /\ faults \in 0..MaxFaults

\* The file holds records of one run: each of a selected item, no item twice,
\* and all made under the identity in the header.
OneRun(file) ==
  /\ \A n \in DOMAIN file.records : Identity(file.records[n].by) = file.identity
  /\ ItemsOf(file.records) \subseteq {file.identity.selected[n] : n \in DOMAIN file.identity.selected}
  /\ Cardinality(ItemsOf(file.records)) = Len(file.records)

\* Whatever is resumed, killed or run beside it, a checkpoint holds records of
\* one run, so that it never blocks its own resume, and a report has one record
\* for each selected item (evaluate_e2e.py:172-201, 567-582).
ArtifactsAreOneRun ==
  /\ checkpoint # NoFile => OneRun(checkpoint)
  /\ report # NoFile => OneRun(report) /\ Len(report.records) = Len(report.identity.selected)

\* At most one evaluator has started a command.
Lone == Cardinality({e \in Evaluators : pc[e] # "exited" \/ exit[e] # "none"}) <= 1

\* A lone evaluator never loses a checkpointed record, nor overwrites the
\* checkpoint of another run: a foreign checkpoint fails closed.
CheckpointOnlyGrows ==
  [][Lone' /\ checkpoint # NoFile =>
       /\ checkpoint'.identity = checkpoint.identity
       /\ IsPrefix(checkpoint.records, checkpoint'.records)]_vars

\* A lone evaluator pays for an item again only if the process was killed, or
\* the execution failed, before its record was saved.
UnsavedWorkIsOneItem ==
  LET unsaved == IF \E e \in Evaluators : pc[e] = "save" THEN 1 ELSE 0
      saved   == IF checkpoint = NoFile THEN 0 ELSE Len(checkpoint.records)
  IN  Lone => executed <= saved + unsaved + faults

\* "Deterministic quality gates remain the only source of exit code `0` or `2`"
\* (docs/OPERATIONS.md:147): such an exit status comes with their verdict.
GatesAreOnlySourceOfExit ==
  \A e \in Evaluators :
    exit[e] \in {"0", "2"} => report # NoFile /\ report.verdict \in {"pass", "fail"}

\* Running the command again with the same options ends in a verdict.
ResumeConverges == <>Judged
=============================================================================
