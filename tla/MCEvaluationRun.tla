--------------------------- MODULE MCEvaluationRun ---------------------------
(***************************************************************************)
(* Small instances of EvaluationRun: a dataset of three items, of which    *)
(* --max-queries may select two and --item-id the last.                    *)
(***************************************************************************)
EXTENDS EvaluationRun, TLC

CONSTANTS i1, i2, i3

MCDataset    == <<i1, i2, i3>>
MCSelections == {MCDataset, <<i1, i2>>, <<i3>>}
FullOnly     == {MCDataset}
Symmetry     == Permutations(Evaluators)
=============================================================================
