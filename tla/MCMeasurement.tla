---------------------------- MODULE MCMeasurement ----------------------------
(***************************************************************************)
(* The computations of the evaluation that share no state: does an answer  *)
(* state a fact (FactMatching), do the records of a run pass the gates     *)
(* (QualityGates), and which profile does the calibration release          *)
(* (ProfileSelection).  A behaviour is one of the three; the others stay   *)
(* put.                                                                    *)
(***************************************************************************)
EXTENDS FactMatching, QualityGates, ProfileSelection

CONSTANTS wire, wired, unit, not, only, don, t, short

\* Words with an inflection, a negation, an exception to it and a split one.
Words         == {wire, wired, unit, not, only, don, t}
MCInflections == {<<wire, wired>>}
MCExceptions  == {<<not, only>>}
MCSplit       == {<<don, t>>}
Clauses(n)    == UNION {[1..k -> Words] : k \in 0..n}
MCAnswers ==
  {<<c>> : c \in Clauses(4)} \cup {<<c, d>> : c \in Clauses(2), d \in Clauses(2)}
MCFacts ==
  {[type |-> "aliases", aliases |-> <<<<wire, unit>>>>],
   [type |-> "aliases", aliases |-> <<<<wired, wire>>, <<unit>>>>],
   [type |-> "groups", groups |-> <<<<<<wire, unit>>, <<wire>>>>, <<<<unit>>>>>>],
   [type |-> "groups", groups |-> <<<<<<wire>>>>>>],
   [type |-> "identifier", values |-> <<<<wire>>, <<unit, wire>>>>],
   [type |-> "numericUnit", value |-> <<wire>>, unit |-> <<unit>>]}

\* Three answerable items and two others, and gates that some of them may miss.
MCAnswerable  == <<TRUE, FALSE, TRUE, FALSE, TRUE>>
ThreeQuarters == <<3, 4>>
TwoThirds     == <<2, 3>>
Half          == <<1, 2>>

\* Two profiles whose names are not in the order of their parameters, three rows
\* and three folds; a search that finds every row, one that misses a row and one
\* that gives too much; two contents with these rows, and one that lacks a row.
Outcome(rank, places, wrong, wrongFirst) ==
  [rank |-> rank, places |-> places, wrong |-> wrong, wrongFirst |-> wrongFirst]
MCOutcomes ==
  {Outcome(0, 1, 1, TRUE), Outcome(1, 2, 0, FALSE), Outcome(2, 2, 1, FALSE)}
Pool(found, size) == [found |-> found, size |-> size]
MCPools ==
  {<<Pool(TRUE, 2), Pool(TRUE, 1), Pool(TRUE, 2)>>,
   <<Pool(TRUE, 2), Pool(FALSE, 1), Pool(TRUE, 2)>>,
   <<Pool(TRUE, 2), Pool(TRUE, 1), Pool(TRUE, 3)>>}
MCRowsOf   == [c \in Contents |-> IF c = short THEN {1, 2} ELSE {1, 2, 3}]
MCNameRank == <<2, 1>>
MCFolds    == <<{1}, {2}, {3}>>
Third      == <<1, 3>>

MatchIdle ==
  /\ fact = [type |-> "none"] /\ answer = <<>> /\ clause = 0
  /\ traces = <<>> /\ decision = "idle"

GateIdle ==
  /\ judging = FALSE /\ records = <<>> /\ pending = NoRecord
  /\ metrics = 0 /\ failures = 0 /\ verdict = "idle"

SelectionIdle ==
  /\ calibration = NoContent /\ searching = NoContent /\ snapshot = NoSnapshot
  /\ stage = "off" /\ read = NoContent /\ scored = NoSnapshot /\ pool = <<>> /\ table = <<>>
  /\ winners = <<>> /\ choice = Unreleased /\ report = Unreleased

Init ==
  \/ MatchInit /\ GateIdle /\ SelectionIdle
  \/ GateInit /\ MatchIdle /\ SelectionIdle
  \/ SelectionInit /\ MatchIdle /\ GateIdle

Next ==
  \/ decision # "idle" /\ MatchNext /\ UNCHANGED <<gateVars, selectionVars>>
  \/ verdict # "idle" /\ GateNext /\ UNCHANGED <<matchVars, selectionVars>>
  \/ stage # "off" /\ SelectionNext /\ UNCHANGED <<matchVars, gateVars>>

Spec == Init /\ [][Next]_<<matchVars, gateVars, selectionVars>>
=============================================================================
