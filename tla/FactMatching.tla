---------------------------- MODULE FactMatching ----------------------------
(***************************************************************************)
(* The deterministic evaluator of an answer (evaluation/e2e.py): does the  *)
(* answer state one reviewed fact?  A text fact is looked for clause by    *)
(* clause, by aliases whose words may be in any order or by groups of      *)
(* alternatives, up to inflection; a clause that denies it does not count. *)
(* An identifier, or a number with its unit, is looked for as it stands.   *)
(*                                                                         *)
(* A clause is a sequence of words, an answer a sequence of clauses.       *)
(***************************************************************************)
EXTENDS Naturals, Sequences, SequencesExt, FiniteSets

CONSTANTS
  Inflections,     \* pairs of words that differ by an inflection suffix
  Negations,       \* words that negate
  SplitNegations,  \* pairs of adjacent words that negate ("don t")
  Exceptions,      \* pairs of adjacent words of which the first does not ("not only")
  NegationWindow,  \* a negation reaches the words at most so far behind it
  Facts, Answers   \* reviewed facts, and answers of the model

IsSequence(s) == s \in Seq(ToSet(s))

\* A sequence of sequences of words.
AreTexts(s) == IsSequence(s) /\ \A k \in DOMAIN s : IsSequence(s[k])

ASSUME MatchingAssumption ==
  /\ NegationWindow \in Nat
  /\ \A pair \in SplitNegations \cup Exceptions : DOMAIN pair = 1..2
  /\ \A a \in Answers : AreTexts(a)
  /\ \A f \in Facts :
       CASE f.type = "aliases"     -> f.aliases # <<>> /\ AreTexts(f.aliases)
         [] f.type = "groups"      -> /\ f.groups # <<>> /\ IsSequence(f.groups)
                                      /\ \A g \in DOMAIN f.groups : AreTexts(f.groups[g])
         [] f.type = "identifier"  -> f.values # <<>>
         [] f.type = "numericUnit" -> f.value # <<>> /\ f.unit # <<>>

VARIABLES
  fact, answer,
  clause,  \* clauses looked at
  traces,  \* [starts, polarity] of each clause that mentions the fact
  decision  \* "open", "matched" or "missed"

matchVars == <<fact, answer, clause, traces, decision>>

NoTrace == [starts |-> {}, polarity |-> "not applicable"]

(***************************************************************************)
(* Words                                                                   *)
(***************************************************************************)
\* _lexical_equivalence
Same(w, v) == w = v \/ <<w, v>> \in Inflections \/ <<v, w>> \in Inflections

Occurs(words, expected, i, same(_, _)) ==
  /\ i + Len(expected) - 1 <= Len(words)
  /\ \A k \in DOMAIN expected : same(words[i + k - 1], expected[k])

Occurrences(words, expected, same(_, _)) ==
  {i \in DOMAIN words : expected # <<>> /\ Occurs(words, expected, i, same)}

Least(S) == CHOOSE i \in S : \A k \in S : i <= k

Negates(words, i) ==
  LET pair == IF i < Len(words) THEN <<words[i], words[i + 1]>> ELSE <<words[i]>>
  IN  (words[i] \in Negations /\ pair \notin Exceptions) \/ pair \in SplitNegations

\* _negation_positions
NegationPositions(words) == {i \in DOMAIN words : Negates(words, i)}

\* A negation denies the words it stands before, within its window.
Denies(p, start) == p <= start /\ start - p <= NegationWindow

(***************************************************************************)
(* A text fact in one clause                                               *)
(***************************************************************************)
Polarity_DoublesCancel(words, starts) ==
  LET relevant == {p \in NegationPositions(words) : \E s \in starts : Denies(p, s)}
  IN  IF Cardinality(relevant) > 1 THEN "positive"
      ELSE IF relevant # {} THEN "negative" ELSE "positive"

Polarity(words, starts) ==
  LET relevant == {p \in NegationPositions(words) : \E s \in starts : Denies(p, s)}
  IN  IF Cardinality(relevant) > 1 THEN "ambiguous"
      ELSE IF relevant # {} THEN "negative" ELSE "positive"

Trace(words, starts) == [starts |-> starts, polarity |-> Polarity(words, starts)]

\* _unordered_token_match: each word of the alias takes the first word of the
\* clause that is the same and not yet taken; 0 when there is none.
Taken(words, alias) ==
  LET place[k \in DOMAIN alias] ==
        LET free == {i \in DOMAIN words : /\ Same(words[i], alias[k])
                                         /\ \A j \in 1..(k - 1) : place[j] # i}
        IN  IF free = {} THEN 0 ELSE Least(free)
  IN  place

Found(words, alias) == alias # <<>> /\ 0 \notin Range(Taken(words, alias))

AliasTrace_FirstOnly(words, aliases) ==
  IF Found(words, aliases[1]) THEN Trace(words, Range(Taken(words, aliases[1]))) ELSE NoTrace

\* The first alias that is found.
AliasTrace(words, aliases) ==
  LET found == {k \in DOMAIN aliases : Found(words, aliases[k])}
  IN  IF found = {} THEN NoTrace ELSE Trace(words, Range(Taken(words, aliases[Least(found)])))

\* _first_alternative_match: where the first alternative that occurs occurs first.
GroupStart(words, group) ==
  LET found == {k \in DOMAIN group : Occurrences(words, group[k], Same) # {}}
  IN  IF found = {} THEN 0 ELSE Least(Occurrences(words, group[Least(found)], Same))

GroupsTrace(words, groups) ==
  LET starts == {GroupStart(words, groups[k]) : k \in DOMAIN groups}
  IN  IF 0 \in starts THEN NoTrace ELSE Trace(words, starts)

ClauseTrace(words) ==
  IF words = <<>> THEN NoTrace
  ELSE IF fact.type = "groups" THEN GroupsTrace(words, fact.groups)
  ELSE AliasTrace(words, fact.aliases)

(***************************************************************************)
(* Identifiers and numbers, anywhere and whatever stands around them       *)
(***************************************************************************)
Exactly(w, v) == w = v

\* _identifier_matches, _numeric_unit_matches
LiteralMatches ==
  \E c \in DOMAIN answer :
    IF fact.type = "identifier"
    THEN \E k \in DOMAIN fact.values : Occurrences(answer[c], fact.values[k], Exactly) # {}
    ELSE Occurrences(answer[c], fact.value \o fact.unit, Exactly) # {}

(***************************************************************************)
(* score_expected_answer_fact                                              *)
(***************************************************************************)
Text == fact.type \in {"aliases", "groups"}

MatchInit ==
  /\ fact \in Facts /\ answer \in Answers
  /\ clause = 0 /\ traces = <<>> /\ decision = "open"

MatchClause ==
  /\ Text /\ clause < Len(answer)
  /\ clause' = clause + 1
  /\ LET trace == ClauseTrace(answer[clause'])
     IN  traces' = IF trace = NoTrace THEN traces ELSE Append(traces, trace)
  /\ UNCHANGED <<fact, answer, decision>>

\* A clause that states the fact outweighs those that deny it.
DecideText ==
  /\ Text /\ clause = Len(answer) /\ decision = "open"
  /\ decision' = IF \E n \in DOMAIN traces : traces[n].polarity = "positive"
                THEN "matched" ELSE "missed"
  /\ UNCHANGED <<fact, answer, clause, traces>>

DecideLiteral ==
  /\ ~Text /\ decision = "open"
  /\ decision' = IF LiteralMatches THEN "matched" ELSE "missed"
  /\ UNCHANGED <<fact, answer, clause, traces>>

MatchNext == MatchClause \/ DecideText \/ DecideLiteral

MatchSpec == MatchInit /\ [][MatchNext]_matchVars

(***************************************************************************)
(* Properties                                                              *)
(***************************************************************************)
Alternatives == IF fact.type = "groups" THEN fact.groups ELSE <<fact.aliases>>

NextTo(words, p) == IF p < Len(words) THEN {<<words[p], words[p + 1]>>} ELSE {}

\* A word that negates stands at p, alone or with the one after it.
NegatedAt(words, p) ==
  \/ words[p] \in Negations /\ NextTo(words, p) \cap Exceptions = {}
  \/ NextTo(words, p) \cap SplitNegations # {}

\* An answer with a sentence free of negations that says the fact word by word is
\* matched, whatever else it says: no word taken for another alias or group, and
\* no denial in another sentence, hides it (e2e.py:515-571).
StatementCounts ==
  /\ decision # "open" /\ Text
  /\ \E c \in DOMAIN answer :
       /\ \A p \in DOMAIN answer[c] : ~NegatedAt(answer[c], p)
       /\ \A g \in DOMAIN Alternatives : \E a \in DOMAIN Alternatives[g] :
            Occurrences(answer[c], Alternatives[g][a], Exactly) # {}
  => decision = "matched"

\* Places that say the fact: a word of the clause for each word of one alias, or
\* the start of an alternative of each group.
Sayings(words) ==
  IF fact.type = "groups"
  THEN {s \in [DOMAIN fact.groups -> DOMAIN words] :
          \A g \in DOMAIN fact.groups : \E a \in DOMAIN fact.groups[g] :
            s[g] \in Occurrences(words, fact.groups[g][a], Same)}
  ELSE UNION {{s \in [DOMAIN fact.aliases[a] -> DOMAIN words] :
                 IsInjective(s) /\ \A k \in DOMAIN s : Same(words[s[k]], fact.aliases[a][k])} :
              a \in DOMAIN fact.aliases}

\* A text fact is matched only if some sentence says it in words of which none is
\* denied: a negation in the words right before them is never overlooked, a split
\* or a double one included, while "not only" is none (e2e.py:627-676).
DenialNeverCounts ==
  decision = "matched" /\ Text =>
    \E c \in DOMAIN answer : \E s \in Sayings(answer[c]) :
      \A k \in DOMAIN s : \A p \in DOMAIN answer[c] :
        NegatedAt(answer[c], p) => s[k] \notin p..(p + NegationWindow)
=============================================================================
