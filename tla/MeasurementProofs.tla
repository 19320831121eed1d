-------------------------- MODULE MeasurementProofs --------------------------
(***************************************************************************)
(* Proofs about the computations of the evaluation: FactMatching (does an  *)
(* answer state a fact), QualityGates (do the records of a run pass) and   *)
(* ProfileSelection (which profile does the calibration release), for      *)
(* every answer and fact, every dataset and gate, and every table of       *)
(* outcomes.                                                               *)
(***************************************************************************)
EXTENDS FactMatching, QualityGates, ProfileSelection, FiniteSetTheorems, TLAPS

\* A nonempty set of numbers has a least element.
LEMMA LeastNumber ==
  ASSUME NEW G \in SUBSET Nat, G # {}
  PROVE  \E i \in G : \A j \in G : i <= j
<1> DEFINE R == {ss \in Nat \X Nat : ss[1] < ss[2]}
<1>1. PICK i \in G : \A j \in G : ~ (<<j, i>> \in R)
  BY NatLessThanWellFounded, WFMin, Zenon DEF OpToRel
<1>2. ASSUME NEW j \in G PROVE i <= j
  <2>1. ~ (<<j, i>> \in R)
    BY <1>1
  <2>2. QED
    BY <2>1
<1> QED BY <1>2

(***************************************************************************)
(* FactMatching: words and places.                                         *)
(***************************************************************************)
LEMMA SequenceIs ==
  ASSUME NEW s, IsSequence(s)
  PROVE  DOMAIN s = 1..Len(s) /\ Len(s) \in Nat /\ (s # <<>> => 1 \in DOMAIN s)
<1>1. s \in Seq(ToSet(s))
  BY DEF IsSequence
<1>2. QED
  BY <1>1

LEMMA LeastIs ==
  ASSUME NEW S \in SUBSET Nat, S # {}
  PROVE  Least(S) \in S /\ \A k \in S : Least(S) <= k
BY LeastNumber DEF Least

\* The places of a word that are not taken.
FreePlaces(words, w, taken) == {i \in DOMAIN words : Same(words[i], w) /\ i \notin taken}

FirstPlace(words, w, taken) ==
  IF FreePlaces(words, w, taken) = {} THEN 0 ELSE Least(FreePlaces(words, w, taken))

\* g is where the first n words of the alias are found.
IsPlacing(g, words, alias, n) ==
  g = [k \in 1..n |-> FirstPlace(words, alias[k], {g[j] : j \in 1..(k - 1)})]

LEMMA PlacingExists ==
  ASSUME NEW words, NEW alias, IsSequence(alias), NEW n \in 0..Len(alias)
  PROVE  \E g : IsPlacing(g, words, alias, n)
<1> DEFINE bad == {m \in 0..Len(alias) : ~\E g : IsPlacing(g, words, alias, m)}
<1>1. ASSUME bad # {} PROVE FALSE
  <2>1. PICK m \in bad : \A j \in bad : m <= j
    <3>1. bad \in SUBSET Nat
      OBVIOUS
    <3> HIDE DEF bad
    <3>2. QED
      BY <1>1, <3>1, LeastNumber
  <2>2. m # 0
    <3>1. IsPlacing(<<>>, words, alias, 0)
      BY DEF IsPlacing
    <3>2. QED
      BY <3>1
  <2>3. m \in Nat /\ m - 1 \in 0..Len(alias) /\ m - 1 \notin bad
    BY <2>1, <2>2, SequenceIs
  <2>4. PICK g : IsPlacing(g, words, alias, m - 1)
    BY <2>3
  <2> DEFINE P(k, f) == FirstPlace(words, alias[k], {f[j] : j \in 1..(k - 1)})
             h == [k \in 1..m |-> P(k, g)]
  <2>5. \A k \in 1..(m - 1) : h[k] = g[k]
    <3>1. g = [k \in 1..(m - 1) |-> P(k, g)]
      BY <2>4 DEF IsPlacing
    <3>2. \A k \in 1..(m - 1) : g[k] = P(k, g)
      <4> HIDE DEF P
      <4>1. QED
        BY <3>1
    <3>3. \A k \in 1..(m - 1) : h[k] = P(k, g)
      <4> HIDE DEF P
      <4>1. QED
        BY <2>3
    <3>4. QED
      BY <3>2, <3>3
  <2>6. \A k \in 1..m : P(k, h) = P(k, g)
    <3> SUFFICES ASSUME NEW k \in 1..m PROVE P(k, h) = P(k, g)
      OBVIOUS
    <3>0. \A j \in 1..(k - 1) : j \in 1..(m - 1)
      BY <2>3
    <3> HIDE DEF h
    <3>1. \A j \in 1..(k - 1) : h[j] = g[j]
      BY <3>0, <2>5
    <3>2. {h[j] : j \in 1..(k - 1)} = {g[j] : j \in 1..(k - 1)}
      BY <3>1
    <3>3. QED
      BY <3>2
  <2>7. h = [k \in 1..m |-> P(k, h)]
    <3> HIDE DEF P
    <3>1. QED
      BY <2>6
  <2>8. IsPlacing(h, words, alias, m)
    BY <2>7 DEF IsPlacing
  <2>9. QED
    BY <2>1, <2>8
<1>2. QED
  BY <1>1

\* What _unordered_token_match finds for each word of an alias.
LEMMA TakenIs ==
  ASSUME NEW words, IsSequence(words), NEW alias, IsSequence(alias)
  PROVE  /\ DOMAIN Taken(words, alias) = 1..Len(alias)
         /\ Taken(words, alias) = [k \in 1..Len(alias) |-> Taken(words, alias)[k]]
         /\ \A k \in 1..Len(alias) :
              LET free == {i \in DOMAIN words :
                             /\ Same(words[i], alias[k])
                             /\ \A j \in 1..(k - 1) : Taken(words, alias)[j] # i}
              IN  Taken(words, alias)[k] = IF free = {} THEN 0 ELSE Least(free)
<1> DEFINE Free(f, k) == {i \in DOMAIN words : /\ Same(words[i], alias[k])
                                               /\ \A j \in 1..(k - 1) : f[j] # i}
           P(f, k) == IF Free(f, k) = {} THEN 0 ELSE Least(Free(f, k))
           t == Taken(words, alias)
<1>1. DOMAIN alias = 1..Len(alias) /\ Len(alias) \in 0..Len(alias)
  BY SequenceIs
<1>2. PICK g : IsPlacing(g, words, alias, Len(alias))
  BY <1>1, PlacingExists
<1>3. g = [k \in DOMAIN alias |-> P(g, k)]
  <2>2. ASSUME NEW k PROVE P(g, k) = FirstPlace(words, alias[k], {g[j] : j \in 1..(k - 1)})
    <3>1. Free(g, k) = FreePlaces(words, alias[k], {g[j] : j \in 1..(k - 1)})
      BY DEF FreePlaces
    <3> HIDE DEF Free
    <3>2. QED
      BY <3>1 DEF FirstPlace
  <2> HIDE DEF P
  <2>3. QED
    BY <1>1, <1>2, <2>2 DEF IsPlacing
<1>4. t = CHOOSE f : f = [k \in DOMAIN alias |-> P(f, k)]
  BY DEF Taken
<1>5. t = [k \in DOMAIN alias |-> P(t, k)]
  <2> HIDE DEF t, P
  <2>1. QED
    BY <1>3, <1>4
<1> HIDE DEF t, P
<1>6. /\ DOMAIN t = 1..Len(alias) /\ t = [k \in 1..Len(alias) |-> t[k]]
      /\ \A k \in 1..Len(alias) : t[k] = P(t, k)
  BY <1>1, <1>5
<1>7. QED
  BY <1>6 DEF t, P

\* Each word has the first place that is left for it, or none is.
LEMMA TakenPlaces ==
  ASSUME NEW words, IsSequence(words), NEW alias, IsSequence(alias), NEW k \in 1..Len(alias)
  PROVE  LET t == Taken(words, alias)
             Free(i) == Same(words[i], alias[k]) /\ \A j \in 1..(k - 1) : t[j] # i
         IN  \/ t[k] = 0 /\ \A i \in DOMAIN words : ~Free(i)
             \/ /\ t[k] \in DOMAIN words /\ Free(t[k])
                /\ \A i \in DOMAIN words : Free(i) => t[k] <= i
<1> DEFINE t == Taken(words, alias)
           Free(i) == Same(words[i], alias[k]) /\ \A j \in 1..(k - 1) : t[j] # i
           free == {i \in DOMAIN words : Free(i)}
<1>1. t[k] = IF free = {} THEN 0 ELSE Least(free)
  BY TakenIs
<1>2. free \in SUBSET Nat
  BY SequenceIs
<1>3. CASE free = {}
  <2>1. t[k] = 0 /\ \A i \in DOMAIN words : ~Free(i)
    BY <1>1, <1>3
  <2>2. QED
    BY <2>1
<1>4. CASE free # {}
  <2>1. t[k] = Least(free)
    BY <1>1, <1>4
  <2>2. Least(free) \in free /\ \A i \in free : Least(free) <= i
    <3> HIDE DEF free
    <3>1. QED
      BY <1>2, <1>4, LeastIs
  <2>3. t[k] \in free /\ \A i \in free : t[k] <= i
    BY <2>1, <2>2
  <2>4. QED
    BY <2>3
<1>5. QED
  BY <1>3, <1>4

LEMMA OccursExactly ==
  ASSUME NEW words, NEW expected, NEW i
  PROVE  i \in Occurrences(words, expected, Exactly) <=>
           /\ i \in DOMAIN words /\ expected # <<>>
           /\ i + Len(expected) - 1 <= Len(words)
           /\ \A k \in DOMAIN expected : words[i + k - 1] = expected[k]
BY DEF Occurrences, Occurs, Exactly

LEMMA OccursSame ==
  ASSUME NEW words, NEW expected, NEW i
  PROVE  i \in Occurrences(words, expected, Same) <=>
           /\ i \in DOMAIN words /\ expected # <<>>
           /\ i + Len(expected) - 1 <= Len(words)
           /\ \A k \in DOMAIN expected : Same(words[i + k - 1], expected[k])
BY DEF Occurrences, Occurs

\* Words that stand in a clause one after the other are found, whatever else
\* stands in front of them: each has a place no later than where it stands.
LEMMA AliasOccurs ==
  ASSUME NEW words, IsSequence(words), NEW alias, IsSequence(alias),
         NEW i \in Occurrences(words, alias, Exactly)
  PROVE  Found(words, alias)
<1> DEFINE t == Taken(words, alias)
           Fits(k) == t[k] # 0 /\ t[k] <= i + k - 1
           bad == {k \in 1..Len(alias) : ~Fits(k)}
<1>1. /\ i \in 1..Len(words) /\ Len(words) \in Nat /\ Len(alias) \in Nat
      /\ DOMAIN words = 1..Len(words) /\ DOMAIN alias = 1..Len(alias)
      /\ i + Len(alias) - 1 <= Len(words) /\ alias # <<>>
      /\ \A k \in 1..Len(alias) : words[i + k - 1] = alias[k]
  BY OccursExactly, SequenceIs
<1>2. ASSUME bad # {} PROVE FALSE
  <2>1. bad \in SUBSET Nat
    BY <1>1
  <2>2. PICK k \in bad : \A j \in bad : k <= j
    <3> HIDE DEF bad
    <3>1. QED
      BY <1>2, <2>1, LeastNumber
  <2>3. k \in 1..Len(alias) /\ ~Fits(k)
    BY <2>2
  <2>4. \A j \in 1..(k - 1) : Fits(j)
    <3> SUFFICES ASSUME NEW j \in 1..(k - 1), ~Fits(j) PROVE FALSE
      OBVIOUS
    <3>1. j \in 1..Len(alias)
      BY <2>3, <1>1
    <3>2. j \in bad
      BY <3>1
    <3>3. QED
      BY <2>2, <3>2, <2>3, <1>1
  <2>5. i + k - 1 \in DOMAIN words /\ Same(words[i + k - 1], alias[k])
    BY <1>1, <2>3 DEF Same
  <2>6. \A j \in 1..(k - 1) : t[j] # i + k - 1
    <3> SUFFICES ASSUME NEW j \in 1..(k - 1) PROVE t[j] # i + k - 1
      OBVIOUS
    <3>1. t[j] <= i + j - 1
      BY <2>4
    <3>2. i \in Nat /\ j \in Nat /\ k \in Nat /\ j < k
      BY <1>1, <2>3
    <3> HIDE DEF t
    <3>3. QED
      BY <3>1, <3>2
  <2>7. t[k] # 0 /\ t[k] <= i + k - 1
    <3> DEFINE Free(n) == Same(words[n], alias[k]) /\ \A j \in 1..(k - 1) : t[j] # n
    <3>1. \/ t[k] = 0 /\ \A n \in DOMAIN words : ~Free(n)
          \/ t[k] \in DOMAIN words /\ \A n \in DOMAIN words : Free(n) => t[k] <= n
      BY <2>3, TakenPlaces
    <3>2. Free(i + k - 1)
      BY <2>5, <2>6
    <3>3. t[k] \in DOMAIN words /\ t[k] <= i + k - 1
      <4> HIDE DEF Free, t
      <4>1. QED
        BY <3>1, <3>2, <2>5
    <3>4. QED
      BY <3>3, <1>1
  <2>8. QED
    BY <2>3, <2>7
<1>3. \A k \in 1..Len(alias) : t[k] # 0
  BY <1>2
<1>4. DOMAIN t = 1..Len(alias)
  BY TakenIs
<1>5. 0 \notin Range(t)
  <2> HIDE DEF t
  <2>1. QED
    BY <1>3, <1>4 DEF Range
<1>6. QED
  BY <1>1, <1>5 DEF Found

\* Where an alias is found: at one place of the clause for each of its words.
LEMMA FoundPlaces ==
  ASSUME NEW words, IsSequence(words), NEW alias, IsSequence(alias), Found(words, alias)
  PROVE  LET t == Taken(words, alias)
         IN  /\ t \in [DOMAIN alias -> DOMAIN words] /\ IsInjective(t)
             /\ \A k \in DOMAIN t : Same(words[t[k]], alias[k])
<1> DEFINE t == Taken(words, alias)
           Free(k, i) == Same(words[i], alias[k]) /\ \A j \in 1..(k - 1) : t[j] # i
<1>1. /\ DOMAIN alias = 1..Len(alias) /\ Len(alias) \in Nat
      /\ DOMAIN t = 1..Len(alias)
  BY SequenceIs, TakenIs
<1>2. \A k \in 1..Len(alias) : t[k] # 0
  <2>1. 0 \notin Range(t)
    BY DEF Found
  <2> HIDE DEF t
  <2>2. QED
    BY <1>1, <2>1 DEF Range
<1>3. ASSUME NEW k \in 1..Len(alias) PROVE t[k] \in DOMAIN words /\ Free(k, t[k])
  <2>1. t[k] # 0
    BY <1>2
  <2>2. \/ t[k] = 0 /\ \A i \in DOMAIN words : ~Free(k, i)
        \/ t[k] \in DOMAIN words /\ Free(k, t[k])
    BY TakenPlaces
  <2>3. QED
    BY <2>1, <2>2
<1>4. t \in [DOMAIN alias -> DOMAIN words]
  <2>1. t = [k \in DOMAIN alias |-> t[k]]
    BY <1>1, TakenIs
  <2> HIDE DEF t
  <2>2. QED
    BY <1>1, <1>3, <2>1
<1>5. IsInjective(t)
  <2> SUFFICES ASSUME NEW j \in 1..Len(alias), NEW k \in 1..Len(alias), j < k PROVE t[j] # t[k]
    <3> HIDE DEF t
    <3>1. QED
      BY <1>1 DEF IsInjective
  <2>1. j \in 1..(k - 1)
    BY <1>1
  <2>2. QED
    BY <2>1, <1>3
<1>6. QED
  BY <1>1, <1>3, <1>4, <1>5

(***************************************************************************)
(* Negations, and the trace of a clause.                                   *)
(***************************************************************************)
LEMMA NegatedIs ==
  ASSUME NEW words, IsSequence(words), NEW p \in DOMAIN words
  PROVE  NegatedAt(words, p) <=> p \in NegationPositions(words)
<1>1. /\ DOMAIN words = 1..Len(words) /\ Len(words) \in Nat
      /\ \A pair \in SplitNegations \cup Exceptions : DOMAIN pair = 1..2
  BY SequenceIs, MatchingAssumption
<1>2. <<words[p]>> \notin SplitNegations \cup Exceptions
  <2>1. DOMAIN <<words[p]>> # 1..2
    OBVIOUS
  <2>2. QED
    BY <1>1, <2>1
<1>3. QED
  BY <1>2 DEF NegatedAt, NextTo, NegationPositions, Negates

\* A clause says the fact when no negation reaches the words that do.
LEMMA PolarityIs ==
  ASSUME NEW words, NEW starts
  PROVE  /\ Polarity(words, starts) \in {"positive", "negative", "ambiguous"}
         /\ Polarity(words, starts) = "positive" <=>
              \A p \in NegationPositions(words) : \A i \in starts : ~Denies(p, i)
<1> DEFINE relevant == {p \in NegationPositions(words) : \E i \in starts : Denies(p, i)}
<1>1. relevant = {} => ~(Cardinality(relevant) > 1)
  BY FS_EmptySet
<1>2. Polarity(words, starts) =
        IF Cardinality(relevant) > 1 THEN "ambiguous"
        ELSE IF relevant # {} THEN "negative" ELSE "positive"
  BY DEF Polarity
<1>3. Polarity(words, starts) \in {"positive", "negative", "ambiguous"}
      /\ (Polarity(words, starts) = "positive" <=> relevant = {})
  <2> HIDE DEF relevant
  <2>1. QED
    BY <1>1, <1>2
<1>4. QED
  BY <1>3

LEMMA TraceIs ==
  ASSUME NEW words, NEW starts
  PROVE  /\ Trace(words, starts) # NoTrace
         /\ Trace(words, starts).starts = starts
         /\ Trace(words, starts).polarity = Polarity(words, starts)
BY PolarityIs DEF Trace, NoTrace

\* Places that say the fact, none of which is denied.
Stated(words) ==
  \E s \in Sayings(words) :
    \A k \in DOMAIN s : \A p \in DOMAIN words :
      NegatedAt(words, p) => s[k] \notin p..(p + NegationWindow)

\* What the words of a clause say when its trace is positive.
LEMMA UndeniedPlaces ==
  ASSUME NEW words, IsSequence(words), NEW starts,
         Polarity(words, starts) = "positive",
         NEW s \in Sayings(words),
         \A k \in DOMAIN s : s[k] \in starts /\ s[k] \in DOMAIN words
  PROVE  Stated(words)
<1>1. /\ NegationWindow \in Nat /\ DOMAIN words = 1..Len(words) /\ Len(words) \in Nat
  BY SequenceIs, MatchingAssumption
<1>2. ASSUME NEW k \in DOMAIN s, NEW p \in DOMAIN words, NegatedAt(words, p)
      PROVE  s[k] \notin p..(p + NegationWindow)
  <2>1. p \in NegationPositions(words)
    BY <1>2, NegatedIs
  <2>2. ~Denies(p, s[k])
    BY <2>1, PolarityIs
  <2>3. p \in Nat /\ s[k] \in Nat
    BY <1>1
  <2>4. QED
    BY <2>2, <2>3, <1>1 DEF Denies
<1>3. QED
  BY <1>2 DEF Stated

LEMMA TextFactIs ==
  ASSUME fact \in Facts
  PROVE  /\ fact.type = "aliases" => fact.aliases # <<>> /\ AreTexts(fact.aliases)
         /\ fact.type = "groups" => /\ fact.groups # <<>> /\ IsSequence(fact.groups)
                                    /\ \A g \in DOMAIN fact.groups : AreTexts(fact.groups[g])
BY MatchingAssumption

\* The first of some places of a text.
LEMMA FirstOf ==
  ASSUME NEW s, IsSequence(s), NEW S \in SUBSET DOMAIN s, S # {}
  PROVE  Least(S) \in S /\ Least(S) \in DOMAIN s
<1>1. S \in SUBSET Nat
  BY SequenceIs
<1>2. QED
  BY <1>1, LeastIs

\* The trace by aliases: where the first alias that is found is found.
LEMMA AliasTraceIs ==
  ASSUME NEW words, IsSequence(words), NEW aliases, AreTexts(aliases)
  PROVE  \/ /\ AliasTrace(words, aliases) = NoTrace
            /\ \A k \in DOMAIN aliases : ~Found(words, aliases[k])
         \/ \E k \in DOMAIN aliases :
              /\ Found(words, aliases[k])
              /\ AliasTrace(words, aliases) = Trace(words, Range(Taken(words, aliases[k])))
<1> DEFINE found == {k \in DOMAIN aliases : Found(words, aliases[k])}
<1>1. AliasTrace(words, aliases) =
        IF found = {} THEN NoTrace ELSE Trace(words, Range(Taken(words, aliases[Least(found)])))
  BY DEF AliasTrace
<1>2. CASE found = {}
  BY <1>1, <1>2
<1>3. CASE found # {}
  <2>1. found \in SUBSET DOMAIN aliases /\ IsSequence(aliases)
    BY DEF AreTexts
  <2>2. Least(found) \in found
    <3> HIDE DEF found
    <3>1. QED
      BY <1>3, <2>1, FirstOf
  <2>3. /\ Least(found) \in DOMAIN aliases /\ Found(words, aliases[Least(found)])
    BY <2>2
  <2>4. AliasTrace(words, aliases) = Trace(words, Range(Taken(words, aliases[Least(found)])))
    BY <1>1, <1>3
  <2> HIDE DEF found
  <2>5. QED
    BY <2>3, <2>4
<1>4. QED
  BY <1>2, <1>3

LEMMA GroupStartIs ==
  ASSUME NEW words, IsSequence(words), NEW group, AreTexts(group)
  PROVE  \/ /\ GroupStart(words, group) = 0
            /\ \A k \in DOMAIN group : Occurrences(words, group[k], Same) = {}
         \/ /\ GroupStart(words, group) \in DOMAIN words
            /\ \E k \in DOMAIN group : GroupStart(words, group) \in Occurrences(words, group[k], Same)
<1> DEFINE found == {k \in DOMAIN group : Occurrences(words, group[k], Same) # {}}
<1>1. GroupStart(words, group) =
        IF found = {} THEN 0 ELSE Least(Occurrences(words, group[Least(found)], Same))
  BY DEF GroupStart
<1>2. CASE found = {}
  BY <1>1, <1>2
<1>3. CASE found # {}
  <2>1. found \in SUBSET DOMAIN group /\ IsSequence(group)
    BY DEF AreTexts
  <2>2. Least(found) \in found
    <3> HIDE DEF found
    <3>1. QED
      BY <1>3, <2>1, FirstOf
  <2>3. PICK k \in DOMAIN group : k = Least(found) /\ Occurrences(words, group[k], Same) # {}
    BY <2>2
  <2>4. GroupStart(words, group) = Least(Occurrences(words, group[k], Same))
    <3> HIDE DEF found
    <3>1. QED
      BY <1>1, <1>3, <2>3
  <2>5. Occurrences(words, group[k], Same) \in SUBSET DOMAIN words
    BY DEF Occurrences
  <2>6. Least(Occurrences(words, group[k], Same)) \in Occurrences(words, group[k], Same)
    BY <2>3, <2>5, FirstOf
  <2>7. QED
    BY <2>4, <2>5, <2>6
<1>4. QED
  BY <1>2, <1>3

\* A clause that says the fact word by word is traced.
LEMMA SaidIsTraced ==
  ASSUME fact \in Facts, Text, NEW words, IsSequence(words),
         \A g \in DOMAIN Alternatives : \E a \in DOMAIN Alternatives[g] :
           Occurrences(words, Alternatives[g][a], Exactly) # {}
  PROVE  \E starts : ClauseTrace(words) = Trace(words, starts)
<1>1. CASE fact.type = "aliases"
  <2>1. AreTexts(fact.aliases)
    BY <1>1, TextFactIs
  <2>2. Alternatives = <<fact.aliases>>
    BY <1>1 DEF Alternatives
  <2>3. PICK a \in DOMAIN fact.aliases : Occurrences(words, fact.aliases[a], Exactly) # {}
    <3>1. 1 \in DOMAIN Alternatives /\ Alternatives[1] = fact.aliases
      BY <2>2
    <3>2. QED
      BY <3>1
  <2>4. PICK i : i \in Occurrences(words, fact.aliases[a], Exactly)
    BY <2>3
  <2>5. IsSequence(fact.aliases[a])
    BY <2>1 DEF AreTexts
  <2>6. Found(words, fact.aliases[a])
    BY <2>4, <2>5, AliasOccurs
  <2>7. words # <<>>
    <3>1. i \in DOMAIN words
      BY <2>4, OccursExactly
    <3>2. QED
      BY <3>1
  <2>8. ClauseTrace(words) = AliasTrace(words, fact.aliases)
    BY <1>1, <2>7 DEF ClauseTrace
  <2>9. QED
    BY <2>1, <2>6, <2>8, AliasTraceIs
<1>2. CASE fact.type = "groups"
  <2> DEFINE starts == {GroupStart(words, fact.groups[k]) : k \in DOMAIN fact.groups}
  <2>1. /\ fact.groups # <<>> /\ IsSequence(fact.groups)
        /\ \A g \in DOMAIN fact.groups : AreTexts(fact.groups[g])
    BY <1>2, TextFactIs
  <2>2. Alternatives = fact.groups
    BY <1>2 DEF Alternatives
  <2>3. ASSUME NEW g \in DOMAIN fact.groups
        PROVE  GroupStart(words, fact.groups[g]) # 0 /\ words # <<>>
    <3>1. PICK a \in DOMAIN fact.groups[g], i \in DOMAIN words :
             i \in Occurrences(words, fact.groups[g][a], Exactly)
      BY <2>2, OccursExactly
    <3>2. i \in Occurrences(words, fact.groups[g][a], Same) /\ i \in DOMAIN words
      <4> DEFINE alternative == fact.groups[g][a]
      <4>1. /\ i \in DOMAIN words /\ alternative # <<>>
            /\ i + Len(alternative) - 1 <= Len(words)
            /\ \A k \in DOMAIN alternative : words[i + k - 1] = alternative[k]
        BY <3>1, OccursExactly
      <4> HIDE DEF alternative
      <4>2. \A k \in DOMAIN alternative : Same(words[i + k - 1], alternative[k])
        BY <4>1 DEF Same
      <4>3. i \in Occurrences(words, alternative, Same)
        BY <4>1, <4>2, OccursSame
      <4>4. QED
        BY <4>1, <4>3 DEF alternative
    <3>3. 0 \notin DOMAIN words
      BY SequenceIs
    <3>4. QED
      BY <2>1, <3>2, <3>3, GroupStartIs
  <2>4. words # <<>>
    <3>1. 1 \in DOMAIN fact.groups
      BY <2>1, SequenceIs
    <3>2. QED
      BY <3>1, <2>3
  <2>5. 0 \notin starts
    BY <2>3
  <2>6. ClauseTrace(words) = Trace(words, starts)
    BY <1>2, <2>4, <2>5 DEF ClauseTrace, GroupsTrace
  <2>7. QED
    BY <2>6
<1>3. QED
  BY <1>1, <1>2 DEF Text

\* A clause that is traced as saying the fact says it, undenied.
LEMMA PositiveIsStated ==
  ASSUME fact \in Facts, Text, NEW words, IsSequence(words),
         ClauseTrace(words).polarity = "positive"
  PROVE  Stated(words)
<1>1. ClauseTrace(words) # NoTrace
  <2>1. NoTrace.polarity # "positive"
    BY DEF NoTrace
  <2>2. QED
    BY <2>1
<1>2. words # <<>>
  BY <1>1 DEF ClauseTrace
<1>3. CASE fact.type = "aliases"
  <2>1. AreTexts(fact.aliases) /\ ClauseTrace(words) = AliasTrace(words, fact.aliases)
    BY <1>2, <1>3, TextFactIs DEF ClauseTrace
  <2>2. PICK a \in DOMAIN fact.aliases :
          /\ Found(words, fact.aliases[a])
          /\ ClauseTrace(words) = Trace(words, Range(Taken(words, fact.aliases[a])))
    BY <1>1, <2>1, AliasTraceIs
  <2> DEFINE s == Taken(words, fact.aliases[a])
             starts == Range(s)
  <2>3. Polarity(words, starts) = "positive"
    BY <2>2, TraceIs
  <2>4. IsSequence(fact.aliases[a])
    BY <2>1 DEF AreTexts
  <2>5. /\ s \in [DOMAIN fact.aliases[a] -> DOMAIN words] /\ IsInjective(s)
        /\ \A k \in DOMAIN s : Same(words[s[k]], fact.aliases[a][k])
    BY <2>2, <2>4, FoundPlaces
  <2> HIDE DEF s
  <2>6. s \in Sayings(words)
    BY <1>3, <2>5 DEF Sayings
  <2>7. \A k \in DOMAIN s : s[k] \in starts /\ s[k] \in DOMAIN words
    BY <2>5 DEF Range
  <2> HIDE DEF starts
  <2>8. QED
    BY <2>3, <2>6, <2>7, UndeniedPlaces
<1>4. CASE fact.type = "groups"
  <2> DEFINE s == [g \in DOMAIN fact.groups |-> GroupStart(words, fact.groups[g])]
             starts == {GroupStart(words, fact.groups[k]) : k \in DOMAIN fact.groups}
  <2>1. \A g \in DOMAIN fact.groups : AreTexts(fact.groups[g])
    BY <1>4, TextFactIs
  <2>2. 0 \notin starts /\ ClauseTrace(words) = Trace(words, starts)
    BY <1>1, <1>2, <1>4 DEF ClauseTrace, GroupsTrace
  <2>3. Polarity(words, starts) = "positive"
    <3> HIDE DEF starts
    <3>1. QED
      BY <2>2, TraceIs
  <2>4. ASSUME NEW g \in DOMAIN fact.groups
        PROVE  /\ s[g] \in DOMAIN words
               /\ \E a \in DOMAIN fact.groups[g] :
                    s[g] \in Occurrences(words, fact.groups[g][a], Same)
    <3>1. s[g] = GroupStart(words, fact.groups[g]) /\ GroupStart(words, fact.groups[g]) # 0
      BY <2>2
    <3>2. QED
      BY <2>1, <3>1, GroupStartIs
  <2>5. DOMAIN s = DOMAIN fact.groups /\ s \in [DOMAIN fact.groups -> DOMAIN words]
    BY <2>4
  <2>6. \A k \in DOMAIN s : s[k] \in starts
    OBVIOUS
  <2> HIDE DEF s, starts
  <2>7. s \in Sayings(words)
    BY <1>4, <2>4, <2>5 DEF Sayings
  <2>8. QED
    BY <2>3, <2>4, <2>5, <2>6, <2>7, UndeniedPlaces
<1>5. QED
  BY <1>3, <1>4 DEF Text

(***************************************************************************)
(* The inductive invariant: the traces are those of the clauses looked at, *)
(* and a decision is made of all of them.                                  *)
(***************************************************************************)
Traced(c) ==
  ClauseTrace(answer[c]) = NoTrace \/ \E n \in DOMAIN traces : traces[n] = ClauseTrace(answer[c])

Positive == \E n \in DOMAIN traces : traces[n].polarity = "positive"

MatchInv ==
  /\ fact \in Facts /\ answer \in Answers /\ clause \in 0..Len(answer)
  /\ decision \in {"open", "matched", "missed"}
  /\ traces \in Seq({ClauseTrace(answer[c]) : c \in DOMAIN answer})
  /\ \A c \in 1..clause : Traced(c)
  /\ Text /\ decision # "open" => clause = Len(answer) /\ (decision = "matched" <=> Positive)

LEMMA AnswerIs ==
  ASSUME answer \in Answers
  PROVE  /\ DOMAIN answer = 1..Len(answer) /\ Len(answer) \in Nat
         /\ \A c \in DOMAIN answer : IsSequence(answer[c])
BY MatchingAssumption, SequenceIs DEF AreTexts

LEMMA MatchInitOK ==
  ASSUME MatchInit PROVE MatchInv
<1>1. clause \in 0..Len(answer)
  BY AnswerIs DEF MatchInit
<1>2. QED
  BY <1>1 DEF MatchInit, MatchInv

\* Another clause is looked at.
LEMMA MatchClauseOK ==
  ASSUME MatchInv, MatchClause PROVE MatchInv'
<1> DEFINE trace(c) == ClauseTrace(answer[c])
           T == {trace(c) : c \in DOMAIN answer}
<1>1. /\ fact' = fact /\ answer' = answer /\ decision' = decision
      /\ clause' = clause + 1 /\ clause < Len(answer) /\ Text
      /\ traces' = IF trace(clause') = NoTrace THEN traces ELSE Append(traces, trace(clause'))
  BY DEF MatchClause
<1>2. \A c : ClauseTrace(answer[c])' = trace(c)
  BY <1>1 DEF ClauseTrace
<1>3. /\ fact \in Facts /\ answer \in Answers /\ clause \in 0..Len(answer)
      /\ decision \in {"open", "matched", "missed"}
      /\ traces \in Seq(T) /\ \A c \in 1..clause : Traced(c)
      /\ (Text /\ decision # "open" => clause = Len(answer))
  BY DEF MatchInv
<1>4. /\ DOMAIN answer = 1..Len(answer) /\ Len(answer) \in Nat
      /\ clause' \in 1..Len(answer) /\ clause \in Nat
  <2>1. DOMAIN answer = 1..Len(answer) /\ Len(answer) \in Nat
    BY <1>3, AnswerIs
  <2> HIDE DEF T
  <2>2. clause \in 0..Len(answer) /\ clause < Len(answer) /\ clause' = clause + 1
    BY <1>1, <1>3
  <2>3. QED
    BY <2>1, <2>2
<1>5. trace(clause') \in T
  BY <1>4
<1>6. T' = T
  BY <1>1, <1>2
<1>7. /\ traces' \in Seq(T)
      /\ \A n \in DOMAIN traces : n \in DOMAIN traces' /\ traces'[n] = traces[n]
      /\ \/ trace(clause') = NoTrace
         \/ \E n \in DOMAIN traces' : traces'[n] = trace(clause')
  <2>1. CASE trace(clause') = NoTrace
    <3>1. traces' = traces
      BY <1>1, <2>1
    <3> HIDE DEF T, trace
    <3>2. QED
      BY <1>3, <2>1, <3>1
  <2>2. CASE trace(clause') # NoTrace
    <3>1. traces' = Append(traces, trace(clause'))
      BY <1>1, <2>2
    <3> HIDE DEF T, trace
    <3>2. Len(traces) + 1 \in DOMAIN traces' /\ traces'[Len(traces) + 1] = trace(clause')
      BY <1>3, <3>1
    <3>3. QED
      BY <1>3, <1>5, <3>1, <3>2
  <2>3. QED
    BY <2>1, <2>2
<1>8. \A c \in 1..clause' : Traced(c)'
  <2> SUFFICES ASSUME NEW c \in 1..clause' PROVE Traced(c)'
    OBVIOUS
  <2>1. ClauseTrace(answer[c])' = trace(c)
    BY <1>2
  <2>2. CASE c = clause'
    BY <1>7, <2>1, <2>2 DEF Traced
  <2>3. CASE c # clause'
    <3>1. c \in 1..clause
      BY <1>1, <1>4, <2>3
    <3>2. Traced(c)
      BY <1>3, <3>1
    <3>3. trace(c) = NoTrace \/ \E n \in DOMAIN traces : traces[n] = trace(c)
      BY <3>2 DEF Traced
    <3> HIDE DEF trace
    <3>4. trace(c) = NoTrace \/ \E n \in DOMAIN traces' : traces'[n] = trace(c)
      BY <1>7, <3>3
    <3>5. QED
      BY <2>1, <3>4 DEF Traced
  <2>4. QED
    BY <2>2, <2>3
<1>9. traces' \in Seq({ClauseTrace(answer[c]) : c \in DOMAIN answer})'
  BY <1>6, <1>7
<1>10. decision' = "open"
  <2>1. Text /\ clause < Len(answer) /\ decision' = decision
    BY <1>1
  <2>2. Text /\ decision # "open" => clause = Len(answer)
    BY <1>3
  <2>3. clause # Len(answer)
    <3> HIDE DEF T, trace
    <3>1. clause \in Nat /\ Len(answer) \in Nat /\ clause < Len(answer)
      BY <1>4, <2>1
    <3>2. QED
      BY <3>1
  <2>4. QED
    BY <2>1, <2>2, <2>3
<1>11. /\ fact' \in Facts /\ answer' \in Answers /\ (clause \in 0..Len(answer))'
  <2>1. fact' = fact /\ answer' = answer /\ fact \in Facts /\ answer \in Answers
    BY <1>1, <1>3
  <2> HIDE DEF T, trace
  <2>2. clause' \in 0..Len(answer)
    BY <1>4
  <2>3. QED
    BY <2>1, <2>2
<1>12. QED
  BY <1>8, <1>9, <1>10, <1>11 DEF MatchInv

\* What is decided changes no trace.
LEMMA MatchDecideOK ==
  ASSUME MatchInv, decision = "open", UNCHANGED <<fact, answer, clause, traces>>,
         decision' \in {"matched", "missed"},
         Text => clause = Len(answer) /\ (decision' = "matched" <=> Positive)
  PROVE  MatchInv'
<1>1. \A c : ClauseTrace(answer[c])' = ClauseTrace(answer[c])
  BY DEF ClauseTrace
<1>2. \A c : Traced(c)' <=> Traced(c)
  BY <1>1 DEF Traced
<1>3. ({ClauseTrace(answer[c]) : c \in DOMAIN answer})' = {ClauseTrace(answer[c]) : c \in DOMAIN answer}
  BY <1>1
<1>4. (Text' <=> Text) /\ (Positive' <=> Positive)
  BY DEF Text, Positive
<1>5. QED
  BY <1>2, <1>3, <1>4 DEF MatchInv

LEMMA MatchNextOK ==
  ASSUME MatchInv, [MatchNext]_matchVars PROVE MatchInv'
<1>1. CASE MatchClause
  BY <1>1, MatchClauseOK
<1>2. CASE DecideText
  <2>1. /\ decision = "open" /\ clause = Len(answer) /\ UNCHANGED <<fact, answer, clause, traces>>
        /\ decision' \in {"matched", "missed"} /\ (decision' = "matched" <=> Positive)
    BY <1>2 DEF DecideText, Positive
  <2>2. QED
    BY <2>1, MatchDecideOK
<1>3. CASE DecideLiteral
  <2>1. /\ decision = "open" /\ ~Text /\ UNCHANGED <<fact, answer, clause, traces>>
        /\ decision' \in {"matched", "missed"}
    BY <1>3 DEF DecideLiteral
  <2>2. QED
    BY <2>1, MatchDecideOK
<1>4. CASE UNCHANGED matchVars
  <2>1. /\ UNCHANGED <<fact, answer, clause, traces, decision>>
    BY <1>4 DEF matchVars
  <2>2. \A c : ClauseTrace(answer[c])' = ClauseTrace(answer[c])
    BY <2>1 DEF ClauseTrace
  <2>3. \A c : Traced(c)' <=> Traced(c)
    BY <2>1, <2>2 DEF Traced
  <2>4. ({ClauseTrace(answer[c]) : c \in DOMAIN answer})' = {ClauseTrace(answer[c]) : c \in DOMAIN answer}
    BY <2>1, <2>2
  <2>5. (Text' <=> Text) /\ (Positive' <=> Positive)
    BY <2>1 DEF Text, Positive
  <2>6. QED
    BY <2>1, <2>3, <2>4, <2>5 DEF MatchInv
<1>5. QED
  BY <1>1, <1>2, <1>3, <1>4 DEF MatchNext

\* Whatever the answers, facts, aliases and negations, the traces are those of the
\* clauses looked at and the decision is taken from all of them.
THEOREM MatchInvariant == MatchSpec => []MatchInv
<1>1. MatchInit => MatchInv
  BY MatchInitOK
<1>2. MatchInv /\ [MatchNext]_matchVars => MatchInv'
  BY MatchNextOK
<1>3. QED
  BY <1>1, <1>2, PTL DEF MatchSpec

LEMMA StatementsMatch ==
  ASSUME MatchInv PROVE StatementCounts
<1> SUFFICES ASSUME decision # "open", Text, NEW c \in DOMAIN answer,
                    \A p \in DOMAIN answer[c] : ~NegatedAt(answer[c], p),
                    \A g \in DOMAIN Alternatives : \E a \in DOMAIN Alternatives[g] :
                      Occurrences(answer[c], Alternatives[g][a], Exactly) # {}
             PROVE  decision = "matched"
  BY DEF StatementCounts
<1>1. /\ fact \in Facts /\ answer \in Answers
      /\ clause = Len(answer) /\ (decision = "matched" <=> Positive)
      /\ \A i \in 1..clause : Traced(i)
  BY DEF MatchInv
<1>2. IsSequence(answer[c]) /\ c \in 1..clause
  BY <1>1, AnswerIs
<1>3. PICK starts : ClauseTrace(answer[c]) = Trace(answer[c], starts)
  BY <1>1, <1>2, SaidIsTraced
<1>4. Polarity(answer[c], starts) = "positive"
  <2>1. NegationPositions(answer[c]) = {}
    <3>1. \A p \in DOMAIN answer[c] : p \notin NegationPositions(answer[c])
      BY <1>2, NegatedIs
    <3>2. QED
      BY <3>1 DEF NegationPositions
  <2>2. QED
    BY <2>1, PolarityIs
<1>5. ClauseTrace(answer[c]) # NoTrace /\ ClauseTrace(answer[c]).polarity = "positive"
  BY <1>3, <1>4, TraceIs
<1>6. PICK n \in DOMAIN traces : traces[n] = ClauseTrace(answer[c])
  BY <1>1, <1>2, <1>5 DEF Traced
<1>7. QED
  BY <1>1, <1>5, <1>6 DEF Positive

LEMMA DenialsMiss ==
  ASSUME MatchInv PROVE DenialNeverCounts
<1> SUFFICES ASSUME decision = "matched", Text
             PROVE  \E c \in DOMAIN answer : Stated(answer[c])
  BY DEF DenialNeverCounts, Stated
<1> DEFINE T == {ClauseTrace(answer[c]) : c \in DOMAIN answer}
<1>1. fact \in Facts /\ answer \in Answers /\ Positive /\ traces \in Seq(T)
  BY DEF MatchInv
<1>2. PICK n \in DOMAIN traces : traces[n].polarity = "positive"
  BY <1>1 DEF Positive
<1>3. traces[n] \in T
  <2> HIDE DEF T
  <2>1. QED
    BY <1>1
<1>4. PICK c \in DOMAIN answer : ClauseTrace(answer[c]).polarity = "positive"
  BY <1>2, <1>3
<1>5. Stated(answer[c])
  BY <1>1, <1>4, AnswerIs, PositiveIsStated
<1>6. QED
  BY <1>5

\* A sentence that says the fact and negates nothing is never missed (e2e.py:515-571).
THEOREM StatementsAlwaysCount == MatchSpec => []StatementCounts
<1>1. MatchInv => StatementCounts
  BY StatementsMatch
<1>2. QED
  BY <1>1, MatchInvariant, PTL

\* No answer is credited with a fact it only denies (e2e.py:627-676).
THEOREM DenialsNeverCount == MatchSpec => []DenialNeverCounts
<1>1. MatchInv => DenialNeverCounts
  BY DenialsMiss
<1>2. QED
  BY <1>1, MatchInvariant, PTL

(***************************************************************************)
(* QualityGates.  The inductive invariant: records are of the items in     *)
(* their order, each judged as far as the run judges, and what is pending  *)
(* is the answer to the next item.                                         *)
(***************************************************************************)
Statuses == {"none", "not applicable", "complete"}
Classes  == {"correct_abstention", "false_answer", "candidate_miss", "reranker_miss_top20",
             "reranker_miss_top5", "hit"}

StatusOf(e) ==
  IF ~judging THEN "none" ELSE IF e.abstained THEN "not applicable" ELSE "complete"

RecordsInv ==
  /\ records \in Seq([execution : UNION {Executions(a) : a \in BOOLEAN},
                      failureClass : Classes, semantic : Statuses])
  /\ Len(records) <= Len(Answerable)
  /\ \A n \in DOMAIN records :
       /\ records[n].execution \in Executions(Answerable[n])
       /\ records[n].semantic = StatusOf(records[n].execution)

PendingInv ==
  pending # NoRecord =>
    /\ judging /\ verdict = "open"
    /\ Len(records) < Len(Answerable)
    /\ pending \in Executions(Answerable[Len(records) + 1])
    /\ ~pending.abstained

VerdictInv ==
  /\ verdict \in {"open", "pass", "fail"}
  /\ verdict # "open" => Len(records) = Len(Answerable)
  /\ verdict = "pass" => OverallPass(records)

GateTypeOK ==
  /\ judging \in BOOLEAN
  /\ metrics \in 0..(Len(Metrics) - 1)
  /\ failures \in 0..MaxFailures

GateInv == GateTypeOK /\ RecordsInv /\ PendingInv /\ VerdictInv

LEMMA ExecutionFields ==
  ASSUME NEW a \in BOOLEAN, NEW e \in Executions(a)
  PROVE  /\ e.answerable = a
         /\ e.abstained \in BOOLEAN
         /\ a => /\ e.candidate \in BOOLEAN /\ e.factsMatch \in BOOLEAN
                 /\ e.wrongDocument \in BOOLEAN
                 /\ e.abstained => ~e.factsMatch /\ ~e.wrongDocument
BY DEF Executions

LEMMA ItemsAnswerable ==
  ASSUME NEW n \in 1..Len(Answerable)
  PROVE  Answerable[n] \in BOOLEAN
BY GatesAssumption

\* The next record of a run is the last item's.
LEMMA RecordAppended ==
  ASSUME GateInv, Len(records) < Len(Answerable),
         NEW e \in Executions(Answerable[Len(records) + 1]),
         NEW s, s = StatusOf(e),
         records' = Append(records, Record(e, s)), judging' = judging
  PROVE  RecordsInv'
<1>1. Len(Answerable) \in Nat /\ Len(records) \in Nat
  BY GatesAssumption DEF GateInv, RecordsInv
<1>2. Answerable[Len(records) + 1] \in BOOLEAN
  BY <1>1, ItemsAnswerable
<1>3. Record(e, s) \in [execution : UNION {Executions(a) : a \in BOOLEAN},
                        failureClass : Classes, semantic : Statuses]
  <2>1. FailureClass(e) \in Classes
    BY DEF FailureClass, Classes
  <2>2. s \in Statuses
    BY DEF StatusOf, Statuses
  <2>3. QED
    BY <1>2, <2>1, <2>2 DEF Record
<1>4. Record(e, s).execution = e /\ Record(e, s).semantic = s
  BY DEF Record
<1>5. ASSUME NEW n \in DOMAIN records'
      PROVE  /\ records'[n].execution \in Executions(Answerable[n])
             /\ records'[n].semantic = StatusOf(records'[n].execution)
  <2>1. CASE n = Len(records) + 1
    BY <2>1, <1>3, <1>4 DEF GateInv, RecordsInv
  <2>2. CASE n # Len(records) + 1
    <3>1. n \in DOMAIN records /\ records'[n] = records[n]
      BY <2>2, <1>3, <1>5 DEF GateInv, RecordsInv
    <3>2. QED
      BY <3>1 DEF GateInv, RecordsInv
  <2>3. QED
    BY <2>1, <2>2
<1>6. records' \in Seq([execution : UNION {Executions(a) : a \in BOOLEAN},
                        failureClass : Classes, semantic : Statuses])
  BY <1>3 DEF GateInv, RecordsInv
<1>7. Len(records') <= Len(Answerable)
  BY <1>1, <1>3 DEF GateInv, RecordsInv
<1>8. \A f : StatusOf(f)' = StatusOf(f)
  BY DEF StatusOf
<1>9. QED
  BY <1>5, <1>6, <1>7 DEF RecordsInv, StatusOf

\* Whatever the dataset, the records are of the items in their order, each judged as
\* far as the run judges, and a verdict is taken from all of them.
THEOREM GateInvariant == GateSpec => []GateInv
<1>1. GateInit => GateInv
  BY GatesAssumption DEF GateInit, GateInv, GateTypeOK, RecordsInv, PendingInv, VerdictInv,
     Metrics
<1>2. GateInv /\ [GateNext]_gateVars => GateInv'
  <2> SUFFICES ASSUME GateInv, [GateNext]_gateVars PROVE GateInv'
    OBVIOUS
  <2> USE DEF GateInv
  <2>a. ASSUME judging' = judging, records' = records PROVE RecordsInv'
    BY <2>a DEF RecordsInv, StatusOf
  <2>b. ASSUME records' = records, verdict' = verdict PROVE VerdictInv'
    BY <2>b DEF VerdictInv
  <2>0. Len(Metrics) = 3 /\ Len(records) \in Nat /\ Len(Answerable) \in Nat
    BY GatesAssumption DEF Metrics, GateInv, RecordsInv
  <2>1. CASE ScoreItem
    <3>1. PICK e \in Executions(Answerable[Len(records) + 1]) :
            IF judging /\ ~e.abstained
            THEN pending' = e /\ UNCHANGED records
            ELSE /\ records' = Append(records, Record(e, IF judging THEN "not applicable" ELSE "none"))
                 /\ UNCHANGED pending
      BY <2>1 DEF ScoreItem
    <3>2. verdict = "open"
      <4>1. Len(records) < Len(Answerable)
        BY <2>1 DEF ScoreItem
      <4>2. QED
        BY <2>0, <4>1 DEF VerdictInv
    <3>3. GateTypeOK' /\ VerdictInv'
      BY <2>1, <3>2 DEF ScoreItem, GateTypeOK, VerdictInv
    <3>4. CASE judging /\ ~e.abstained
      BY <2>1, <3>1, <3>2, <3>3, <3>4, <2>a DEF ScoreItem, PendingInv
    <3>5. CASE ~(judging /\ ~e.abstained)
      <4>1. RecordsInv'
        BY <2>1, <3>1, <3>5, RecordAppended DEF ScoreItem, StatusOf
      <4>2. PendingInv'
        BY <2>1, <3>1, <3>5 DEF ScoreItem, PendingInv, NoRecord
      <4>3. QED
        BY <3>3, <4>1, <4>2 DEF GateInv
    <3>6. QED
      BY <3>4, <3>5
  <2>2. CASE JudgeMetric
    <3>1. CASE metrics + 1 < Len(Metrics)
      <4>1. GateTypeOK'
        BY <2>2, <2>0, <3>1 DEF JudgeMetric, GateTypeOK
      <4>2. PendingInv'
        BY <2>2, <3>1 DEF JudgeMetric, PendingInv
      <4>3. QED
        BY <2>2, <3>1, <2>a, <2>b, <4>1, <4>2 DEF JudgeMetric
    <3>2. CASE ~(metrics + 1 < Len(Metrics))
      <4>1. RecordsInv'
        BY <2>2, <3>2, RecordAppended DEF JudgeMetric, StatusOf, GateInv, PendingInv
      <4>2. GateTypeOK' /\ PendingInv' /\ VerdictInv'
        BY <2>2, <3>2, <2>0 DEF JudgeMetric, GateInv, GateTypeOK, PendingInv, VerdictInv, NoRecord
      <4>3. QED
        BY <4>1, <4>2 DEF GateInv
    <3>3. QED
      BY <3>1, <3>2
  <2>3. CASE JudgeFails
    <3>1. GateTypeOK'
      BY <2>3, <2>0, GatesAssumption DEF JudgeFails, GateTypeOK
    <3>2. QED
      BY <2>3, <2>a, <2>b, <3>1 DEF JudgeFails, PendingInv
  <2>4. CASE JudgeRun
    BY <2>4, <2>a DEF JudgeRun, GateTypeOK, PendingInv, VerdictInv
  <2>5. CASE UNCHANGED gateVars
    BY <2>5, <2>a, <2>b DEF gateVars, GateTypeOK, PendingInv
  <2>6. QED
    BY <2>1, <2>2, <2>3, <2>4, <2>5 DEF GateNext
<1>3. QED
  BY <1>1, <1>2, PTL DEF GateSpec

(***************************************************************************)
(* Counting records                                                        *)
(***************************************************************************)
WithAnswerable(recs)   == {n \in DOMAIN recs : recs[n].execution.answerable}
WithUnanswerable(recs) == {n \in DOMAIN recs : ~recs[n].execution.answerable}
WithAnswer(recs)       == {n \in DOMAIN recs : Answered(recs[n].execution)}
WithFound(recs)        ==
  {n \in DOMAIN recs : recs[n].execution.answerable /\ recs[n].execution.candidate}
WithFacts(recs)        ==
  {n \in DOMAIN recs : Answered(recs[n].execution) /\ recs[n].execution.factsMatch}
WithWrong(recs)        ==
  {n \in DOMAIN recs : Answered(recs[n].execution) /\ recs[n].execution.wrongDocument}
WithSilence(recs)      ==
  {n \in DOMAIN recs : ~recs[n].execution.answerable /\ recs[n].execution.abstained}
WithAbstention(recs)   ==
  {n \in DOMAIN recs : recs[n].execution.answerable /\ recs[n].execution.abstained}

LEMMA RecordsAreFinite ==
  ASSUME NEW recs, DOMAIN recs = 1..Len(recs), Len(recs) \in Nat,
         NEW S \in SUBSET (DOMAIN recs)
  PROVE  IsFiniteSet(S) /\ Cardinality(S) \in Nat
<1>1. IsFiniteSet(DOMAIN recs)
  BY FS_Interval
<1>2. QED
  BY <1>1, FS_Subset, FS_CardinalityType

LEMMA CountsAreOfSets ==
  ASSUME NEW recs
  PROVE  /\ AnswerableCount(recs) = Cardinality(WithAnswerable(recs))
         /\ UnanswerableCount(recs) = Cardinality(WithUnanswerable(recs))
         /\ AnsweredCount(recs) = Cardinality(WithAnswer(recs))
         /\ TruePositives(recs) = Cardinality(WithSilence(recs))
         /\ FalsePositives(recs) = Cardinality(WithAbstention(recs))
         /\ WrongDocuments(recs) = Cardinality(WithWrong(recs))
         /\ Number(recs, LAMBDA e : Answered(e) /\ e.factsMatch) = Cardinality(WithFacts(recs))
         /\ Number(recs, LAMBDA e : e.answerable /\ e.candidate) = Cardinality(WithFound(recs))
BY DEF AnswerableCount, UnanswerableCount, AnsweredCount, TruePositives, FalsePositives,
       WrongDocuments, Number, WithAnswerable, WithUnanswerable, WithAnswer, WithSilence,
       WithAbstention, WithWrong, WithFacts, WithFound

LEMMA CountsAreNat ==
  ASSUME NEW recs, DOMAIN recs = 1..Len(recs), Len(recs) \in Nat
  PROVE  /\ Cardinality(WithAnswerable(recs)) \in Nat
         /\ Cardinality(WithUnanswerable(recs)) \in Nat
         /\ Cardinality(WithAnswer(recs)) \in Nat
         /\ Cardinality(WithSilence(recs)) \in Nat
         /\ Cardinality(WithAbstention(recs)) \in Nat
         /\ Cardinality(WithWrong(recs)) \in Nat
         /\ Cardinality(WithFacts(recs)) \in Nat
         /\ Cardinality(WithFound(recs)) \in Nat
BY RecordsAreFinite DEF WithAnswerable, WithUnanswerable, WithAnswer, WithSilence,
       WithAbstention, WithWrong, WithFacts, WithFound

\* What evaluate_quality_gates has established, in numbers.
LEMMA PassInNumbers ==
  ASSUME NEW recs
  PROVE  OverallPass(recs) <=>
           /\ AtLeast(Cardinality(WithFound(recs)), Cardinality(WithAnswerable(recs)), RecallGate)
           /\ Cardinality(WithAnswer(recs)) > 0
           /\ Cardinality(WithWrong(recs)) = 0
           /\ AtLeast(Cardinality(WithFacts(recs)), Cardinality(WithAnswer(recs)), FactGate)
           /\ AtLeast(Cardinality(WithSilence(recs)),
                      Cardinality(WithSilence(recs)) + Cardinality(WithAbstention(recs)),
                      PrecisionGate)
           /\ AtLeast(Cardinality(WithSilence(recs)), Cardinality(WithUnanswerable(recs)),
                      AbstentionGate)
BY CountsAreOfSets, Zenon
DEF OverallPass, CandidateRecall, ValidCitations, FactAccuracy, AbstentionPrecision,
    AbstentionRecall

LEMMA GatesAreFractions ==
  ASSUME NEW gate \in {RecallGate, FactGate, PrecisionGate, AbstentionGate}
  PROVE  gate[1] \in Nat /\ gate[2] \in Nat /\ gate[2] > 0 /\ gate[1] <= gate[2]
BY GatesAssumption DEF Fractions

\* A part of a set and the rest of it.
LEMMA PartAndRest ==
  ASSUME NEW S, NEW T, NEW U, IsFiniteSet(S), S = T \cup U, T \cap U = {}
  PROVE  /\ Cardinality(T) \in Nat /\ Cardinality(U) \in Nat
         /\ Cardinality(S) = Cardinality(T) + Cardinality(U)
<1>1. IsFiniteSet(T) /\ IsFiniteSet(U)
  BY FS_Subset
<1>2. Cardinality(T) \in Nat /\ Cardinality(U) \in Nat
  BY <1>1, FS_CardinalityType
<1>3. Cardinality(T \cup U) = Cardinality(T) + Cardinality(U) - Cardinality(T \cap U)
  BY <1>1, FS_Union
<1>4. Cardinality(T \cap U) = 0
  BY FS_EmptySet
<1>5. QED
  BY <1>2, <1>3, <1>4

LEMMA RateBelow ==
  ASSUME NEW count \in Nat, NEW rest \in Nat, NEW gate,
         gate[1] \in Nat, gate[2] \in Nat, AtLeast(count, count + rest, gate)
  PROVE  /\ gate[1] * (count + rest) <= count * gate[2]
         /\ rest * gate[2] <= (gate[2] - gate[1]) * (count + rest)
<1> DEFINE p == gate[1]
           q == gate[2]
<1>1. p * (count + rest) <= count * q
  <2>1. CASE count + rest = 0
    BY <2>1, p * 0 = 0, 0 * q = 0
  <2>2. CASE count + rest # 0
    BY <2>2 DEF AtLeast
  <2>3. QED
    BY <2>1, <2>2
<1>2. (q - p) * (count + rest) = q * count + q * rest - p * (count + rest)
  BY SMT
<1>3. QED
  BY <1>1, <1>2, SMT

LEMMA GateIsRecords ==
  ASSUME GateInv
  PROVE  /\ DOMAIN records = 1..Len(records) /\ Len(records) \in Nat
         /\ \A n \in DOMAIN records :
              /\ n \in 1..Len(Answerable) /\ Answerable[n] \in BOOLEAN
              /\ records[n].execution \in Executions(Answerable[n])
BY GatesAssumption, ItemsAnswerable DEF GateInv, RecordsInv

\* The arithmetic of a pass: the answers that are owed (A), those given (N) or
\* declined (F), and the abstentions where it is due (T of U).
LEMMA PassArithmetic ==
  ASSUME NEW A \in Nat, NEW N \in Nat, NEW F \in Nat, NEW T \in Nat, NEW U \in Nat,
         NEW right \in Nat, NEW f \in Nat, NEW g \in Nat, NEW p \in Nat, NEW q \in Nat,
         A = N + F, T <= U, p <= q,
         right * g >= f * N, T * q >= p * (T + F)
  PROVE  g * p * right + f * (q - p) * U >= f * p * A
<1>1. (q - p) * U >= p * F
  <2>1. (q - p) * T >= p * F
    <3>1. (q - p) * T = T * q - p * T /\ p * (T + F) = p * T + p * F
      BY SMT
    <3>2. QED
      BY <3>1, SMT
  <2>2. (q - p) * U = (q - p) * T + (q - p) * (U - T)
    BY SMT
  <2>3. (q - p) \in Nat /\ (U - T) \in Nat
    BY SMT
  <2>4. (q - p) * (U - T) >= 0
    BY <2>3, SMT
  <2>5. QED
    BY <2>1, <2>2, <2>4, SMT
<1>2. \A x, y \in Int : x >= y => f * x >= f * y /\ p * x >= p * y
  BY SMT
<1>3. f * ((q - p) * U) >= f * (p * F)
  BY <1>1, <1>2, SMT
<1>4. p * (right * g) >= p * (f * N)
  BY <1>2, SMT
<1>5. g * p * right = p * (right * g) /\ f * (q - p) * U = f * ((q - p) * U)
  BY SMT
<1>6. f * p * A = p * (f * N) + f * (p * F)
  BY SMT
<1>7. QED
  BY <1>3, <1>4, <1>5, <1>6, SMT

\* A pass is earned by right answers, whatever the items, the gates and the outcomes.
THEOREM PassesAreEarned == GateSpec => []PassIsEarned
<1>1. GateInv => PassIsEarned
  <2> SUFFICES ASSUME GateInv, verdict = "pass" PROVE PassIsEarned
    BY DEF PassIsEarned
  <2>1. OverallPass(records)
    BY DEF GateInv, VerdictInv
  <2>2. /\ DOMAIN records = 1..Len(records) /\ Len(records) \in Nat
        /\ \A n \in DOMAIN records :
             /\ records[n].execution.answerable \in BOOLEAN
             /\ records[n].execution.abstained \in BOOLEAN
             /\ records[n].execution.answerable => records[n].execution.candidate \in BOOLEAN
    BY GateIsRecords, ExecutionFields
  <2> DEFINE false == {n \in DOMAIN records : FailureClass(records[n].execution) = "false_answer"}
             miss  == {n \in DOMAIN records : FailureClass(records[n].execution) = "candidate_miss"}
  <2>3. IsFiniteSet(WithAnswerable(records)) /\ IsFiniteSet(WithUnanswerable(records))
    BY <2>2, RecordsAreFinite DEF WithAnswerable, WithUnanswerable
  <2>4. Cardinality(WithAnswerable(records))
          = Cardinality(WithAnswer(records)) + Cardinality(WithAbstention(records))
    <3>1. WithAnswerable(records) = WithAnswer(records) \cup WithAbstention(records)
      BY <2>2 DEF WithAnswerable, WithAnswer, WithAbstention, Answered
    <3>2. WithAnswer(records) \cap WithAbstention(records) = {}
      BY DEF WithAnswer, WithAbstention, Answered
    <3>3. QED
      BY <2>3, <3>1, <3>2, PartAndRest
  <2>5. /\ Cardinality(WithUnanswerable(records)) = Cardinality(WithSilence(records)) + Cardinality(false)
        /\ Cardinality(false) \in Nat
    <3>1. WithUnanswerable(records) = WithSilence(records) \cup false
      BY <2>2 DEF WithUnanswerable, WithSilence, FailureClass
    <3>2. WithSilence(records) \cap false = {}
      BY DEF WithSilence, FailureClass
    <3>3. QED
      BY <2>3, <3>1, <3>2, PartAndRest
  <2>6. /\ Cardinality(WithAnswerable(records)) = Cardinality(WithFound(records)) + Cardinality(miss)
        /\ Cardinality(miss) \in Nat
    <3>1. WithAnswerable(records) = WithFound(records) \cup miss
      BY <2>2 DEF WithAnswerable, WithFound, FailureClass
    <3>2. WithFound(records) \cap miss = {}
      BY DEF WithFound, FailureClass
    <3>3. QED
      BY <2>3, <3>1, <3>2, PartAndRest
  <2> HIDE DEF false, miss
  <2>7. /\ Cardinality(WithFacts(records)) * FactGate[2]
             >= FactGate[1] * Cardinality(WithAnswer(records))
        /\ Cardinality(WithSilence(records)) * PrecisionGate[2]
             >= PrecisionGate[1] * (Cardinality(WithSilence(records))
                                    + Cardinality(WithAbstention(records)))
    <3>1. /\ Cardinality(WithAnswer(records)) > 0
          /\ AtLeast(Cardinality(WithFacts(records)), Cardinality(WithAnswer(records)), FactGate)
          /\ AtLeast(Cardinality(WithSilence(records)),
                     Cardinality(WithSilence(records)) + Cardinality(WithAbstention(records)),
                     PrecisionGate)
      BY <2>1, PassInNumbers
    <3>2. Cardinality(WithAnswer(records)) # 0
      BY <2>2, <3>1, CountsAreNat
    <3>3. QED
      BY <2>2, <3>1, <3>2, CountsAreNat, GatesAreFractions, RateBelow DEF AtLeast
  <2>8. /\ Cardinality(false) * AbstentionGate[2]
             <= (AbstentionGate[2] - AbstentionGate[1]) * Cardinality(WithUnanswerable(records))
        /\ Cardinality(miss) * RecallGate[2]
             <= (RecallGate[2] - RecallGate[1]) * Cardinality(WithAnswerable(records))
    BY <2>1, <2>2, <2>5, <2>6, PassInNumbers, CountsAreNat, GatesAreFractions, RateBelow
  <2>9. FactGate[2] * PrecisionGate[1] * Cardinality(WithFacts(records))
          + FactGate[1] * (PrecisionGate[2] - PrecisionGate[1]) * Cardinality(WithUnanswerable(records))
        >= FactGate[1] * PrecisionGate[1] * Cardinality(WithAnswerable(records))
    <3>1. Cardinality(WithSilence(records)) <= Cardinality(WithUnanswerable(records))
      BY <2>2, <2>5, CountsAreNat
    <3>2. QED
      BY <2>2, <2>4, <2>7, <3>1, CountsAreNat, GatesAreFractions, PassArithmetic
  <2>10. /\ Number(records, LAMBDA e : FailureClass(e) = "false_answer") = Cardinality(false)
         /\ Number(records, LAMBDA e : FailureClass(e) = "candidate_miss") = Cardinality(miss)
    BY DEF Number, false, miss
  <2>11. QED
    BY <2>8, <2>9, <2>10, CountsAreOfSets DEF PassIsEarned
<1>2. QED
  BY <1>1, GateInvariant, PTL

\* Two sets of records that differ in one record at most.
LEMMA OneRecordApart ==
  ASSUME NEW S, NEW T, NEW n, IsFiniteSet(S), IsFiniteSet(T), S \ {n} = T \ {n}
  PROVE  /\ (n \in S <=> n \in T) => Cardinality(T) = Cardinality(S)
         /\ n \notin S /\ n \in T => Cardinality(T) = Cardinality(S) + 1
         /\ n \in S /\ n \notin T => Cardinality(S) = Cardinality(T) + 1
<1>1. Cardinality(S) \in Nat /\ Cardinality(T) \in Nat
  BY FS_CardinalityType
<1>2. /\ Cardinality(S \ {n}) = IF n \in S THEN Cardinality(S) - 1 ELSE Cardinality(S)
      /\ Cardinality(T \ {n}) = IF n \in T THEN Cardinality(T) - 1 ELSE Cardinality(T)
  BY FS_RemoveElement
<1>3. QED
  BY <1>1, <1>2

LEMMA MoreIsAtLeast ==
  ASSUME NEW c \in Nat, NEW t \in Nat, NEW gate,
         gate[1] \in Nat, gate[2] \in Nat, gate[1] <= gate[2], AtLeast(c, t, gate), c <= t
  PROVE  /\ t > 0 => AtLeast(c + 1, t, gate)
         /\ AtLeast(c + 1, t + 1, gate)
<1> DEFINE p == gate[1]
           q == gate[2]
<1>1. p * t <= c * q
  <2>1. CASE t = 0
    BY <2>1, p * 0 = 0, c * q \in Nat
  <2>2. CASE t # 0
    BY <2>2 DEF AtLeast
  <2>3. QED
    BY <2>1, <2>2
<1>a. p \in Nat /\ q \in Nat
  OBVIOUS
<1> HIDE DEF p, q
<1>b. p * (t + 1) = p * t + p
  BY <1>a, SMT
<1>2. (c + 1) * q = c * q + q
  BY <1>a, SMT
<1> USE DEF p, q
<1>3. p * (t + 1) <= (c + 1) * q /\ p * t <= (c + 1) * q
  BY <1>1, <1>a, <1>b, <1>2, SMT
<1>4. QED
  BY <1>3 DEF AtLeast

\* Fewer wrong abstentions raise the precision of the others.
LEMMA FewerIsAtLeast ==
  ASSUME NEW c \in Nat, NEW k \in Nat, NEW gate,
         gate[1] \in Nat, gate[2] \in Nat, gate[1] > 0, AtLeast(c, c + (k + 1), gate)
  PROVE  AtLeast(c, c + k, gate)
<1> DEFINE p == gate[1]
           q == gate[2]
<1>1. p * (c + (k + 1)) <= c * q
  BY DEF AtLeast
<1>2. p * (c + (k + 1)) = p * (c + k) + p
  BY SMT
<1>3. c + k # 0
  <2> SUFFICES ASSUME c + k = 0 PROVE FALSE
    OBVIOUS
  <2>1. c * q = 0 /\ p * (c + k) = 0
    BY SMT
  <2>2. QED
    BY <1>1, <1>2, <2>1, SMT
<1>4. QED
  BY <1>1, <1>2, <1>3 DEF AtLeast

\* Doing better on one item: the other records count as they did.
LEMMA OtherRecordsCount ==
  ASSUME NEW recs, NEW new, NEW n, DOMAIN new = DOMAIN recs,
         \A m \in DOMAIN recs \ {n} : new[m] = recs[m]
  PROVE  /\ WithAnswerable(new) \ {n} = WithAnswerable(recs) \ {n}
         /\ WithUnanswerable(new) \ {n} = WithUnanswerable(recs) \ {n}
         /\ WithAnswer(new) \ {n} = WithAnswer(recs) \ {n}
         /\ WithFound(new) \ {n} = WithFound(recs) \ {n}
         /\ WithFacts(new) \ {n} = WithFacts(recs) \ {n}
         /\ WithWrong(new) \ {n} = WithWrong(recs) \ {n}
         /\ WithSilence(new) \ {n} = WithSilence(recs) \ {n}
         /\ WithAbstention(new) \ {n} = WithAbstention(recs) \ {n}
BY DEF WithAnswerable, WithUnanswerable, WithAnswer, WithFound, WithFacts, WithWrong,
       WithSilence, WithAbstention

LEMMA BetterItemPasses ==
  ASSUME GateInv, OverallPass(records), NEW n \in DOMAIN records,
         NEW e \in Executions(Answerable[n]), Better(e, records[n].execution)
  PROVE  OverallPass([records EXCEPT ![n] = Record(e, records[n].semantic)])
<1> DEFINE d   == records[n].execution
           new == [records EXCEPT ![n] = Record(e, records[n].semantic)]
<1>1. DOMAIN records = 1..Len(records) /\ Len(records) \in Nat
  BY GateIsRecords
<1>2. DOMAIN new = 1..Len(new) /\ Len(new) \in Nat /\ new[n].execution = e
  BY <1>1 DEF GateInv, RecordsInv, Record
<1>3. /\ d.answerable \in BOOLEAN /\ d.abstained \in BOOLEAN /\ e.abstained \in BOOLEAN
      /\ e.answerable = d.answerable
      /\ d.answerable => /\ d.candidate \in BOOLEAN /\ e.candidate \in BOOLEAN
                         /\ d.factsMatch \in BOOLEAN /\ e.factsMatch \in BOOLEAN
                         /\ d.wrongDocument \in BOOLEAN /\ e.wrongDocument \in BOOLEAN
  BY GateIsRecords, ExecutionFields
<1>4. PICK A, U, N, C, R, W, T, F \in Nat :
        /\ A = Cardinality(WithAnswerable(records)) /\ U = Cardinality(WithUnanswerable(records))
        /\ N = Cardinality(WithAnswer(records)) /\ C = Cardinality(WithFound(records))
        /\ R = Cardinality(WithFacts(records)) /\ W = Cardinality(WithWrong(records))
        /\ T = Cardinality(WithSilence(records)) /\ F = Cardinality(WithAbstention(records))
  BY <1>1, CountsAreNat
<1>5. PICK AA, UU, NN, CC, RR, WW, TT, FF \in Nat :
        /\ AA = Cardinality(WithAnswerable(new)) /\ UU = Cardinality(WithUnanswerable(new))
        /\ NN = Cardinality(WithAnswer(new)) /\ CC = Cardinality(WithFound(new))
        /\ RR = Cardinality(WithFacts(new)) /\ WW = Cardinality(WithWrong(new))
        /\ TT = Cardinality(WithSilence(new)) /\ FF = Cardinality(WithAbstention(new))
  BY <1>2, CountsAreNat
<1>6. /\ n \in WithAnswerable(records) <=> d.answerable
      /\ n \in WithUnanswerable(records) <=> ~d.answerable
      /\ n \in WithAnswer(records) <=> d.answerable /\ ~d.abstained
      /\ n \in WithFound(records) <=> d.answerable /\ d.candidate
      /\ n \in WithFacts(records) <=> d.answerable /\ ~d.abstained /\ d.factsMatch
      /\ n \in WithWrong(records) <=> d.answerable /\ ~d.abstained /\ d.wrongDocument
      /\ n \in WithSilence(records) <=> ~d.answerable /\ d.abstained
      /\ n \in WithAbstention(records) <=> d.answerable /\ d.abstained
  BY <1>3 DEF WithAnswerable, WithUnanswerable, WithAnswer, WithFound, WithFacts, WithWrong, WithSilence, WithAbstention, Answered
<1>7. /\ n \in WithAnswerable(new) <=> e.answerable
      /\ n \in WithUnanswerable(new) <=> ~e.answerable
      /\ n \in WithAnswer(new) <=> e.answerable /\ ~e.abstained
      /\ n \in WithFound(new) <=> e.answerable /\ e.candidate
      /\ n \in WithFacts(new) <=> e.answerable /\ ~e.abstained /\ e.factsMatch
      /\ n \in WithWrong(new) <=> e.answerable /\ ~e.abstained /\ e.wrongDocument
      /\ n \in WithSilence(new) <=> ~e.answerable /\ e.abstained
      /\ n \in WithAbstention(new) <=> e.answerable /\ e.abstained
  BY <1>1, <1>2, <1>3 DEF WithAnswerable, WithUnanswerable, WithAnswer, WithFound, WithFacts, WithWrong, WithSilence, WithAbstention, Answered
<1>8. ASSUME NEW S, NEW Sn, IsFiniteSet(S), IsFiniteSet(Sn), Sn \ {n} = S \ {n}
      PROVE  /\ (n \in S <=> n \in Sn) => Cardinality(Sn) = Cardinality(S)
             /\ n \notin S /\ n \in Sn => Cardinality(Sn) = Cardinality(S) + 1
             /\ n \in S /\ n \notin Sn => Cardinality(S) = Cardinality(Sn) + 1
  BY <1>8, OneRecordApart
<1>9. /\ WithAnswerable(new) \ {n} = WithAnswerable(records) \ {n}
      /\ WithUnanswerable(new) \ {n} = WithUnanswerable(records) \ {n}
      /\ WithAnswer(new) \ {n} = WithAnswer(records) \ {n}
      /\ WithFound(new) \ {n} = WithFound(records) \ {n}
      /\ WithFacts(new) \ {n} = WithFacts(records) \ {n}
      /\ WithWrong(new) \ {n} = WithWrong(records) \ {n}
      /\ WithSilence(new) \ {n} = WithSilence(records) \ {n}
      /\ WithAbstention(new) \ {n} = WithAbstention(records) \ {n}
  <2>1. DOMAIN new = DOMAIN records /\ \A m \in DOMAIN records \ {n} : new[m] = records[m]
    OBVIOUS
  <2> HIDE DEF new
  <2>2. QED
    BY <2>1, OtherRecordsCount
<1>10. /\ IsFiniteSet(WithAnswerable(records)) /\ IsFiniteSet(WithAnswerable(new))
       /\ IsFiniteSet(WithUnanswerable(records)) /\ IsFiniteSet(WithUnanswerable(new))
       /\ IsFiniteSet(WithAnswer(records)) /\ IsFiniteSet(WithAnswer(new))
       /\ IsFiniteSet(WithFound(records)) /\ IsFiniteSet(WithFound(new))
       /\ IsFiniteSet(WithFacts(records)) /\ IsFiniteSet(WithFacts(new))
       /\ IsFiniteSet(WithWrong(records)) /\ IsFiniteSet(WithWrong(new))
       /\ IsFiniteSet(WithSilence(records)) /\ IsFiniteSet(WithSilence(new))
       /\ IsFiniteSet(WithAbstention(records)) /\ IsFiniteSet(WithAbstention(new))
  <2> HIDE DEF new
  <2>1. QED
    BY <1>1, <1>2, RecordsAreFinite DEF WithAnswerable, WithUnanswerable, WithAnswer, WithFound, WithFacts, WithWrong, WithSilence, WithAbstention
<1> SUFFICES OverallPass(new)
  OBVIOUS
<1> HIDE DEF new, d
<1>11. /\ (d.answerable <=> e.answerable) => AA = A
       /\ ~(d.answerable) /\ e.answerable => AA = A + 1
       /\ d.answerable /\ ~(e.answerable) => A = AA + 1
  BY <1>4, <1>5, <1>6, <1>7, <1>8, <1>9, <1>10
<1>12. /\ (~d.answerable <=> ~e.answerable) => UU = U
       /\ ~(~d.answerable) /\ ~e.answerable => UU = U + 1
       /\ ~d.answerable /\ ~(~e.answerable) => U = UU + 1
  BY <1>4, <1>5, <1>6, <1>7, <1>8, <1>9, <1>10
<1>13. /\ (d.answerable /\ ~d.abstained <=> e.answerable /\ ~e.abstained) => NN = N
       /\ ~(d.answerable /\ ~d.abstained) /\ e.answerable /\ ~e.abstained => NN = N + 1
       /\ d.answerable /\ ~d.abstained /\ ~(e.answerable /\ ~e.abstained) => N = NN + 1
  BY <1>4, <1>5, <1>6, <1>7, <1>8, <1>9, <1>10
<1>14. /\ (d.answerable /\ d.candidate <=> e.answerable /\ e.candidate) => CC = C
       /\ ~(d.answerable /\ d.candidate) /\ e.answerable /\ e.candidate => CC = C + 1
       /\ d.answerable /\ d.candidate /\ ~(e.answerable /\ e.candidate) => C = CC + 1
  BY <1>4, <1>5, <1>6, <1>7, <1>8, <1>9, <1>10
<1>15. /\ (d.answerable /\ ~d.abstained /\ d.factsMatch <=> e.answerable /\ ~e.abstained /\ e.factsMatch) => RR = R
       /\ ~(d.answerable /\ ~d.abstained /\ d.factsMatch) /\ e.answerable /\ ~e.abstained /\ e.factsMatch => RR = R + 1
       /\ d.answerable /\ ~d.abstained /\ d.factsMatch /\ ~(e.answerable /\ ~e.abstained /\ e.factsMatch) => R = RR + 1
  BY <1>4, <1>5, <1>6, <1>7, <1>8, <1>9, <1>10
<1>16. /\ (d.answerable /\ ~d.abstained /\ d.wrongDocument <=> e.answerable /\ ~e.abstained /\ e.wrongDocument) => WW = W
       /\ ~(d.answerable /\ ~d.abstained /\ d.wrongDocument) /\ e.answerable /\ ~e.abstained /\ e.wrongDocument => WW = W + 1
       /\ d.answerable /\ ~d.abstained /\ d.wrongDocument /\ ~(e.answerable /\ ~e.abstained /\ e.wrongDocument) => W = WW + 1
  BY <1>4, <1>5, <1>6, <1>7, <1>8, <1>9, <1>10
<1>17. /\ (~d.answerable /\ d.abstained <=> ~e.answerable /\ e.abstained) => TT = T
       /\ ~(~d.answerable /\ d.abstained) /\ ~e.answerable /\ e.abstained => TT = T + 1
       /\ ~d.answerable /\ d.abstained /\ ~(~e.answerable /\ e.abstained) => T = TT + 1
  BY <1>4, <1>5, <1>6, <1>7, <1>8, <1>9, <1>10
<1>18. /\ (d.answerable /\ d.abstained <=> e.answerable /\ e.abstained) => FF = F
       /\ ~(d.answerable /\ d.abstained) /\ e.answerable /\ e.abstained => FF = F + 1
       /\ d.answerable /\ d.abstained /\ ~(e.answerable /\ e.abstained) => F = FF + 1
  BY <1>4, <1>5, <1>6, <1>7, <1>8, <1>9, <1>10
<1>19. /\ AtLeast(C, A, RecallGate) /\ N > 0 /\ W = 0 /\ AtLeast(R, N, FactGate)
       /\ AtLeast(T, T + F, PrecisionGate) /\ AtLeast(T, U, AbstentionGate)
  BY <1>4, PassInNumbers
<1>20. C <= A /\ R <= N /\ T <= U
  <2>1. /\ WithFound(records) \subseteq WithAnswerable(records)
        /\ WithFacts(records) \subseteq WithAnswer(records)
        /\ WithSilence(records) \subseteq WithUnanswerable(records)
    BY DEF WithFound, WithAnswerable, WithFacts, WithAnswer, WithSilence, WithUnanswerable
  <2>2. QED
    BY <1>4, <1>10, <2>1, FS_Subset
<1>21. Better(e, d)
  BY DEF d
<1>22. CASE ~d.answerable
  <2>1. A = AA /\ C = CC /\ N = NN /\ R = RR /\ W = WW /\ F = FF /\ U = UU
    BY <1>3, <1>11, <1>12, <1>13, <1>14, <1>15, <1>16, <1>18, <1>22
  <2>2. T = TT \/ TT = T + 1
    BY <1>3, <1>17, <1>21, <1>22 DEF Better
  <2>3. U > 0
    <3>1. n \in WithUnanswerable(records)
      BY <1>6, <1>22
    <3>2. QED
      BY <1>4, <1>10, <3>1, FS_EmptySet
  <2>4. TT = T + 1 =>
          AtLeast(T + 1, (T + F) + 1, PrecisionGate) /\ AtLeast(T + 1, U, AbstentionGate)
    BY <1>19, <1>20, <2>3, MoreIsAtLeast, GatesAreFractions
  <2>5. (T + F) + 1 = (T + 1) + F
    OBVIOUS
  <2>6. QED
    BY <1>5, <1>19, <2>1, <2>2, <2>4, <2>5, PassInNumbers
<1>23. CASE d.answerable
  <2>1. A = AA /\ U = UU /\ T = TT
    BY <1>3, <1>11, <1>12, <1>17, <1>23
  <2>2. A > 0
    <3>1. n \in WithAnswerable(records)
      BY <1>6, <1>23
    <3>2. QED
      BY <1>4, <1>10, <3>1, FS_EmptySet
  <2>3. AtLeast(CC, AA, RecallGate)
    <3>1. C = CC \/ CC = C + 1
      BY <1>3, <1>14, <1>21, <1>23 DEF Better
    <3>2. QED
      BY <1>19, <1>20, <2>1, <2>2, <3>1, MoreIsAtLeast, GatesAreFractions
  <2>4. WW = 0
    BY <1>3, <1>16, <1>19, <1>21, <1>23 DEF Better
  <2>5. \/ NN = N /\ FF = F /\ RR \in {R, R + 1}
        \/ NN = N + 1 /\ F = FF + 1 /\ RR = R + 1
    BY <1>3, <1>13, <1>15, <1>18, <1>21, <1>23 DEF Better
  <2>6. NN > 0 /\ AtLeast(RR, NN, FactGate)
    BY <1>19, <1>20, <2>5, MoreIsAtLeast, GatesAreFractions
  <2>7. AtLeast(TT, TT + FF, PrecisionGate)
    <3>1. CASE F = FF
      BY <1>19, <2>1, <3>1
    <3>2. CASE F = FF + 1
      BY <1>19, <2>1, <3>2, FewerIsAtLeast, GatesAreFractions, GatesAssumption
    <3>3. QED
      BY <2>5, <3>1, <3>2
  <2>8. QED
    BY <1>5, <1>19, <2>1, <2>3, <2>4, <2>6, <2>7, PassInNumbers
<1>24. QED
  BY <1>3, <1>22, <1>23

\* No rate of the gates is better for a system that answers worse.
THEOREM BetterPasses == GateSpec => []BetterNeverFails
<1>1. GateInv => BetterNeverFails
  <2> SUFFICES ASSUME GateInv, verdict = "pass", NEW n \in DOMAIN records,
                      NEW e \in Executions(Answerable[n]), Better(e, records[n].execution)
               PROVE  OverallPass([records EXCEPT ![n] = Record(e, records[n].semantic)])
    BY DEF BetterNeverFails
  <2>1. OverallPass(records)
    BY DEF GateInv, VerdictInv
  <2>2. QED
    BY <2>1, BetterItemPasses
<1>2. QED
  BY <1>1, GateInvariant, PTL

\* The means are over the answers, each judged by all metrics, whatever failed.
THEOREM MeansAreOfAnswers == GateSpec => []MeansCoverAnswers
<1>1. GateInv => MeansCoverAnswers
  <2> SUFFICES ASSUME GateInv, judging PROVE MeansCoverAnswers
    BY DEF MeansCoverAnswers
  <2> DEFINE all      == DOMAIN records
             answers  == {n \in all : ~records[n].execution.abstained}
             eligible == {n \in all : records[n].semantic = "complete"}
             excluded == {n \in all : records[n].semantic = "not applicable"}
  <2>1. /\ all = 1..Len(records) /\ Len(records) \in Nat
        /\ \A n \in all : records[n].execution.abstained \in BOOLEAN
    BY GateIsRecords, ExecutionFields
  <2>2. \A n \in all : records[n].semantic
          = IF records[n].execution.abstained THEN "not applicable" ELSE "complete"
    BY DEF GateInv, RecordsInv, StatusOf
  <2>3. eligible = answers /\ eligible \cap excluded = {} /\ all = eligible \cup excluded
    BY <2>2
  <2>4. /\ Cardinality(eligible) \in Nat
        /\ Cardinality(eligible) + Cardinality(excluded) = Cardinality(all)
    <3>0. IsFiniteSet(1..Len(records))
      BY <2>1, FS_Interval
    <3>1. IsFiniteSet(all)
      BY <2>1, <3>0
    <3> HIDE DEF all, answers, eligible, excluded
    <3>2. QED
      BY <2>3, <3>1, PartAndRest
  <2>5. Cardinality(all) = Len(records)
    BY <2>1, FS_Interval
  <2>6. /\ EligibleCount(records) = Cardinality(eligible)
        /\ ExcludedCount(records) = Cardinality(excluded)
        /\ Number(records, LAMBDA e : ~e.abstained) = Cardinality(answers)
    BY DEF EligibleCount, ExcludedCount, SemanticCount, Number
  <2>7. Len(Metrics) = 3
    BY DEF Metrics
  <2> HIDE DEF all, answers, eligible, excluded
  <2>8. Cardinality(answers) * 3 = 3 * Cardinality(answers)
    BY <2>3, <2>4
  <2>9. QED
    BY <2>3, <2>4, <2>5, <2>6, <2>7, <2>8 DEF MeansCoverAnswers, InvocationCount
<1>2. QED
  BY <1>1, GateInvariant, PTL

(***************************************************************************)
(* Keys of numbers, compared at the first place where they differ.         *)
(***************************************************************************)
Numbers(n) == [1..n -> Int]

LEMMA FirstDifference ==
  ASSUME NEW n \in Nat, NEW k \in Numbers(n), NEW l \in Numbers(n),
         \E i \in 1..n : k[i] # l[i]
  PROVE  \E i \in 1..n : k[i] # l[i] /\ \A j \in 1..(i - 1) : k[j] = l[j]
<1> DEFINE bad == {i \in 1..n : k[i] # l[i]}
<1>1. PICK i \in bad : \A j \in bad : i <= j
  <2>1. bad \in SUBSET Nat /\ bad # {}
    OBVIOUS
  <2> HIDE DEF bad
  <2>2. QED
    BY <2>1, LeastNumber
<1>2. \A j \in 1..(i - 1) : j \in 1..n /\ ~(i <= j)
  BY <1>1
<1>3. QED
  BY <1>1, <1>2

LEMMA PrecedesIs ==
  ASSUME NEW n \in Nat, NEW k \in Numbers(n), NEW l \in Numbers(n)
  PROVE  Precedes(k, l) <=> \E i \in 1..n : k[i] < l[i] /\ \A j \in 1..(i - 1) : k[j] = l[j]
BY DEF Precedes, Numbers

LEMMA PrecedesIsStrict ==
  ASSUME NEW n \in Nat, NEW k \in Numbers(n), NEW l \in Numbers(n), Precedes(k, l)
  PROVE  ~Precedes(l, k) /\ k # l
<1>1. PICK i \in 1..n : k[i] < l[i] /\ \A j \in 1..(i - 1) : k[j] = l[j]
  BY PrecedesIs
<1>2. k[i] \in Int /\ l[i] \in Int /\ i \in Nat
  BY DEF Numbers
<1>3. ASSUME NEW m \in 1..n, l[m] < k[m], \A j \in 1..(m - 1) : l[j] = k[j] PROVE FALSE
  <2>1. l[m] \in Int /\ k[m] \in Int /\ m \in Nat
    BY DEF Numbers
  <2>2. CASE m < i
    <3>1. m \in 1..(i - 1)
      BY <1>2, <2>2
    <3>2. QED
      BY <1>1, <1>3, <2>1, <3>1
  <2>3. CASE i < m
    <3>1. i \in 1..(m - 1)
      BY <2>1, <2>3
    <3>2. QED
      BY <1>1, <1>2, <1>3, <3>1
  <2>4. CASE i = m
    BY <1>1, <1>2, <1>3, <2>4
  <2>5. QED
    BY <1>2, <2>1, <2>2, <2>3, <2>4
<1>4. QED
  BY <1>1, <1>2, <1>3, PrecedesIs

LEMMA PrecedesIsTotal ==
  ASSUME NEW n \in Nat, NEW k \in Numbers(n), NEW l \in Numbers(n),
         \E i \in 1..n : k[i] # l[i]
  PROVE  Precedes(k, l) \/ Precedes(l, k)
<1>1. PICK i \in 1..n : k[i] # l[i] /\ \A j \in 1..(i - 1) : k[j] = l[j]
  BY FirstDifference
<1>2. k[i] < l[i] \/ l[i] < k[i]
  BY <1>1 DEF Numbers
<1>3. CASE k[i] < l[i]
  BY <1>1, <1>3, PrecedesIs
<1>4. CASE l[i] < k[i]
  <2>1. \A j \in 1..(i - 1) : l[j] = k[j]
    BY <1>1
  <2>2. Precedes(l, k)
    BY <1>4, <2>1, PrecedesIs
  <2>3. QED
    BY <2>2
<1>5. QED
  BY <1>2, <1>3, <1>4

LEMMA PrecedesIsTransitive ==
  ASSUME NEW n \in Nat, NEW k \in Numbers(n), NEW l \in Numbers(n), NEW m \in Numbers(n),
         Precedes(k, l), Precedes(l, m)
  PROVE  Precedes(k, m)
<1>1. PICK i \in 1..n : k[i] < l[i] /\ \A j \in 1..(i - 1) : k[j] = l[j]
  BY PrecedesIs
<1>2. PICK h \in 1..n : l[h] < m[h] /\ \A j \in 1..(h - 1) : l[j] = m[j]
  BY PrecedesIs
<1>3. \A j \in 1..n : k[j] \in Int /\ l[j] \in Int /\ m[j] \in Int
  BY DEF Numbers
<1>4. CASE i <= h
  <2>1. k[i] < m[i]
    <3>1. CASE i = h
      BY <1>1, <1>2, <1>3, <3>1
    <3>2. CASE i # h
      <4>1. i \in 1..(h - 1)
        BY <1>4, <3>2
      <4>2. QED
        BY <1>1, <1>2, <1>3, <4>1
    <3>3. QED
      BY <3>1, <3>2
  <2>2. \A j \in 1..(i - 1) : k[j] = m[j]
    <3> TAKE j \in 1..(i - 1)
    <3>1. j \in 1..(h - 1)
      BY <1>4
    <3>2. QED
      BY <1>1, <1>2, <3>1
  <2>3. QED
    BY <2>1, <2>2, PrecedesIs
<1>5. CASE h < i
  <2>1. k[h] < m[h]
    <3>1. h \in 1..(i - 1)
      BY <1>5
    <3>2. QED
      BY <1>1, <1>2, <1>3, <3>1
  <2>2. \A j \in 1..(h - 1) : k[j] = m[j]
    <3> TAKE j \in 1..(h - 1)
    <3>1. j \in 1..(i - 1)
      BY <1>5
    <3>2. QED
      BY <1>1, <1>2, <3>1
  <2>3. QED
    BY <2>1, <2>2, PrecedesIs
<1>6. QED
  BY <1>4, <1>5

\* Keys by which no two members of a set are alike.
AreKeys(key, n) ==
  /\ n \in Nat /\ key \in [DOMAIN key -> Numbers(n)]
  /\ \A p, q \in DOMAIN key : p # q => \E i \in 1..n : key[p][i] # key[q][i]

Before(key, p) == {q \in DOMAIN key : Precedes(key[q], key[p])}

LEMMA KeysAreOrder ==
  ASSUME NEW key, NEW n, AreKeys(key, n)
  PROVE  /\ \A p \in DOMAIN key : ~Precedes(key[p], key[p])
         /\ \A p, q \in DOMAIN key :
              /\ Precedes(key[p], key[q]) => ~Precedes(key[q], key[p])
              /\ p # q => Precedes(key[p], key[q]) \/ Precedes(key[q], key[p])
         /\ \A p, q, r \in DOMAIN key :
              Precedes(key[p], key[q]) /\ Precedes(key[q], key[r]) => Precedes(key[p], key[r])
<1>1. n \in Nat /\ \A p \in DOMAIN key : key[p] \in Numbers(n)
  BY DEF AreKeys
<1>2. \A p, q \in DOMAIN key : p # q => \E i \in 1..n : key[p][i] # key[q][i]
  BY DEF AreKeys
<1>3. \A p, q \in DOMAIN key : p # q => Precedes(key[p], key[q]) \/ Precedes(key[q], key[p])
  BY <1>1, <1>2, PrecedesIsTotal
<1>4. \A p, q \in DOMAIN key : Precedes(key[p], key[q]) => ~Precedes(key[q], key[p])
  BY <1>1, PrecedesIsStrict
<1>5. \A p, q, r \in DOMAIN key :
        Precedes(key[p], key[q]) /\ Precedes(key[q], key[r]) => Precedes(key[p], key[r])
  BY <1>1, PrecedesIsTransitive
<1>6. QED
  BY <1>3, <1>4, <1>5

\* By finitely many keys, each place is one member's: the number of those before it.
LEMMA PlacesAreTaken ==
  ASSUME NEW key, NEW n, AreKeys(key, n), IsFiniteSet(DOMAIN key)
  PROVE  /\ Cardinality(DOMAIN key) \in Nat
         /\ \A m \in 1..Cardinality(DOMAIN key) :
              \E p \in DOMAIN key : Cardinality(Before(key, p)) = m - 1
<1> DEFINE S == DOMAIN key
           k == Cardinality(S)
           pos == [p \in S |-> Cardinality(Before(key, p))]
<1>1. k \in Nat
  BY FS_CardinalityType
<1>2. \A p \in S : IsFiniteSet(Before(key, p)) /\ Cardinality(Before(key, p)) \in Nat
  BY FS_Subset, FS_CardinalityType DEF Before
<1>3. ASSUME NEW p \in S, NEW q \in S, Precedes(key[p], key[q]) PROVE pos[p] < pos[q]
  <2>1. Before(key, p) \subseteq Before(key, q) /\ p \in Before(key, q) /\ p \notin Before(key, p)
    BY <1>3, KeysAreOrder DEF Before
  <2>2. /\ Cardinality(Before(key, p)) <= Cardinality(Before(key, q))
        /\ Cardinality(Before(key, p)) # Cardinality(Before(key, q))
    BY <1>2, <2>1, FS_Subset
  <2>3. QED
    BY <1>2, <2>2
<1>4. ASSUME NEW p \in S PROVE pos[p] \in 0..(k - 1)
  <2>1. Before(key, p) \subseteq S /\ Before(key, p) # S
    BY KeysAreOrder DEF Before
  <2>2. Cardinality(Before(key, p)) <= k /\ Cardinality(Before(key, p)) # k
    BY <2>1, FS_Subset
  <2>3. QED
    BY <1>1, <1>2, <2>2
<1> HIDE DEF pos
<1>5. ASSUME NEW p \in S, NEW q \in S, pos[p] = pos[q] PROVE p = q
  <2>1. ~(pos[p] < pos[q]) /\ ~(pos[q] < pos[p])
    BY <1>1, <1>4, <1>5
  <2>2. ~Precedes(key[p], key[q]) /\ ~Precedes(key[q], key[p])
    BY <1>3, <2>1
  <2>3. QED
    BY <2>2, KeysAreOrder
<1>6. pos \in Injection(S, 0..(k - 1))
  <2>1. pos \in [S -> 0..(k - 1)]
    BY <1>4 DEF pos
  <2>2. QED
    BY <1>5, <2>1 DEF Injection, IsInjective
<1>7. IsFiniteSet(0..(k - 1)) /\ Cardinality(0..(k - 1)) = k
  BY <1>1, FS_Interval
<1>8. pos \in Surjection(S, 0..(k - 1))
  BY <1>6, <1>7, FS_Injection
<1>9. \A m \in 1..k : \E p \in S : pos[p] = m - 1
  BY <1>1, <1>8 DEF Surjection
<1>10. QED
  BY <1>1, <1>9 DEF pos

\* There is one preferred member, in front of all others.
IsPreferred(key, p) == p \in DOMAIN key /\ \A q \in DOMAIN key \ {p} : Precedes(key[p], key[q])

LEMMA PreferredIs ==
  ASSUME NEW key, NEW n, AreKeys(key, n), IsFiniteSet(DOMAIN key), DOMAIN key # {}
  PROVE  /\ IsPreferred(key, Preferred(key))
         /\ \A p : IsPreferred(key, p) => p = Preferred(key)
<1>1. Cardinality(DOMAIN key) \in Nat /\ Cardinality(DOMAIN key) # 0
  BY FS_CardinalityType, FS_EmptySet
<1>2. 1 \in 1..Cardinality(DOMAIN key)
  BY <1>1
<1>3. PICK p \in DOMAIN key : Cardinality(Before(key, p)) = 0
  BY <1>2, PlacesAreTaken
<1>4. Before(key, p) = {}
  <2>1. IsFiniteSet(Before(key, p))
    BY FS_Subset DEF Before
  <2>2. QED
    BY <1>3, <2>1, FS_EmptySet
<1>5. IsPreferred(key, p)
  BY <1>4, KeysAreOrder DEF IsPreferred, Before
<1>6. \E q \in DOMAIN key : \A r \in DOMAIN key \ {q} : Precedes(key[q], key[r])
  BY <1>5 DEF IsPreferred
<1>7. IsPreferred(key, Preferred(key))
  BY <1>6 DEF IsPreferred, Preferred
<1>8. ASSUME NEW q, IsPreferred(key, q) PROVE q = Preferred(key)
  BY <1>7, <1>8, KeysAreOrder DEF IsPreferred
<1>9. QED
  BY <1>7, <1>8

(***************************************************************************)
(* The metrics of outcomes over rows.                                      *)
(***************************************************************************)
Below(n) == UNION {{r} \X (1..n[r]) : r \in DOMAIN n}

LEMMA TotalIsNat ==
  ASSUME NEW R, IsFiniteSet(R), NEW n \in [R -> Nat]
  PROVE  IsFiniteSet(Below(n)) /\ Total(n) \in Nat /\ Total(n) = Cardinality(Below(n))
<1> DEFINE pairs == [r \in R |-> {r} \X (1..n[r])]
           T == {{r} \X (1..n[r]) : r \in R}
<1>1. pairs \in Surjection(R, T)
  BY DEF Surjection
<1>2. IsFiniteSet(T)
  <2> HIDE DEF pairs, T
  <2>1. QED
    BY <1>1, FS_Surjection
<1>3. ASSUME NEW r \in R PROVE IsFiniteSet({r} \X (1..n[r]))
  <2>1. n[r] \in Nat
    OBVIOUS
  <2>2. IsFiniteSet(1..n[r])
    BY <2>1, FS_Interval
  <2>3. IsFiniteSet({r})
    BY FS_Singleton
  <2>4. QED
    BY <2>2, <2>3, FS_Product
<1>4. \A t \in T : IsFiniteSet(t)
  BY <1>3
<1>5. IsFiniteSet(UNION T)
  <2> HIDE DEF T
  <2>1. QED
    BY <1>2, <1>4, FS_UNION
<1>6. DOMAIN n = R
  OBVIOUS
<1>7. Below(n) = UNION T
  BY <1>6 DEF Below
<1>8. Total(n) = Cardinality(Below(n))
  BY DEF Total, Below
<1>9. QED
  BY <1>5, <1>7, <1>8, FS_CardinalityType

LEMMA OutcomeIs ==
  ASSUME NEW o \in Outcomes
  PROVE  /\ o.rank \in Nat /\ o.places \in Nat \ {0} /\ o.wrong \in Nat
         /\ Hit(o) => o.rank \in 1..TopK
BY SelectionAssumption DEF Hit

LEMMA QuotientIsNat ==
  ASSUME NEW x \in Nat, NEW d \in Nat \ {0}
  PROVE  x \div d \in Nat
OBVIOUS

Reciprocal(o) == IF Hit(o) THEN Scale \div o.rank ELSE 0

LEMMA ReciprocalIsNat ==
  ASSUME NEW o \in Outcomes
  PROVE  Reciprocal(o) \in Nat
<1>1. CASE Hit(o)
  <2>1. Scale \in Nat /\ o.rank \in Nat \ {0}
    BY <1>1, OutcomeIs, SelectionAssumption
  <2>2. Scale \div o.rank \in Nat
    BY <2>1, QuotientIsNat
  <2>3. QED
    BY <1>1, <2>2 DEF Reciprocal
<1>2. CASE ~Hit(o)
  BY <1>2 DEF Reciprocal
<1>3. QED
  BY <1>1, <1>2

OutcomesOf == [Rows -> Outcomes]

LEMMA MetricsAreNat ==
  ASSUME NEW f \in OutcomesOf, NEW R \in SUBSET Rows
  PROVE  /\ IsFiniteSet(R)
         /\ Recall(R) \in Nat /\ Hits(f, R) \in Nat /\ WrongFirst(f, R) \in Nat
         /\ Wrong(f, R) \in Nat /\ Reciprocals(f, R) \in Nat
         /\ R # {} => Places(f, R) \in Nat \ {0}
<1>1. IsFiniteSet(R)
  BY SelectionAssumption, FS_Subset
<1>2. Recall(R) \in Nat /\ Hits(f, R) \in Nat /\ WrongFirst(f, R) \in Nat
  <2>1. \A S \in SUBSET R : Cardinality(S) \in Nat
    BY <1>1, FS_Subset, FS_CardinalityType
  <2>2. QED
    BY <2>1 DEF Recall, Hits, WrongFirst
<1>3. \A r \in R : f[r] \in Outcomes
  BY DEF OutcomesOf
<1>4. Wrong(f, R) \in Nat
  <2>1. [r \in R |-> f[r].wrong] \in [R -> Nat]
    BY <1>3, OutcomeIs
  <2>2. QED
    BY <1>1, <2>1, TotalIsNat DEF Wrong
<1>5. Reciprocals(f, R) \in Nat
  <2>1. [r \in R |-> Reciprocal(f[r])] \in [R -> Nat]
    BY <1>3, ReciprocalIsNat
  <2>2. Reciprocals(f, R) = Total([r \in R |-> Reciprocal(f[r])])
    BY DEF Reciprocals, Reciprocal
  <2>3. QED
    BY <1>1, <2>1, <2>2, TotalIsNat
<1>6. ASSUME R # {} PROVE Places(f, R) \in Nat \ {0}
  <2> DEFINE n == [r \in R |-> f[r].places]
  <2>1. n \in [R -> Nat] /\ \A r \in R : 1 \in 1..n[r]
    BY <1>3, OutcomeIs
  <2>2. Places(f, R) = Total(n) /\ DOMAIN n = R
    BY DEF Places
  <2> HIDE DEF n
  <2>3. /\ IsFiniteSet(Below(n)) /\ Total(n) \in Nat /\ Total(n) = Cardinality(Below(n))
    BY <1>1, <2>1, TotalIsNat
  <2>4. PICK r \in R : TRUE
    BY <1>6
  <2>5. <<r, 1>> \in {r} \X (1..n[r])
    BY <2>1
  <2>6. Below(n) # {}
    BY <2>2, <2>5 DEF Below
  <2>7. Total(n) # 0
    BY <2>3, <2>6, FS_EmptySet
  <2>8. QED
    BY <2>2, <2>3, <2>7
<1>7. QED
  BY <1>1, <1>2, <1>4, <1>5, <1>6

(***************************************************************************)
(* The winners of folds.                                                   *)
(***************************************************************************)
LEMMA ProfilesAre ==
  /\ IsFiniteSet(Profiles) /\ Profiles # {} /\ \A p \in Profiles : p \in Nat
  /\ \A p \in Profiles : NameRank[p] \in Nat
  /\ \A p, q \in Profiles : p # q => NameRank[p] # NameRank[q]
BY SelectionAssumption DEF IsInjective

LEMMA FoldKeyIs ==
  ASSUME NEW f \in OutcomesOf, NEW R \in SUBSET Rows, R # {}, NEW p \in Profiles
  PROVE  FoldKey(f, p, R) \in Numbers(7) /\ FoldKey(f, p, R)[7] = NameRank[p]
<1> DEFINE c1 == -Recall(R)
           c2 == -Hits(f, R)
           c3 == (Wrong(f, R) * Scale) \div Places(f, R)
           c4 == WrongFirst(f, R)
           c5 == -Reciprocals(f, R)
           c7 == NameRank[p]
<1>1. /\ Recall(R) \in Nat /\ Hits(f, R) \in Nat /\ WrongFirst(f, R) \in Nat
      /\ Wrong(f, R) \in Nat /\ Reciprocals(f, R) \in Nat /\ Places(f, R) \in Nat \ {0}
  BY MetricsAreNat
<1>2. p \in Nat /\ NameRank[p] \in Nat /\ Scale \in Nat
  BY ProfilesAre, SelectionAssumption
<1>3. c3 \in Nat
  <2>1. Wrong(f, R) * Scale \in Nat
    BY <1>1, <1>2
  <2>2. QED
    BY <1>1, <2>1, QuotientIsNat
<1>4. FoldKey(f, p, R) = <<c1, c2, c3, c4, c5, p, c7>>
  BY DEF FoldKey
<1>5. c1 \in Int /\ c2 \in Int /\ c4 \in Int /\ c5 \in Int /\ p \in Int /\ c7 \in Int
  BY <1>1, <1>2
<1> HIDE DEF c1, c2, c3, c4, c5, c7
<1>6. c3 \in Int
  BY <1>3
<1>7. <<c1, c2, c3, c4, c5, p, c7>> \in [1..7 -> Int]
  BY <1>5, <1>6
<1>8. QED
  BY <1>4, <1>7 DEF Numbers, c7

\* Every fold has a winner.
LEMMA FoldWinnerIs ==
  ASSUME table \in [Profiles -> OutcomesOf], NEW n \in DOMAIN Folds
  PROVE  FoldWinner(n) \in Profiles
<1> DEFINE R == Training(n)
           key == [p \in Profiles |-> FoldKey(table[p], p, R)]
<1>1. R \in SUBSET Rows /\ R # {}
  <2>1. Folds[n] # Rows /\ Folds[n] \subseteq Rows
    BY SelectionAssumption
  <2>2. QED
    BY <2>1 DEF Training
<1>2. FoldWinner(n) = Preferred(key)
  BY DEF FoldWinner
<1> HIDE DEF R
<1>3. \A p \in Profiles : key[p] \in Numbers(7) /\ key[p][7] = NameRank[p]
  BY <1>1, FoldKeyIs
<1>4. DOMAIN key = Profiles /\ key = [p \in Profiles |-> key[p]]
  OBVIOUS
<1> HIDE DEF key
<1>5. key \in [Profiles -> Numbers(7)]
  BY <1>3, <1>4
<1>6. 7 \in 1..7 /\ 7 \in Nat
  OBVIOUS
<1>7. \A p, q \in Profiles : p # q => key[p][7] # key[q][7]
  BY <1>3, ProfilesAre
<1>8. AreKeys(key, 7)
  BY <1>4, <1>5, <1>6, <1>7 DEF AreKeys
<1>9. IsPreferred(key, Preferred(key))
  BY <1>4, <1>8, ProfilesAre, PreferredIs
<1>10. QED
  BY <1>2, <1>4, <1>9 DEF IsPreferred

(***************************************************************************)
(* The consensus of the folds, and the gates.                              *)
(***************************************************************************)
LEMMA VotesAre ==
  ASSUME NEW ws \in Seq(Profiles), NEW p, NEW c
  PROVE  /\ Votes(ws, p) \in Nat /\ Votes(ws, c) \in Nat
         /\ p # c => Votes(ws, p) + Votes(ws, c) <= Len(ws)
<1> DEFINE A == {n \in DOMAIN ws : ws[n] = p}
           B == {n \in DOMAIN ws : ws[n] = c}
<1>1. Len(ws) \in Nat /\ DOMAIN ws = 1..Len(ws)
  OBVIOUS
<1>2. IsFiniteSet(1..Len(ws)) /\ Cardinality(1..Len(ws)) = Len(ws)
  BY <1>1, FS_Interval
<1>3. A \subseteq 1..Len(ws) /\ B \subseteq 1..Len(ws) /\ (p # c => A \cap B = {})
  BY <1>1
<1>4. Votes(ws, p) = Cardinality(A) /\ Votes(ws, c) = Cardinality(B)
  BY DEF Votes
<1> HIDE DEF A, B
<1>5. /\ IsFiniteSet(A) /\ Cardinality(A) \in Nat /\ IsFiniteSet(B) /\ Cardinality(B) \in Nat
  BY <1>2, <1>3, FS_Subset, FS_CardinalityType
<1>6. ASSUME p # c PROVE Cardinality(A) + Cardinality(B) <= Len(ws)
  <2>1. Cardinality(A \cup B) = Cardinality(A) + Cardinality(B) - Cardinality(A \cap B)
    BY <1>5, FS_Union
  <2>2. Cardinality(A \cap B) = 0
    BY <1>3, <1>6, FS_EmptySet
  <2>3. Cardinality(A \cup B) <= Len(ws)
    BY <1>2, <1>3, FS_Subset
  <2>4. QED
    BY <1>5, <2>1, <2>2, <2>3
<1>7. QED
  BY <1>4, <1>5, <1>6

\* The consensus is one of the winners.
LEMMA ConsensusIs ==
  ASSUME NEW ws \in Seq(Profiles), ws # <<>>
  PROVE  Consensus(ws) \in Range(ws) /\ Consensus(ws) \in Profiles
<1> DEFINE key == [p \in Range(ws) |-> <<-Votes(ws, p), NameRank[p]>>]
<1>1. Range(ws) \in SUBSET Profiles /\ Range(ws) # {} /\ IsFiniteSet(Range(ws))
  <2>1. Range(ws) \in SUBSET Profiles
    BY DEF Range
  <2>2. 1 \in DOMAIN ws
    OBVIOUS
  <2>3. Range(ws) # {}
    BY <2>2 DEF Range
  <2>4. QED
    BY <2>1, <2>3, ProfilesAre, FS_Subset
<1>2. ASSUME NEW p \in Range(ws)
      PROVE  key[p] \in Numbers(2) /\ key[p][2] = NameRank[p]
  <2>1. Votes(ws, p) \in Nat /\ NameRank[p] \in Nat
    BY <1>1, VotesAre, ProfilesAre
  <2> DEFINE a == -Votes(ws, p)
             b == NameRank[p]
  <2>2. a \in Int /\ b \in Int
    BY <2>1
  <2>3. key[p] = <<a, b>>
    OBVIOUS
  <2> HIDE DEF a, b, key
  <2>4. <<a, b>> \in [1..2 -> Int]
    BY <2>2
  <2>5. QED
    BY <2>3, <2>4 DEF Numbers, b
<1>3. DOMAIN key = Range(ws)
  OBVIOUS
<1>4. Consensus(ws) = Preferred(key)
  BY DEF Consensus
<1>5. key = [p \in Range(ws) |-> key[p]]
  OBVIOUS
<1> HIDE DEF key
<1>6. key \in [Range(ws) -> Numbers(2)]
  BY <1>2, <1>5
<1>7. 2 \in 1..2 /\ 2 \in Nat
  OBVIOUS
<1>8. \A p, q \in Range(ws) : p # q => key[p][2] # key[q][2]
  BY <1>1, <1>2, ProfilesAre
<1>9. AreKeys(key, 2)
  BY <1>3, <1>6, <1>7, <1>8 DEF AreKeys
<1>10. IsPreferred(key, Preferred(key))
  BY <1>1, <1>3, <1>9, PreferredIs
<1>11. QED
  BY <1>1, <1>3, <1>4, <1>10 DEF IsPreferred

\* Outcomes that pass the gates find every row in its budget, with no wrong
\* document first.
LEMMA QualityMeans ==
  ASSUME NEW f, Quality(f)
  PROVE  /\ \A r \in Rows : pool[r].found /\ pool[r].size <= MaxCandidates /\ ~f[r].wrongFirst
         /\ Stable(winners)
<1> DEFINE F == {r \in Rows : pool[r].found}
           W == {r \in Rows : f[r].wrongFirst}
<1>1. F \subseteq Rows /\ W \subseteq Rows /\ IsFiniteSet(Rows)
  BY SelectionAssumption
<1>2. Cardinality(F) = Cardinality(Rows) /\ Cardinality(W) = 0
  BY DEF Quality, Recall, WrongFirst
<1>3. F = Rows
  <2> HIDE DEF F
  <2>1. QED
    BY <1>1, <1>2, FS_Subset
<1>4. W = {}
  <2> HIDE DEF W
  <2>1. IsFiniteSet(W)
    BY <1>1, FS_Subset
  <2>2. QED
    BY <1>2, <2>1, FS_EmptySet
<1>5. Stable(winners) /\ \A r \in Rows : pool[r].size <= MaxCandidates
  BY DEF Quality
<1>6. QED
  BY <1>3, <1>4, <1>5

LEMMA FoldsAre == Len(Folds) \in Nat \ {0}
<1>1. Folds \in Seq(SUBSET Rows) /\ UNION Range(Folds) = Rows /\ RequiredRow \in Rows
  BY SelectionAssumption
<1>2. PICK R \in Range(Folds) : RequiredRow \in R
  BY <1>1
<1>3. PICK n \in DOMAIN Folds : TRUE
  BY <1>2 DEF Range
<1>4. QED
  BY <1>1, <1>3

\* More than half of the folds is more than any other profile has.
LEMMA StableBeatsAll ==
  ASSUME NEW ws \in Seq(Profiles), Len(ws) = Len(Folds), Stable(ws),
         NEW p, p # Consensus(ws)
  PROVE  Votes(ws, p) < Votes(ws, Consensus(ws))
<1> DEFINE c == Consensus(ws)
<1>1. /\ Votes(ws, p) \in Nat /\ Votes(ws, c) \in Nat
      /\ Votes(ws, p) + Votes(ws, c) <= Len(ws)
  BY VotesAre
<1>2. Votes(ws, c) >= StableVotes
  BY DEF Stable
<1>3. StableVotes \in Nat /\ 2 * StableVotes > Len(Folds)
  BY SelectionAssumption
<1> HIDE DEF c
<1>4. Votes(ws, p) < Votes(ws, c)
  BY <1>1, <1>2, <1>3, FoldsAre
<1>5. QED
  BY <1>4 DEF c

(***************************************************************************)
(* ProfileSelection.  The inductive invariant: a replay that has got past  *)
(* the checks of its snapshot judges the rows that were searched, and what *)
(* it chooses passes the gates on the votes of all folds.                  *)
(***************************************************************************)
Replaying == {"folds", "list", "relation", "write"}

SelectionTypes ==
  /\ winners \in Seq(Profiles)
  /\ stage \in {"idle", "read", "end"} \cup Replaying
  /\ stage \notin Replaying => winners = <<>> /\ choice = Unreleased

SnapshotNamesItsRows == snapshot # NoSnapshot => snapshot.searched = snapshot.sha256

ReplayIsOfItsRows ==
  stage \in Replaying =>
    /\ scored.searched = read /\ RowsOf[read] = Rows
    /\ table \in [Profiles -> OutcomesOf]
    /\ \A n \in DOMAIN winners : winners[n] = FoldWinner(n)
    /\ stage # "folds" => Len(winners) = Len(Folds)

ChoiceIsGood == choice # Unreleased => stage = "write" /\ Quality(choice.outcomes)

SelectionInv ==
  SelectionTypes /\ SnapshotNamesItsRows /\ ReplayIsOfItsRows /\ ChoiceIsGood /\ ReleaseIsEarned

LEMMA SelectionStart == SelectionInit => SelectionInv
BY DEF SelectionInit, SelectionInv, SelectionTypes, SnapshotNamesItsRows, ReplayIsOfItsRows,
       ChoiceIsGood, ReleaseIsEarned, Replaying

\* What a replay has is not disturbed by the files.
LEMMA ReplayIsApart ==
  ASSUME SelectionInv, SnapshotNamesItsRows', UNCHANGED replayVars
  PROVE  SelectionInv'
<1>1. /\ stage' = stage /\ read' = read /\ scored' = scored /\ pool' = pool /\ table' = table
      /\ winners' = winners /\ choice' = choice /\ report' = report
  BY DEF replayVars
<1>2. SelectionTypes' /\ ReleaseIsEarned'
  BY <1>1 DEF SelectionInv, SelectionTypes, ReleaseIsEarned
<1>3. ReplayIsOfItsRows'
  BY <1>1 DEF SelectionInv, ReplayIsOfItsRows, FoldWinner, FoldKey, Recall
<1>4. ChoiceIsGood'
  BY <1>1 DEF SelectionInv, ChoiceIsGood, Quality, Recall
<1>5. QED
  BY <1>2, <1>3, <1>4 DEF SelectionInv

\* Judging outcomes keeps the invariant once all folds have a winner.
LEMMA JudgeKeeps ==
  ASSUME SelectionInv, stage \in Replaying, Len(winners) = Len(Folds), choice = Unreleased,
         NEW variant, NEW f, NEW next \in Replaying, next # "folds", Judge(variant, f, next)
  PROVE  SelectionInv'
<1>1. /\ snapshot' = snapshot /\ read' = read /\ scored' = scored /\ pool' = pool
      /\ table' = table /\ winners' = winners /\ report' = report
  BY DEF Judge, snapshotVars
<1>2. stage' \in Replaying /\ stage' # "folds"
  BY DEF Judge, Replaying
<1>3. SelectionTypes' /\ SnapshotNamesItsRows' /\ ReleaseIsEarned'
  BY <1>1, <1>2 DEF SelectionInv, SelectionTypes, SnapshotNamesItsRows, ReleaseIsEarned
<1>4. ReplayIsOfItsRows'
  BY <1>1, <1>2 DEF SelectionInv, ReplayIsOfItsRows, FoldWinner, FoldKey, Recall
<1>5. ChoiceIsGood'
  <2>1. \A g : Quality(g)' <=> Quality(g)
    BY <1>1 DEF Quality, Recall
  <2>2. CASE Quality(f)
    <3>1. choice' = [variant |-> variant, outcomes |-> f] /\ stage' = "write"
      BY <2>2 DEF Judge
    <3>2. choice'.outcomes = f
      BY <3>1
    <3>3. Quality(f)'
      BY <2>1, <2>2
    <3>4. QED
      BY <3>1, <3>2, <3>3 DEF ChoiceIsGood
  <2>3. CASE ~Quality(f)
    <3>1. choice' = Unreleased
      BY <2>3 DEF Judge
    <3>2. QED
      BY <3>1 DEF ChoiceIsGood
  <2>4. QED
    BY <2>2, <2>3
<1>6. QED
  BY <1>3, <1>4, <1>5 DEF SelectionInv

\* The end of a replay leaves the invariant of what is written.
LEMMA EndKeeps ==
  ASSUME SelectionInv, NEW s \in {"idle", "end"}, EndsAt(s), ReleaseIsEarned'
  PROVE  SelectionInv'
<1>1. stage' = s /\ winners' = <<>> /\ choice' = Unreleased /\ snapshot' = snapshot
  BY DEF EndsAt, snapshotVars
<1>2. SelectionTypes' /\ ReplayIsOfItsRows' /\ ChoiceIsGood'
  BY <1>1 DEF SelectionTypes, ReplayIsOfItsRows, ChoiceIsGood, Replaying
<1>3. SnapshotNamesItsRows'
  BY <1>1 DEF SelectionInv, SnapshotNamesItsRows
<1>4. QED
  BY <1>2, <1>3 DEF SelectionInv

LEMMA SelectionStep ==
  ASSUME SelectionInv, [SelectionNext]_selectionVars
  PROVE  SelectionInv'
<1>1. /\ SelectionTypes /\ SnapshotNamesItsRows /\ ReplayIsOfItsRows /\ ChoiceIsGood
      /\ ReleaseIsEarned
  BY DEF SelectionInv
<1>2. CASE FreezeAgain \/ SearchRows \/ SearchFails
  <2>1. snapshot' = snapshot /\ UNCHANGED replayVars
    BY <1>2 DEF FreezeAgain, SearchRows, SearchFails
  <2>2. SnapshotNamesItsRows'
    BY <1>1, <2>1 DEF SnapshotNamesItsRows
  <2>3. QED
    BY <2>1, <2>2, ReplayIsApart
<1>3. CASE WriteSnapshot
  <2>1. snapshot' = [searched |-> searching, sha256 |-> searching] /\ UNCHANGED replayVars
    BY <1>3 DEF WriteSnapshot
  <2>2. SnapshotNamesItsRows'
    BY <2>1 DEF SnapshotNamesItsRows
  <2>3. QED
    BY <2>1, <2>2, ReplayIsApart
<1>4. CASE ReadCalibration
  <2>1. /\ stage = "idle" /\ stage' = "read" /\ snapshot' = snapshot /\ winners' = winners
        /\ choice' = choice /\ report' = report
    BY <1>4 DEF ReadCalibration, snapshotVars
  <2>2. SelectionTypes' /\ ReplayIsOfItsRows' /\ ChoiceIsGood'
    BY <1>1, <2>1 DEF SelectionTypes, ReplayIsOfItsRows, ChoiceIsGood, Replaying
  <2>3. SnapshotNamesItsRows' /\ ReleaseIsEarned'
    BY <1>1, <2>1 DEF SnapshotNamesItsRows, ReleaseIsEarned
  <2>4. QED
    BY <2>2, <2>3 DEF SelectionInv
<1>5. CASE ReplaySnapshot
  <2>1. /\ stage = "read" /\ snapshot # NoSnapshot /\ snapshot.sha256 = read
        /\ RowsOf[read] = Rows /\ scored' = snapshot /\ stage' = "folds"
        /\ table' \in [Profiles -> Replays(pool')]
        /\ snapshot' = snapshot /\ read' = read /\ winners' = winners
        /\ choice' = choice /\ report' = report
    BY <1>5 DEF ReplaySnapshot, Accepts, snapshotVars
  <2>2. winners = <<>> /\ choice = Unreleased
    BY <1>1, <2>1 DEF SelectionTypes, Replaying
  <2>3. scored'.searched = read'
    BY <1>1, <2>1 DEF SnapshotNamesItsRows
  <2>4. table' \in [Profiles -> OutcomesOf]
    BY <2>1 DEF Replays, OutcomesOf
  <2>5. ReplayIsOfItsRows'
    BY <2>1, <2>2, <2>3, <2>4 DEF ReplayIsOfItsRows
  <2>6. SelectionTypes' /\ ChoiceIsGood'
    BY <1>1, <2>1, <2>2 DEF SelectionTypes, ChoiceIsGood, Replaying
  <2>7. SnapshotNamesItsRows' /\ ReleaseIsEarned'
    BY <1>1, <2>1 DEF SnapshotNamesItsRows, ReleaseIsEarned
  <2>8. QED
    BY <2>5, <2>6, <2>7 DEF SelectionInv
<1>6. CASE EvaluateFold
  <2> DEFINE m == Len(winners) + 1
             w == FoldWinner(m)
  <2>1. /\ stage = "folds" /\ Len(winners) < Len(Folds) /\ winners' = Append(winners, w)
        /\ stage' = stage /\ snapshot' = snapshot /\ read' = read /\ scored' = scored
        /\ pool' = pool /\ table' = table /\ choice' = choice /\ report' = report
    BY <1>6 DEF EvaluateFold, snapshotVars
  <2>2. /\ scored.searched = read /\ RowsOf[read] = Rows
        /\ table \in [Profiles -> OutcomesOf] /\ winners \in Seq(Profiles)
        /\ \A n \in DOMAIN winners : winners[n] = FoldWinner(n)
    BY <1>1, <2>1 DEF SelectionTypes, ReplayIsOfItsRows, Replaying
  <2>3. m \in DOMAIN Folds
    <3>1. Folds \in Seq(SUBSET Rows) /\ Len(winners) \in Nat
      BY <2>2, SelectionAssumption
    <3>2. QED
      BY <2>1, <3>1
  <2>4. w \in Profiles
    BY <2>2, <2>3, FoldWinnerIs
  <2>5. \A n \in DOMAIN winners' : winners'[n] = FoldWinner(n)
    <3> TAKE n \in DOMAIN winners'
    <3>1. n \in DOMAIN winners \/ n = m
      BY <2>1, <2>2
    <3>2. n \in DOMAIN winners => winners'[n] = winners[n]
      BY <2>1, <2>2
    <3>3. n = m => winners'[n] = w
      BY <2>1, <2>2
    <3>4. QED
      BY <2>2, <3>1, <3>2, <3>3
  <2>6. winners' \in Seq(Profiles)
    BY <2>1, <2>2, <2>4
  <2> HIDE DEF w, m
  <2>7. \A n : FoldWinner(n)' = FoldWinner(n)
    BY <2>1 DEF FoldWinner, FoldKey, Recall
  <2>8. ReplayIsOfItsRows'
    BY <2>1, <2>2, <2>5, <2>7 DEF ReplayIsOfItsRows
  <2>9. SelectionTypes' /\ ChoiceIsGood'
    BY <1>1, <2>1, <2>6 DEF SelectionTypes, ChoiceIsGood, Replaying
  <2>10. SnapshotNamesItsRows' /\ ReleaseIsEarned'
    BY <1>1, <2>1 DEF SnapshotNamesItsRows, ReleaseIsEarned
  <2>11. QED
    BY <2>8, <2>9, <2>10 DEF SelectionInv
<1>7. CASE JudgeConsensus
  <2>1. /\ stage = "folds" /\ Len(winners) = Len(Folds)
        /\ Judge("base", table[Consensus(winners)], "list")
    BY <1>7 DEF JudgeConsensus
  <2>2. stage \in Replaying /\ "list" \in Replaying /\ "list" # "folds" /\ choice = Unreleased
    BY <1>1, <2>1 DEF ChoiceIsGood, Replaying
  <2>3. QED
    BY <2>1, <2>2, JudgeKeeps
<1>8. CASE TryFallback
  <2> DEFINE next == IF stage = "list" THEN "relation" ELSE "write"
  <2>1. stage \in {"list", "relation"} /\ \E f : Judge(stage, f, next)
    BY <1>8 DEF TryFallback
  <2>2. PICK f : Judge(stage, f, next)
    BY <2>1
  <2>3. next \in Replaying /\ next # "folds"
    BY DEF Replaying
  <2> HIDE DEF next
  <2>4. stage \in Replaying /\ Len(winners) = Len(Folds) /\ choice = Unreleased
    BY <1>1, <2>1 DEF ReplayIsOfItsRows, ChoiceIsGood, Replaying
  <2>5. QED
    BY <2>2, <2>3, <2>4, JudgeKeeps
<1>9. CASE WriteReport
  <2>1. stage = "write" /\ EndsAt("end")
    BY <1>9 DEF WriteReport
  <2>2. ReleaseIsEarned'
    <3>1. CASE choice = Unreleased
      <4>1. report' = Unreleased
        BY <1>9, <3>1 DEF WriteReport
      <4>2. QED
        BY <4>1 DEF ReleaseIsEarned
    <3>2. CASE choice # Unreleased
      <4>1. report' = [variant |-> choice.variant, profile |-> Consensus(winners),
                       outcomes |-> choice.outcomes, pool |-> pool, folds |-> winners,
                       searched |-> scored.searched, calibration |-> read]
        BY <1>9, <3>2 DEF WriteReport
      <4>2. /\ report'.profile = Consensus(winners) /\ report'.outcomes = choice.outcomes
            /\ report'.pool = pool /\ report'.folds = winners
            /\ report'.searched = scored.searched /\ report'.calibration = read
        BY <4>1
      <4>3. /\ scored.searched = read /\ RowsOf[read] = Rows
            /\ winners \in Seq(Profiles) /\ Len(winners) = Len(Folds)
            /\ Quality(choice.outcomes)
        BY <1>1, <2>1, <3>2 DEF SelectionTypes, ReplayIsOfItsRows, ChoiceIsGood, Replaying
      <4>4. /\ \A r \in Rows : /\ pool[r].found /\ pool[r].size <= MaxCandidates
                               /\ ~choice.outcomes[r].wrongFirst
            /\ Stable(winners)
        BY <4>3, QualityMeans
      <4>5. \A p \in Profiles \ {Consensus(winners)} :
              Votes(winners, p) < Votes(winners, Consensus(winners))
        BY <4>3, <4>4, StableBeatsAll
      <4>6. QED
        BY <4>2, <4>3, <4>4, <4>5 DEF ReleaseIsEarned, Votes
    <3>3. QED
      BY <3>1, <3>2
  <2>3. QED
    BY <2>1, <2>2, EndKeeps
<1>10. CASE ReplayFails
  <2>1. EndsAt("idle") /\ report' = report
    BY <1>10 DEF ReplayFails
  <2>2. ReleaseIsEarned'
    BY <1>1, <2>1 DEF ReleaseIsEarned
  <2>3. QED
    BY <2>1, <2>2, EndKeeps
<1>11. CASE UNCHANGED selectionVars
  <2>1. snapshot' = snapshot /\ UNCHANGED replayVars
    BY <1>11 DEF selectionVars, snapshotVars
  <2>2. SnapshotNamesItsRows'
    BY <1>1, <2>1 DEF SnapshotNamesItsRows
  <2>3. QED
    BY <2>1, <2>2, ReplayIsApart
<1>12. QED
  BY <1>2, <1>3, <1>4, <1>5, <1>6, <1>7, <1>8, <1>9, <1>10, <1>11 DEF SelectionNext

\* Whatever happens to the calibration file and the snapshot, a replay past its checks
\* judges the rows that were searched, and its winners are those of the folds.
THEOREM SelectionInvariant == SelectionSpec => []SelectionInv
BY SelectionStart, SelectionStep, PTL DEF SelectionSpec

LEMMA SelectionInvIsEarned == SelectionInv => ReleaseIsEarned
BY DEF SelectionInv

\* A released profile was searched and judged on the same rows, those of the folds, and
\* has more folds than any other (calibrate_phase7_role_prior.py:68-171).
THEOREM ReleaseAlwaysEarned == SelectionSpec => []ReleaseIsEarned
BY SelectionInvariant, SelectionInvIsEarned, PTL
=============================================================================
