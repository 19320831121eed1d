------------------------- MODULE DocumentReplacement -------------------------
(***************************************************************************)
(* What re-indexing promises the readers of the collections: a document is *)
(* replaced by adding chunks of its new version, in any number of steps,   *)
(* and only when the new version is completely visible is everything else  *)
(* of that document removed, at once.  A replacement may be abandoned      *)
(* anywhere.  CorpusIndexing implements this specification for the dense   *)
(* and for the hybrid collection.                                          *)
(***************************************************************************)
CONSTANTS Chunks, Collections, Documents, DocOf, Writers,
          NoGoal       \* a writer that is replacing nothing

VARIABLES visible,     \* collection -> the chunks a search of it can return
          goal         \* writer -> the document it replaces, where, by what

rvars == <<visible, goal>>

Goals == [in : Collections, doc : Documents, chunks : SUBSET Chunks]

RInit ==
  /\ visible \in [Collections -> SUBSET Chunks]
  /\ goal = [w \in Writers |-> NoGoal]

\* Writer w leaves the collection g.in with the chunks S and keeps its goal or
\* gives it up.
Leave(w, S) ==
  /\ visible' = [visible EXCEPT ![goal[w].in] = S]
  /\ goal' \in {goal, [goal EXCEPT ![w] = NoGoal]}

Begin(w) == \E g \in Goals :
  /\ \A c \in g.chunks : DocOf[c] = g.doc
  /\ goal' = [goal EXCEPT ![w] = g]
  /\ UNCHANGED visible

Add(w) ==
  /\ goal[w] # NoGoal
  /\ \E A \in SUBSET goal[w].chunks : Leave(w, visible[goal[w].in] \cup A)

Trim(w) ==
  /\ goal[w] # NoGoal
  /\ goal[w].chunks \subseteq visible[goal[w].in]
  /\ Leave(w, {c \in visible[goal[w].in] : DocOf[c] = goal[w].doc => c \in goal[w].chunks})
  /\ goal'[w] = NoGoal

Abandon(w) == goal' = [goal EXCEPT ![w] = NoGoal] /\ UNCHANGED visible

RNext == \E w \in Writers : Begin(w) \/ Add(w) \/ Trim(w) \/ Abandon(w)

RSpec == RInit /\ [][RNext]_rvars
=============================================================================
