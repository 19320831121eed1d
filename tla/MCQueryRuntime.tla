--------------------------- MODULE MCQueryRuntime ---------------------------
(***************************************************************************)
(* Small instances of QueryRuntime: two pages of ids, each of which may be *)
(* frozen, replaced by another version with as many points, or half        *)
(* replaced, with more points.                                             *)
(***************************************************************************)
EXTENDS QueryRuntime

MCPages    == <<"p1", "p2">>
MCVersions == {"frozen", "other", "mixed"}
MCPoints   == [v \in MCVersions |-> IF v = "mixed" THEN 3 ELSE 2]
FrozenStore == [s \in {"dense", "hybrid"} |-> [p \in {"p1", "p2"} |-> "frozen"]]
MCStores == {FrozenStore, [FrozenStore EXCEPT !["dense"]["p1"] = "other"],
             [FrozenStore EXCEPT !["hybrid"]["p2"] = "mixed"]}
FrozenOnly == {FrozenStore}
Symmetry   == Permutations(Requests)
=============================================================================
