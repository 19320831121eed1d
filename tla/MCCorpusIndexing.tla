-------------------------- MODULE MCCorpusIndexing --------------------------
(***************************************************************************)
(* Small instances of CorpusIndexing: manuals m1 (chunks a1, a2, a3) and   *)
(* m2 (b1), a chunk x1 of a retired document, and the archives' chunk.     *)
(***************************************************************************)
EXTENDS CorpusIndexing

CONSTANTS a1, a2, a3, b1, x1, h1

MCChunks == {a1, a2, a3, b1, x1, h1}
MCDocOf  == [c \in MCChunks |-> IF c \in {a1, a2, a3} THEN "m1"
                                ELSE IF c = b1 THEN "m2"
                                ELSE IF c = x1 THEN "retired" ELSE "archived"]
MCOrder  == <<"m1", "m2">>
Old      == {a1, a2, b1}
New      == {a2, a3, b1}

MCCollections == {"dense_v1", "hybrid_v1", "archive_dense", "archive_hybrid"}
MCProtected   == {"archive_dense", "archive_hybrid"}
Live          == [dense |-> "dense_v1", hybrid |-> "hybrid_v1"]
MCTargets     == {Live, [Live EXCEPT !["hybrid"] = "archive_hybrid"],
                  [Live EXCEPT !["hybrid"] = "dense_v1"],
                  [dense |-> "hybrid_v1", hybrid |-> "dense_v1"]}
LiveTargets   == {Live}

Full(schema, C) == [schema |-> schema, keyword |-> schema = "hybrid", points |-> C,
                    sparse |-> IF schema = "hybrid" THEN C ELSE {}]
StoreWith(C) == [n \in MCCollections |->
  CASE n = "archive_dense"  -> Full("dense", {h1})
    [] n = "archive_hybrid" -> Full("hybrid", {h1})
    [] n = "dense_v1"  -> Full(IF C = {} THEN "none" ELSE "dense", C)
    [] n = "hybrid_v1" -> Full(IF C = {} THEN "none" ELSE "hybrid", C)]

MCStores   == {StoreWith({}), StoreWith(Old), StoreWith(Old \cup {x1})}
MCCorpora  == {Old, New, {a1, a2}}
NewCorpus  == {New}
=============================================================================
