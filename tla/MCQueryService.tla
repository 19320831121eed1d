--------------------------- MODULE MCQueryService ---------------------------
(***************************************************************************)
(* A small instance of QueryService: c1 and c2 repeat one content in the   *)
(* two manuals, c3 repeats it again in the first manual, c4 is content of  *)
(* its own, c5 is malformed.                                               *)
(***************************************************************************)
EXTENDS QueryService

CONSTANTS c1, c2, c3, c4, c5, d1, d2, none

MCChunks    == {c1, c2, c3, c4, c5}
MCDocs      == {d1, d2}
MCDocOf     == [c \in MCChunks |-> IF c \in {c2, c5} THEN d2 ELSE d1]
MCContentOf == [c \in MCChunks |-> IF c \in {c1, c2, c3} THEN 1 ELSE IF c = c4 THEN 2 ELSE 3]
MCRoleOf    == [d \in MCDocs |-> IF d = d1 THEN "installation" ELSE "programming"]
MCMalformed == {c5}
=============================================================================
