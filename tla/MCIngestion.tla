---------------------------- MODULE MCIngestion ----------------------------
(* A manual of four pages that repeats a text on a page, between pages and *)
(* without a page, one whose pages are blank, and a document without pages *)
(* numbers.                                                                *)
EXTENDS Ingestion

CONSTANTS a, a2, b, none

Located(t)   == [text |-> t, located |-> TRUE]
Unlocated(t) == [text |-> t, located |-> FALSE]

MCManuals ==
  {[kind |-> "pdf", headingPage |-> 2,
    pages |-> <<<<Located(a), Located(a2)>>, <<Unlocated(b), Located(none)>>,
                <<Unlocated(b), Located(a)>>, <<Unlocated(b)>>>>],
   [kind |-> "pdf", headingPage |-> 0, pages |-> <<<<Located(none)>>, <<Unlocated(a)>>>>],
   [kind |-> "docx", headingPage |-> 1, pages |-> <<<<Unlocated(a), Unlocated(b), Unlocated(a)>>>>]}

MCCanonical == [t \in {a, a2, b} |-> IF t = a2 THEN a ELSE t]
=============================================================================
