----------------------------- MODULE Ingestion -----------------------------
(***************************************************************************)
(* The ingestion command (ingest_preview.py): it converts a manual in      *)
(* batches of pages, turns what Docling returns into chunks with stable    *)
(* identifiers, and replaces the chunk file that the indexing command      *)
(* reads.                                                                  *)
(*                                                                         *)
(* A manual is [kind, pages, headingPage]: the sequence of what is on each *)
(* page, and the page that carries the heading.  What is on a page is a    *)
(* sequence of [text, located]; an item that is not located has no page    *)
(* number in Docling's provenance.  A digest is the value it is taken of.  *)
(***************************************************************************)
EXTENDS Naturals, Sequences, FiniteSets

CONSTANTS
  Manuals,
  Canonical,   \* text -> its normalized form; texts may share one
  Blank,       \* the text that is empty once stripped
  BatchSizes,  \* values of --batch-size
  MaxRuns      \* commands started

NoRange == <<0, 0>>
NoBatch == 0

ASSUME IngestionAssumption ==
  /\ \A m \in Manuals :
       /\ m.kind \in {"pdf", "docx"} /\ m.headingPage \in 0..Len(m.pages)
       /\ m.pages \in Seq(Seq([text : DOMAIN Canonical \cup {Blank}, located : BOOLEAN]))
  /\ BatchSizes \subseteq Nat \ {0} /\ MaxRuns \in Nat

VARIABLES
  stage,    \* "idle", "convert", "write"
  manual,   \* the input of the command
  options,  \* [range, batch]: the command line
  ranges,   \* conversions still to be made
  raws,     \* chunks of the last conversion still to be normalized
  chunks,   \* normalized chunks so far
  counts,   \* occurrences of each canonical key so far
  lines,    \* lines of the temporary file
  output,   \* the chunk file: [manual, range, chunks], or NoFile
  runs

ingestVars == <<stage, manual, options, ranges, raws, chunks, counts, lines, output, runs>>

NoFile == [chunks |-> <<>>]

IngestInit ==
  /\ stage = "idle" /\ manual \in Manuals
  /\ options = [range |-> NoRange, batch |-> NoBatch]
  /\ ranges = <<>> /\ raws = <<>> /\ chunks = <<>> /\ counts = <<>> /\ lines = <<>>
  /\ output = NoFile /\ runs = 0

(***************************************************************************)
(* Page batches and chunk identity                                         *)
(***************************************************************************)
Least(x, y) == IF x < y THEN x ELSE y

Wanted(m, o) == IF o.range = NoRange THEN <<1, Len(m.pages)>> ELSE o.range

BatchEnd_Overlaps(start, last, size) == Least(start + size, last)

BatchEnd(start, last, size) == Least(start + size - 1, last)

\* build_page_batches
Batches(first, last, size) ==
  [k \in 1..((last - first) \div size + 1) |->
     LET start == first + (k - 1) * size IN <<start, BatchEnd(start, last, size)>>]

\* _resolve_conversion_ranges: what it refuses, and what it returns.
Refused(m, o) ==
  IF m.kind # "pdf" THEN o.range # NoRange \/ o.batch # NoBatch
  ELSE LET r == Wanted(m, o) IN
       Len(m.pages) = 0 \/ r[1] < 1 \/ r[2] < r[1] \/ r[2] > Len(m.pages)

Ranges(m, o) ==
  LET r == Wanted(m, o)
  IN  IF o.batch = NoBatch THEN <<r>> ELSE Batches(r[1], r[2], o.batch)

\* Docling's chunks of a page, and of a range from its first page up to each page: a
\* heading that is not in the range is unknown.
OnPage(m, first, p) ==
  [i \in DOMAIN m.pages[p] |->
     [text |-> m.pages[p][i].text,
      pages |-> IF m.pages[p][i].located THEN {p} ELSE {},
      heading |-> m.headingPage \in first..p]]

Raw(m, range) ==
  LET upTo[p \in 0..Len(m.pages)] ==
        IF p < range[1] THEN <<>> ELSE upTo[p - 1] \o OnPage(m, range[1], p)
  IN  upTo[range[2]]

\* canonical_chunk_key
Key(raw) == [text |-> Canonical[raw.text], pages |-> raw.pages, heading |-> raw.heading]

Count(c, k) == IF k \in DOMAIN c THEN c[k] ELSE 0

\* The identifier digests the key and the number of its earlier occurrences.
ChunkId(chunk) == <<Key(chunk.raw), chunk.occurrence>>

Counted(c, k) == [x \in DOMAIN c \cup {k} |-> IF x = k THEN Count(c, k) + 1 ELSE c[x]]

(***************************************************************************)
(* The command                                                             *)
(***************************************************************************)
Fail ==
  /\ stage' = "idle"
  /\ ranges' = <<>> /\ raws' = <<>> /\ chunks' = <<>> /\ counts' = <<>> /\ lines' = <<>>

PageRanges(m) == {NoRange} \cup ((1..(Len(m.pages) + 1)) \X (1..(Len(m.pages) + 1)))

\* The command starts, on any manual, with any options.
Start ==
  /\ stage = "idle" /\ runs < MaxRuns
  /\ runs' = runs + 1
  /\ \E m \in Manuals : \E r \in PageRanges(m), b \in BatchSizes \cup {NoBatch} :
       /\ manual' = m
       /\ options' = [range |-> r, batch |-> b]
       /\ IF Refused(m, options')
          THEN Fail
          ELSE /\ ranges' = Ranges(m, options')
               /\ stage' = "convert"
               /\ UNCHANGED <<raws, chunks, counts, lines>>
  /\ UNCHANGED output

Convert_CountsAnew ==
  /\ stage = "convert" /\ raws = <<>> /\ ranges # <<>>
  /\ raws' = Raw(manual, Head(ranges)) /\ ranges' = Tail(ranges) /\ counts' = <<>>
  /\ UNCHANGED <<stage, manual, options, chunks, lines, output, runs>>

\* One batch of pages is converted.
Convert ==
  /\ stage = "convert" /\ raws = <<>> /\ ranges # <<>>
  /\ raws' = Raw(manual, Head(ranges)) /\ ranges' = Tail(ranges)
  /\ UNCHANGED <<stage, manual, options, chunks, counts, lines, output, runs>>

\* One pass of the loop in _append_normalized_chunks; blank text is skipped.
Normalize ==
  /\ stage = "convert" /\ raws # <<>>
  /\ raws' = Tail(raws)
  /\ LET raw == Head(raws) IN
     IF raw.text = Blank
     THEN UNCHANGED <<chunks, counts>>
     ELSE /\ chunks' = Append(chunks, [raw |-> raw, occurrence |-> Count(counts, Key(raw))])
          /\ counts' = Counted(counts, Key(raw))
  /\ UNCHANGED <<stage, manual, options, ranges, lines, output, runs>>

\* All is normalized: the command fails without chunks, ends without --output,
\* or begins to write.
Converted ==
  /\ stage = "convert" /\ raws = <<>> /\ ranges = <<>>
  /\ \/ Fail
     \/ chunks # <<>> /\ stage' = "write" /\ UNCHANGED <<ranges, raws, chunks, counts, lines>>
  /\ UNCHANGED <<manual, options, output, runs>>

\* write_chunks_jsonl writes a temporary file line by line, then renames it.
WriteLine ==
  /\ stage = "write" /\ Len(lines) < Len(chunks)
  /\ lines' = Append(lines, chunks[Len(lines) + 1])
  /\ UNCHANGED <<stage, manual, options, ranges, raws, chunks, counts, output, runs>>

Replace ==
  /\ stage = "write" /\ Len(lines) = Len(chunks)
  /\ output' = [manual |-> manual, range |-> Wanted(manual, options), chunks |-> lines]
  /\ Fail
  /\ UNCHANGED <<manual, options, runs>>

\* A conversion that is not a full success, a write that fails, or a process
\* that is killed: nothing but the temporary file is lost.
Interrupted ==
  /\ stage # "idle"
  /\ Fail
  /\ UNCHANGED <<manual, options, output, runs>>

IngestNext == Start \/ Convert \/ Normalize \/ Converted \/ WriteLine \/ Replace \/ Interrupted

IngestSpec == IngestInit /\ [][IngestNext]_ingestVars

(***************************************************************************)
(* Properties                                                              *)
(***************************************************************************)
\* No two chunks of a manual get one identifier, also if they have the same text,
\* heading and pages and come from two conversions: indexing would keep only one
\* point of them.
IdsAreUnique ==
  \A i, j \in DOMAIN chunks : ChunkId(chunks[i]) = ChunkId(chunks[j]) => i = j

\* The chunks with a text, of the first n that Docling returned.
Kept(all, n) == {i \in 1..n : all[i].text # Blank}

\* The chunk file is never a part of a manual: it has every text of the pages
\* asked for, in their order and once, however they were split into batches and
\* whatever was interrupted.
OutputIsWhole ==
  output # NoFile =>
    LET all == Raw(output.manual, output.range)
    IN  /\ Len(output.chunks) = Cardinality(Kept(all, Len(all)))
        /\ \A i \in Kept(all, Len(all)) :
             output.chunks[Cardinality(Kept(all, i))].raw.text = all[i].text
=============================================================================
