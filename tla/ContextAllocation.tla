------------------------ MODULE ContextAllocation ------------------------
(***************************************************************************)
(* How format_evidence shares the context of a prompt among the sources    *)
(* shown in it (generation_prompt.py).  Texts are their lengths.  A header *)
(* includes the two lines that close its block.                            *)
(***************************************************************************)
EXTENDS Integers, Sequences, FiniteSetsExt

CONSTANTS
  MaxSources,     \* at most top_k candidates are formatted
  Lengths,        \* lengths of contents
  HeaderLengths,  \* lengths of headers
  Limits,         \* values of generation_max_context_chars
  MarkerLength,   \* length of TRUNCATION_MARKER
  Separator       \* length of the blank line between two blocks

ASSUME AllocationAssumption ==
  /\ MaxSources \in Nat \ {0} /\ MarkerLength \in Nat /\ Separator \in Nat
  /\ Lengths \subseteq Nat /\ HeaderLengths \subseteq Nat /\ Limits \subseteq Nat

VARIABLES
  phase,        \* "format", "allocate", "pass", "render", "done", "refused" or "exceeded"
  headers, desired, limit,
  allocations,  \* characters given to each source
  active,       \* sources that want more
  pending,      \* sources the current pass has still to visit
  completed,    \* sources the current pass has satisfied
  share, remaining,
  rendered      \* for each source, its characters shown and those of the marker

allocVars == <<phase, headers, desired, limit, allocations, active, pending, completed,
               share, remaining, rendered>>

Sources == DOMAIN desired

\* The sum of the first n elements of a sequence, for each n.
PrefixSums(s) == LET sum[n \in 0..Len(s)] == IF n = 0 THEN 0 ELSE sum[n - 1] + s[n] IN sum

Total(s)    == PrefixSums(s)[Len(s)]
Least(x, y) == IF x < y THEN x ELSE y

\* The characters of the context that are not evidence.
Overhead == Total(headers) + Separator * (Len(headers) - 1)

AllocInit ==
  /\ phase = "format"
  /\ \E n \in 1..MaxSources :
       /\ desired \in [1..n -> Lengths]
       /\ headers \in [1..n -> HeaderLengths]
       /\ allocations = [i \in 1..n |-> 0]
  /\ limit \in Limits
  /\ active = {} /\ pending = {} /\ completed = {}
  /\ share = 0 /\ remaining = 0
  /\ rendered = <<>>

\* The limit is not positive, or the headers alone fill the context.
Refuse ==
  /\ phase = "format"
  /\ limit = 0 \/ Overhead >= limit
  /\ phase' = "refused"
  /\ UNCHANGED <<headers, desired, limit, allocations, active, pending, completed,
                 share, remaining, rendered>>

\* Every content fits: _allocate_content_chars returns the lengths.
AllocateAll ==
  /\ phase = "format" /\ Overhead < limit
  /\ Total(desired) <= limit - Overhead
  /\ allocations' = desired
  /\ phase' = "render"
  /\ UNCHANGED <<headers, desired, limit, active, pending, completed, share, remaining, rendered>>

\* Otherwise the characters left of the headers are handed out in passes.
StartPasses ==
  /\ phase = "format" /\ Overhead < limit
  /\ Total(desired) > limit - Overhead
  /\ remaining' = limit - Overhead
  /\ active' = Sources
  /\ phase' = "allocate"
  /\ UNCHANGED <<headers, desired, limit, allocations, pending, completed, share, rendered>>

EqualShare_RoundsUp == (remaining + Cardinality(active) - 1) \div Cardinality(active)

EqualShare == IF remaining < Cardinality(active) THEN 1 ELSE remaining \div Cardinality(active)

StartPass ==
  /\ phase = "allocate"
  /\ active # {} /\ remaining > 0
  /\ share' = EqualShare
  /\ pending' = active
  /\ completed' = {}
  /\ phase' = "pass"
  /\ UNCHANGED <<headers, desired, limit, allocations, active, remaining, rendered>>

\* One turn of the inner loop, which ends early when nothing remains.
Take ==
  /\ phase = "pass" /\ pending # {}
  /\ LET i    == Min(pending)
         take == Least(Least(desired[i] - allocations[i], share), remaining)
         left == remaining - take
     IN  /\ allocations' = [allocations EXCEPT ![i] = @ + take]
         /\ remaining' = left
         /\ completed' = IF allocations'[i] >= desired[i] THEN completed \cup {i} ELSE completed
         /\ pending' = IF left = 0 THEN {} ELSE pending \ {i}
  /\ UNCHANGED <<phase, headers, desired, limit, active, share, rendered>>

EndPass ==
  /\ phase = "pass" /\ pending = {}
  /\ active' = active \ completed
  /\ phase' = "allocate"
  /\ UNCHANGED <<headers, desired, limit, allocations, pending, completed, share, remaining, rendered>>

EndPasses ==
  /\ phase = "allocate"
  /\ active = {} \/ remaining = 0
  /\ phase' = "render"
  /\ UNCHANGED <<headers, desired, limit, allocations, active, pending, completed,
                 share, remaining, rendered>>

Truncated_MarkerOnTop(length, allocation) ==
  IF length <= allocation THEN [content |-> length, marker |-> 0]
  ELSE [content |-> allocation, marker |-> MarkerLength]

\* _truncate_to_allocation: the marker is paid for out of the allocation.
Truncated(length, allocation) ==
  IF length <= allocation THEN [content |-> length, marker |-> 0]
  ELSE IF allocation <= MarkerLength THEN [content |-> 0, marker |-> allocation]
  ELSE [content |-> allocation - MarkerLength, marker |-> MarkerLength]

Blocks(r) == Total([i \in DOMAIN r |-> headers[i] + r[i].content + r[i].marker])
             + Separator * (Len(r) - 1)

\* The rendered text is measured again, and refused when it exceeds the limit.
Render ==
  /\ phase = "render"
  /\ rendered' = [i \in Sources |-> Truncated(desired[i], allocations[i])]
  /\ phase' = IF Blocks(rendered') > limit THEN "exceeded" ELSE "done"
  /\ UNCHANGED <<headers, desired, limit, allocations, active, pending, completed,
                 share, remaining>>

AllocNext ==
  \/ Refuse \/ AllocateAll \/ StartPasses
  \/ StartPass \/ Take \/ EndPass \/ EndPasses \/ Render

AllocSpec == AllocInit /\ [][AllocNext]_allocVars

(***************************************************************************)
(* Properties                                                              *)
(***************************************************************************)
\* The limit is kept and nothing of it is wasted: the last check of
\* format_evidence ("exceeded its configured context limit",
\* generation_prompt.py:71) never fails, and a text is cut only when the
\* context is full to its last character.
ContextIsFilled ==
  /\ phase # "exceeded"
  /\ phase = "done" =>
       Blocks(rendered) = Least(limit, Overhead + Total(desired))

\* The context is shared evenly: a source that is cut has got at least what any
\* other source has, up to one character, and the odd characters go to the
\* sources of the better ranks.
CutsAreEven ==
  phase = "done" =>
    \A i, j \in Sources :
      allocations[i] < desired[i] =>
        /\ allocations[j] <= allocations[i] + 1
        /\ allocations[j] = allocations[i] + 1 => j < i
=============================================================================
