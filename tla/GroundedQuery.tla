---------------------------- MODULE GroundedQuery ----------------------------
(***************************************************************************)
(* What one POST /query promises, whatever the retriever and the language  *)
(* model do (docs/ARCHITECTURE.md, "Query flow"): generation is permitted  *)
(* once, by the evidence gate; the model is then called at most twice over *)
(* the same evidence; the request ends as an answer that cites a non-empty *)
(* part of that evidence, as an abstention, or as a dependency failure.    *)
(* QueryService implements this specification.                             *)
(***************************************************************************)
EXTENDS Naturals

CONSTANTS Chunks,      \* the chunks an answer may cite
          MaxAttempts  \* model calls a request may make

VARIABLES phase,       \* "gathering", "permitted" or "closed"
          allowed,     \* the chunks generation was permitted to see
          calls,       \* model calls made so far
          verdict      \* what the caller is told

gvars == <<phase, allowed, calls, verdict>>

Pending == [kind |-> "pending", citations |-> {}]

GInit ==
  /\ phase = "gathering"
  /\ allowed = {}
  /\ calls = 0
  /\ verdict = Pending

\* The evidence gate passes: a non-empty evidence set is fixed for good.
Permit ==
  /\ phase = "gathering"
  /\ phase' = "permitted"
  /\ \E E \in SUBSET Chunks : E # {} /\ allowed' = E
  /\ UNCHANGED <<calls, verdict>>

\* A model call whose outcome leaves the request open (a usable output, or an
\* invalid one with a correction attempt left).
Call ==
  /\ phase = "permitted"
  /\ calls < MaxAttempts
  /\ calls' = calls + 1
  /\ UNCHANGED <<phase, allowed, verdict>>

\* An answer: at least one call was made and only permitted chunks are cited.
Answer ==
  /\ phase = "permitted"
  /\ calls > 0
  /\ phase' = "closed"
  /\ \E C \in SUBSET allowed :
       C # {} /\ verdict' = [kind |-> "answered", citations |-> C]
  /\ UNCHANGED <<allowed, calls>>

\* An abstention, or a failure of a dependency: no citation leaves the system.
\* The model call that refused or failed is part of the step.
Decline ==
  /\ phase # "closed"
  /\ phase' = "closed"
  /\ \E k \in {"abstained", "failed"} : verdict' = [kind |-> k, citations |-> {}]
  /\ \/ calls' = calls
     \/ phase = "permitted" /\ calls < MaxAttempts /\ calls' = calls + 1
  /\ UNCHANGED allowed

GNext == Permit \/ Call \/ Answer \/ Decline

GSpec == GInit /\ [][GNext]_gvars
=============================================================================
