----------------------------- MODULE MCPolicies -----------------------------
(***************************************************************************)
(* The computations on a ranking that share no state: how it comes about   *)
(* (RankPolicies) and how its texts share the context of the prompt        *)
(* (ContextAllocation).  A behaviour is one of either; the other stays put. *)
(*                                                                         *)
(* Chunks 1, 2 and 3 are of the installation manual, of which 1 and 2 have *)
(* the same text, and 4 and 5 of the programming manual, of which 4 has    *)
(* that text too.  Contents go from nothing to more than the context, and  *)
(* some allocations cannot hold the marker.                                *)
(***************************************************************************)
EXTENDS RankPolicies, ContextAllocation

MCDocOf   == <<"inst", "inst", "inst", "prog", "prog">>
MCRoleOf  == [inst |-> "installation", prog |-> "programming"]
MCContent == <<"t1", "t1", "t2", "t1", "t3">>
One       == <<1, 1>>
Quarter5  == <<5, 4>>
Tenth11   == <<11, 10>>
Half      == <<1, 2>>

AllocIdle ==
  /\ phase = "idle"
  /\ headers = <<>> /\ desired = <<>> /\ limit = 0 /\ allocations = <<>>
  /\ active = {} /\ pending = {} /\ completed = {}
  /\ share = 0 /\ remaining = 0 /\ rendered = <<>>

RankIdle ==
  /\ stage = "idle"
  /\ dense = <<>> /\ sparse = <<>> /\ queryRole = "neutral"
  /\ pool = <<>> /\ judged = <<>> /\ preferred = <<>> /\ ranking = <<>>
  /\ score = [c \in Chunks |-> Zero]

Init == (RankInit /\ AllocIdle) \/ (AllocInit /\ RankIdle)

Next == (RankNext /\ UNCHANGED allocVars) \/ (AllocNext /\ UNCHANGED rankVars)

Spec == Init /\ [][Next]_<<rankVars, allocVars>>
=============================================================================
