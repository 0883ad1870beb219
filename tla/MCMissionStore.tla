--------------------------- MODULE MCMissionStore ---------------------------
(***************************************************************************)
(* The mission foundation on three missions: the least number for a cycle  *)
(* of dependencies that is neither a self-loop nor a pair.                 *)
(***************************************************************************)
EXTENDS MissionStore

CONSTANTS m1, m2, m3

\* A plan depends on at most two missions by their artifacts: the kind of a
\* dependency and its commit play no role before execution.
MCPlans ==
  LET artifact(S) == {[on |-> n, type |-> "artifact", reference |-> NoHead] : n \in S}
  IN  {artifact({a, b}) : a, b \in Missions} \cup {{}}
=============================================================================
