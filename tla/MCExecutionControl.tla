------------------------ MODULE MCExecutionControl ------------------------
(***************************************************************************)
(* Instances of ExecutionControl for TLC.                                  *)
(***************************************************************************)
EXTENDS ExecutionControl, TLC

CONSTANTS m1, m2, h1, a1, a2, a3

Interchangeable == Permutations(Attempts)

OneWorkspace == {[repo |-> "r1", branch |-> "b1", path |-> "p1"]}

NoDependencies == {{}}

\* m1 is planned without prerequisites, or m2 waits for what m1 produces.
Requires(type, reference) ==
  {{}, {[on |-> m1, type |-> type, reference |-> reference]}}

RequiresArtifact == Requires("artifact", NoHead)
RequiresMerge    == Requires("human_merge", h1)
RequiresCommit   == Requires("commit", h1)
=============================================================================
