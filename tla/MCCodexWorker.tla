---------------------------- MODULE MCCodexWorker ----------------------------
(***************************************************************************)
(* An instance of CodexWorker for TLC.                                     *)
(***************************************************************************)
EXTENDS CodexWorker

CONSTANTS m1, h1, a1

OneWorkspace == {[repo |-> "r1", branch |-> "b1", path |-> "p1"]}
NoDependencies == {{}}
=============================================================================
