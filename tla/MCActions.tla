----------------------------- MODULE MCActions -----------------------------
(***************************************************************************)
(* Instances of Actions for TLC.                                           *)
(***************************************************************************)
EXTENDS Actions, TLC

Interchangeable == Permutations(Caller)

InterchangeableMails == Permutations(Caller) \cup Permutations(Action)

\* Every action is proposed by a profile whose name a request may also give.
SameProfile == [a \in Action |-> "agent"]
=============================================================================
