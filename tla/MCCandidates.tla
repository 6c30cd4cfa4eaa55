---------------------------- MODULE MCCandidates -----------------------------
(***************************************************************************)
(* Instances of Candidates: two processes, one playbook family and one or  *)
(* two flag corrections.                                                   *)
(***************************************************************************)
EXTENDS Candidates, TLC

CONSTANTS p1, p2, a1, a2

SymmetricProcs == Permutations({p1, p2})
Symmetric == SymmetricProcs \cup Permutations({a1, a2})
=============================================================================
