------------------------------- MODULE MCTtlSet -------------------------------
(***************************************************************************)
(* TtlSet on small instances: the keys and the callers are interchangeable. *)
(***************************************************************************)
EXTENDS TtlSet, TLC

Symmetry == Permutations(Keys) \cup Permutations(Callers)
=============================================================================
