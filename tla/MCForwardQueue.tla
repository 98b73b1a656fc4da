--------------------------- MODULE MCForwardQueue ---------------------------
(***************************************************************************)
(* Instances of ForwardQueue for TLC.  Handlers, tasks and ids are told    *)
(* apart by nothing but equality, so safety runs may permute them.         *)
(***************************************************************************)
EXTENDS ForwardQueue, TLC

Symmetry == Permutations(Ids) \cup Permutations(Handlers) \cup Permutations(Tasks)
=============================================================================
