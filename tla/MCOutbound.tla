------------------------------ MODULE MCOutbound ------------------------------
(***************************************************************************)
(* Instances of Outbound: calls and message ids are interchangeable.       *)
(***************************************************************************)
EXTENDS Outbound, TLC

Symmetry == Permutations(Requests) \cup Permutations(MsgIds)
=============================================================================
