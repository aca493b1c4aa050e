---------------------------- MODULE MCAuditChain ----------------------------
(***************************************************************************)
(* Finite instances of AuditChain for TLC: two or three buckets of two     *)
(* time units, a grace and a transaction lifetime of one unit.             *)
(***************************************************************************)
EXTENDS AuditChain, TLC

Symmetry == Permutations(Papers) \cup Permutations(Workers)
=============================================================================
