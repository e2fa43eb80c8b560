------------------------------ MODULE MCAudit ------------------------------
(***************************************************************************)
(* Instances of Audit for TLC.                                             *)
(***************************************************************************)
EXTENDS Audit, TLC

AuditSymmetry == Permutations(Writers) \union Permutations(Contents)
=============================================================================
