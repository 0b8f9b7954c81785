------------------------------ MODULE MCConfig ------------------------------
(***************************************************************************)
(* Small instances of OperationConfig with the claims about it.  Workers   *)
(* and keys are interchangeable: no action or property names one of them.  *)
(***************************************************************************)
EXTENDS OperationClaims, TLC

Symmetry == Permutations(Workers) \union Permutations(ConfigKeys)
=============================================================================
