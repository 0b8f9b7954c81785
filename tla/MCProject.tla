----------------------------- MODULE MCProject -----------------------------
(***************************************************************************)
(* Small instances of ProjectLifecycle: an applicant, a reviewer who may   *)
(* apply as well, and a manager.                                           *)
(***************************************************************************)
EXTENDS ProjectLifecycle, TLC

CONSTANTS applicant, reviewer, manager

MCPermissions ==
    (applicant :> {"own", "deactivate"})
    @@ (reviewer :> {"own", "review"})
    @@ (manager :> {"manage"})

Symmetry == Permutations(Workers)
=============================================================================
