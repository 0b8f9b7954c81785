----------------------------- MODULE MCCheckout -----------------------------
(***************************************************************************)
(* Small instances of CheckoutSessions.  Orders, workers and keys are      *)
(* interchangeable: no action or property names one of them.               *)
(***************************************************************************)
EXTENDS CheckoutClaims, TLC

Symmetry ==
    Permutations(Orders) \union Permutations(Workers) \union Permutations(Keys)
=============================================================================
