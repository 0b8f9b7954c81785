---------------------------- MODULE Provisioning ----------------------------
(***************************************************************************)
(* What the start of the container promises, abstractly: the API opens     *)
(* only over the rows it requires, before it opens nothing but these rows  *)
(* is added, and no row is ever taken away.                                *)
(***************************************************************************)
CONSTANT Required   \* the rows the API needs

VARIABLES
    rows,   \* what is stored
    open    \* whether the API serves

vars == <<rows, open>>

Init ==
    /\ rows = {}
    /\ open = FALSE

Provision ==
    /\ ~open
    /\ rows \subseteq rows'
    /\ rows' \subseteq rows \union Required
    /\ open' \in BOOLEAN
    /\ open' => Required \subseteq rows'

Administer ==
    /\ open
    /\ rows \subseteq rows'
    /\ UNCHANGED open

Close ==
    /\ open
    /\ open' = FALSE
    /\ UNCHANGED rows

Next == Provision \/ Administer \/ Close

Spec == Init /\ [][Next]_vars
=============================================================================
