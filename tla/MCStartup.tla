----------------------------- MODULE MCStartup -----------------------------
(***************************************************************************)
(* A small instance of Startup: a superuser and a cashier are seeded,      *)
(* somebody registers, and a role and a permission are added and bound.    *)
(***************************************************************************)
EXTENDS Startup, TLC

CONSTANTS admin, cashier, guest, owner, till, extra, manage, sell, audit

MCDefaultUsers == <<admin, cashier>>
MCRolePermissions == (owner :> {manage, sell}) @@ (till :> {sell})
MCRoleOf == (admin :> owner) @@ (cashier :> till)
MCRequests ==
    {[table |-> "role_permission", to |-> r, items |-> items] :
        r \in {till, extra}, items \in {<<audit>>, <<sell, audit>>, <<audit, audit>>}}
    \union {[table |-> "user_role", to |-> u, items |-> items] :
        u \in {guest}, items \in {<<till, extra>>, <<extra>>}}
Symmetry == Permutations(Workers)
=============================================================================
