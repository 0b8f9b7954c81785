--------------------------- MODULE ConfigVersions ---------------------------
(***************************************************************************)
(* What create and rollback promise about a configuration key, one atomic  *)
(* operation at a time: no rows, no flags, no stale reads.  A key has the  *)
(* versions 1, 2, ... and one of them is in force, 0 before the first.  A  *)
(* create puts a new version in force.  A rollback goes back along the     *)
(* chain by one version, also to one that an earlier rollback took back:   *)
(* create, create, rollback, create, rollback leaves version 2 in force.   *)
(* OperationConfig implements it for keys whose requests do not overlap.   *)
(***************************************************************************)
EXTENDS Integers

CONSTANT ConfigKeys   \* values of config_key

VARIABLES
    newest,    \* the newest version of a key
    inForce    \* its version in force

vars == <<newest, inForce>>

Init ==
    /\ newest = [key \in ConfigKeys |-> 0]
    /\ inForce = [key \in ConfigKeys |-> 0]

Create(key) ==
    /\ newest' = [newest EXCEPT ![key] = @ + 1]
    /\ inForce' = [inForce EXCEPT ![key] = newest[key] + 1]

\* The first version has none before it.
Rollback(key) ==
    /\ inForce[key] > 1
    /\ inForce' = [inForce EXCEPT ![key] = @ - 1]
    /\ UNCHANGED newest

Next == \E key \in ConfigKeys : Create(key) \/ Rollback(key)

Spec == Init /\ [][Next]_vars
=============================================================================
