---------------------------- MODULE MCOperations ----------------------------
(***************************************************************************)
(* Small instances of the two halves of the operations service, its        *)
(* configurations and its feature store.  They share no table and no       *)
(* request touches both, so a behaviour moves one of them and leaves the   *)
(* other at its first state.  Workers and keys are interchangeable: no     *)
(* action or property names one of them.                                   *)
(***************************************************************************)
EXTENDS OperationConfig, FeatureStore, TLC

VARIABLE moving   \* bound: the half that moves in this behaviour

MCOrigins == {[source |-> TRUE, run |-> TRUE], [source |-> TRUE, run |-> FALSE]}
Symmetry == Permutations(Workers) \union Permutations(ConfigKeys)

MCInit ==
    /\ moving \in {"configurations", "features"}
    /\ Init
    /\ FeatureInit
    /\ moving = "configurations" => contended = {}
    /\ moving = "features" => shared = {}

MCNext ==
    \/ moving = "configurations" /\ Next /\ UNCHANGED <<moving, featureVars>>
    \/ moving = "features" /\ FeatureNext /\ UNCHANGED <<moving, vars>>

MCSpec == MCInit /\ [][MCNext]_<<moving, vars, featureVars>>
=============================================================================
