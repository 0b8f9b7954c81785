-------------------------- MODULE OperationClaims --------------------------
(***************************************************************************)
(* What the documentation says of configurations, where OperationConfig    *)
(* shows that the code does not keep it.                                   *)
(***************************************************************************)
EXTENDS OperationConfig

\* questions.md answers that a rollback always restores the immediate previous
\* active version, so a version that was taken back is never in force again, at
\* least while the requests about its key follow one another.  But
\* create_operation_config chains a new version to the highest one, and after a
\* rollback that is the version taken back, not the active one.
TakenBackForGood ==
    \A i \in DOMAIN config :
        config[i].key \notin shared /\ config[i].rolled_back =>
            i \notin Highest(Active(config[i].key))
=============================================================================
