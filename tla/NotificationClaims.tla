------------------------- MODULE NotificationClaims -------------------------
(***************************************************************************)
(* What the documentation says of notifications, where Notifications shows *)
(* that the code does not keep it.                                         *)
(***************************************************************************)
EXTENDS Notifications

\* The design limits a recipient to one notification per event and object in
\* ten minutes, whoever triggers it and however closely together: nothing
\* else about the subject is delivered before the window that a notification
\* opened has passed.  trigger_notification looks for a recent notification
\* before the transaction that inserts one, and nothing in the schema refuses
\* the second.
OncePerWindow == \A n \in DOMAIN notification : Burst(n) \subseteq {n}
=============================================================================
