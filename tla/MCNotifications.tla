--------------------------- MODULE MCNotifications ---------------------------
(***************************************************************************)
(* Small instances of Notifications.  Workers are interchangeable.         *)
(***************************************************************************)
EXTENDS NotificationClaims, TLC

Symmetry == Permutations(Workers)
=============================================================================
