------------------------------- MODULE MCAuth -------------------------------
(***************************************************************************)
(* Small instances of AuthSessions.  Workers are interchangeable.          *)
(***************************************************************************)
EXTENDS AuthSessions, TLC

Symmetry == Permutations(Workers)
=============================================================================
