----------------------------- MODULE UnitOfWork -----------------------------
(***************************************************************************)
(* What the modules of requests share.  A request has a database session   *)
(* of its own: it reads rows without locking them, validates what it read, *)
(* and writes in one transaction at the end.  Other requests commit in     *)
(* between.  At the commit the ORM compares every column of a row it       *)
(* loaded with what the request assigned, and sends an UPDATE of those     *)
(* that differ and of no other.                                            *)
(***************************************************************************)
CONSTANTS
    Workers,   \* server threads, each with one request at a time
    Null       \* no value

\* A column is written only when the session changed it.
Written(loaded, assigned, current) ==
    IF assigned # loaded THEN assigned ELSE current
=============================================================================
