------------------------------- MODULE Logins -------------------------------
(***************************************************************************)
(* What login, refresh and logout promise a user together, one atomic      *)
(* operation at a time: no token pairs, no sessions, no stale rows.  A     *)
(* login stays open however often its tokens are rotated, until the user   *)
(* logs it out, and never opens again.  AuthSessions implements it for     *)
(* users whose requests do not overlap.                                    *)
(***************************************************************************)
EXTENDS Integers

CONSTANTS
    Users,        \* registered users
    Ids,          \* what a login can be told from another by
    MaxAttempts,  \* MAX_FAILED_LOGIN_ATTEMPTS
    LockTime,     \* LOCK_MINUTES, in clock ticks
    Null          \* no lock

VARIABLES
    failures,     \* failed logins of a user since the last that succeeded
    locked,       \* until when a user is locked out
    open,         \* the logins of a user that are still good
    used,         \* every login there ever was
    now           \* the clock

vars == <<failures, locked, open, used, now>>

Init ==
    /\ failures = [u \in Users |-> 0]
    /\ locked = [u \in Users |-> Null]
    /\ open = [u \in Users |-> {}]
    /\ used = {}
    /\ now = 0

LockedOut(u) == locked[u] # Null /\ locked[u] > now

Fail(u) ==
    /\ ~LockedOut(u)
    /\ failures' = [failures EXCEPT ![u] = @ + 1]
    /\ locked' = [locked EXCEPT ![u] =
          IF failures[u] + 1 >= MaxAttempts THEN now + LockTime ELSE @]
    /\ UNCHANGED <<open, used, now>>

Login(u, login) ==
    /\ ~LockedOut(u)
    /\ login \notin used
    /\ failures' = [failures EXCEPT ![u] = 0]
    /\ locked' = [locked EXCEPT ![u] = Null]
    /\ open' = [open EXCEPT ![u] = @ \union {login}]
    /\ used' = used \union {login}
    /\ UNCHANGED now

Logout(u, logins) ==
    /\ logins = open[u] \/ \E login \in open[u] : logins = {login}
    /\ open' = [open EXCEPT ![u] = @ \ logins]
    /\ UNCHANGED <<failures, locked, used, now>>

Tick ==
    /\ now' = now + 1
    /\ UNCHANGED <<failures, locked, open, used>>

Next ==
    \/ \E u \in Users :
          \/ Fail(u)
          \/ \E login \in Ids : Login(u, login)
          \/ \E logins \in SUBSET open[u] : Logout(u, logins)
    \/ Tick

Spec == Init /\ [][Next]_vars
=============================================================================
