---------------------------- MODULE AuthSessions ----------------------------
(***************************************************************************)
(* Logins with their lockout, and the session tokens they lead to:         *)
(* refresh rotates a token pair, logout revokes one pair or all of them.   *)
(* As in UnitOfWork a request reads rows without locks and writes          *)
(* the columns it changed in one transaction at the end.                   *)
(*                                                                         *)
(* Tokens are the rows of session_tokens; what a client holds is the       *)
(* position of its row.  Passwords are abstracted to the outcome of        *)
(* verify_password, so change_password changes nothing here: it leaves     *)
(* the sessions of the user as they are.                                   *)
(***************************************************************************)
EXTENDS Integers, Sequences, UnitOfWork

CONSTANTS
    Users,        \* registered users
    MaxAttempts,  \* MAX_FAILED_LOGIN_ATTEMPTS
    LockTime,     \* LOCK_MINUTES, in clock ticks
    AccessTime,   \* access_token_minutes, in clock ticks
    RefreshTime,  \* refresh_token_minutes, in clock ticks
    MaxClock,     \* bound: the clock stops here
    MaxTokens,    \* bound: no more token pairs are stored
    MaxFailures   \* bound: no more failures of a user are recorded

ASSUME AuthAssumption ==
    /\ MaxAttempts \in Nat \ {0}
    /\ LockTime \in Nat \ {0}
    /\ AccessTime \in Nat
    /\ RefreshTime \in Nat
    /\ MaxTokens \in Nat
    /\ Null \notin Nat

VARIABLES
    contended,  \* the users who may have several requests in flight, fixed
    account,    \* users: the columns of the lockout
    token,      \* session_tokens, by id
    session,    \* what a worker has loaded and is about to do
    now,        \* utcnow()
    \* the audit log
    failed,     \* entries "auth.login.failed" of a user
    recent,     \* those after its last "auth.login.success"
    signed_out  \* the last token id when the user last logged out everywhere

vars == <<contended, account, token, session, now, failed, recent, signed_out>>

Account == [attempts : Nat, locked : Nat \union {Null}]

\* login is the first token of a chain of rotations, parent the token it
\* replaced, 0 for the first.  The table does not store them; the audit log
\* names the parent.
Token == [user : Users, login : Nat, parent : Nat, access : Nat, refresh : Nat,
          revoked : BOOLEAN]

\* row is the users row a login has loaded, id the token a refresh replaces,
\* ids the tokens a logout has found, at the time new expiries start from: the
\* code reads the clock once for the check and once, a few lines on, for the
\* expiry, and the two readings are one here.
Idle == [step |-> "idle"]
Session ==
    {Idle}
    \union [step : {"login"}, user : Users, row : Account, at : Nat]
    \union [step : {"login_failed"}, user : Users, row : Account]
    \union [step : {"refresh"}, user : Users, id : Nat, at : Nat]
    \union [step : {"logout"}, user : Users]
    \union [step : {"logout_one", "logout_all"}, user : Users, ids : SUBSET Nat]

Init ==
    /\ contended \in SUBSET Users
    /\ account = [u \in Users |-> [attempts |-> 0, locked |-> Null]]
    /\ token = <<>>
    /\ session = [w \in Workers |-> Idle]
    /\ now = 0
    /\ failed = [u \in Users |-> 0]
    /\ recent = [u \in Users |-> 0]
    /\ signed_out = [u \in Users |-> 0]

-----------------------------------------------------------------------------
\* Sessions of the database

\* The environment: only a contended user has two requests in flight.  The
\* code does not enforce it.
CanStart(w, u) ==
    /\ session[w] = Idle
    /\ \/ u \in contended
       \/ \A v \in Workers \ {w} : session[v] # Idle => session[v].user # u

Load(w, request) ==
    /\ CanStart(w, request.user)
    /\ session' = [session EXCEPT ![w] = request]
    /\ UNCHANGED <<contended, account, token, now, failed, recent, signed_out>>

Finish(w) == session' = [session EXCEPT ![w] = Idle]

Revoke(ids) ==
    [i \in DOMAIN token |-> IF i \in ids THEN [token[i] EXCEPT !.revoked = TRUE] ELSE token[i]]

Issued(u, login, parent, at) ==
    [user |-> u, login |-> login, parent |-> parent,
     access |-> at + AccessTime, refresh |-> at + RefreshTime, revoked |-> FALSE]

Live(u) == {i \in DOMAIN token : token[i].user = u /\ ~token[i].revoked}

-----------------------------------------------------------------------------
\* Login

Locked(row, time) == row.locked # Null /\ row.locked > time

\* Whether the password is right decides which of the two steps follows.
Attempt(u, right) ==
    IF right THEN [step |-> "login", user |-> u, row |-> account[u], at |-> now]
    ELSE [step |-> "login_failed", user |-> u, row |-> account[u]]

\* Mutant: the lock is not looked at.
LoginLoadLocked(w, u, right) == Load(w, Attempt(u, right))

LoginLoad(w, u, right) ==
    /\ ~Locked(account[u], now)
    /\ Load(w, Attempt(u, right))

\* Mutant: the failure at hand is counted twice.
LockNeededEarly(attempts) == attempts + 1 >= MaxAttempts

LockNeeded(attempts) == attempts >= MaxAttempts

LoginFailed(w) ==
    LET s == session[w]
        attempts == s.row.attempts + 1
        locked == IF LockNeeded(attempts) THEN now + LockTime ELSE s.row.locked
    IN  /\ s.step = "login_failed"
        /\ failed[s.user] < MaxFailures
        /\ account' = [account EXCEPT ![s.user] =
              [attempts |-> Written(s.row.attempts, attempts, @.attempts),
               locked |-> Written(s.row.locked, locked, @.locked)]]
        /\ failed' = [failed EXCEPT ![s.user] = @ + 1]
        /\ recent' = [recent EXCEPT ![s.user] = @ + 1]
        /\ Finish(w)
        /\ UNCHANGED <<contended, token, now, signed_out>>

\* Mutant: a login lifts the lock and keeps the count.
LoginSucceededKeepsCount(w) ==
    LET s == session[w]
    IN  /\ s.step = "login"
        /\ Len(token) < MaxTokens
        /\ account' = [account EXCEPT ![s.user].locked = Written(s.row.locked, Null, @)]
        /\ token' = Append(token, Issued(s.user, Len(token) + 1, 0, s.at))
        /\ recent' = [recent EXCEPT ![s.user] = 0]
        /\ Finish(w)
        /\ UNCHANGED <<contended, now, failed, signed_out>>

LoginSucceeded(w) ==
    LET s == session[w]
    IN  /\ s.step = "login"
        /\ Len(token) < MaxTokens
        /\ account' = [account EXCEPT ![s.user] =
              [attempts |-> Written(s.row.attempts, 0, @.attempts),
               locked |-> Written(s.row.locked, Null, @.locked)]]
        /\ token' = Append(token, Issued(s.user, Len(token) + 1, 0, s.at))
        /\ recent' = [recent EXCEPT ![s.user] = 0]
        /\ Finish(w)
        /\ UNCHANGED <<contended, now, failed, signed_out>>

-----------------------------------------------------------------------------
\* Refresh and logout

\* Mutant: a token that was rotated or revoked is accepted.
RefreshLoadRevoked(w, i) ==
    /\ i \in DOMAIN token
    /\ token[i].refresh > now
    /\ Load(w, [step |-> "refresh", user |-> token[i].user, id |-> i, at |-> now])

RefreshLoad(w, i) ==
    /\ i \in DOMAIN token
    /\ ~token[i].revoked
    /\ token[i].refresh > now
    /\ Load(w, [step |-> "refresh", user |-> token[i].user, id |-> i, at |-> now])

\* Mutant: the token that was presented stays valid.
RefreshCommitKeepsOld(w) ==
    LET s == session[w]
    IN  /\ s.step = "refresh"
        /\ Len(token) < MaxTokens
        /\ token' = Append(token, Issued(s.user, token[s.id].login, s.id, s.at))
        /\ Finish(w)
        /\ UNCHANGED <<contended, account, now, failed, recent, signed_out>>

RefreshCommit(w) ==
    LET s == session[w]
    IN  /\ s.step = "refresh"
        /\ Len(token) < MaxTokens
        /\ token' = Append(Revoke({s.id}), Issued(s.user, token[s.id].login, s.id, s.at))
        /\ Finish(w)
        /\ UNCHANGED <<contended, account, now, failed, recent, signed_out>>

\* An access token is good until its expiry has passed: get_current_user reads
\* it before logout reads the tokens it is going to revoke.
LogoutLoad(w, i) ==
    /\ i \in DOMAIN token
    /\ ~token[i].revoked
    /\ now <= token[i].access
    /\ Load(w, [step |-> "logout", user |-> token[i].user])

Selected(w, step, ids) ==
    /\ session' = [session EXCEPT ![w] = [step |-> step, user |-> @.user, ids |-> ids]]
    /\ UNCHANGED <<contended, account, token, now, failed, recent, signed_out>>

\* Mutant: logging out everywhere skips the pairs whose access token expired.
LogoutSelectUnexpired(w) ==
    LET u == session[w].user
    IN  /\ session[w].step = "logout"
        /\ \/ \E i \in Live(u) : Selected(w, "logout_one", {i})
           \/ Selected(w, "logout_all", {i \in Live(u) : now <= token[i].access})

\* With a refresh token of its own the user revokes that pair, without one all
\* of them.  Any other refresh token changes nothing.
LogoutSelect(w) ==
    LET u == session[w].user
    IN  /\ session[w].step = "logout"
        /\ \/ \E i \in Live(u) : Selected(w, "logout_one", {i})
           \/ Selected(w, "logout_all", Live(u))

LogoutCommit(w) ==
    LET s == session[w]
    IN  /\ s.step \in {"logout_one", "logout_all"}
        /\ token' = Revoke(s.ids)
        /\ signed_out' =
              IF s.step = "logout_all" THEN [signed_out EXCEPT ![s.user] = Len(token)]
              ELSE signed_out
        /\ Finish(w)
        /\ UNCHANGED <<contended, account, now, failed, recent>>

\* The worker dies or its transaction fails before the commit.
Abort(w) ==
    /\ session[w] # Idle
    /\ Finish(w)
    /\ UNCHANGED <<contended, account, token, now, failed, recent, signed_out>>

Tick ==
    /\ now < MaxClock
    /\ now' = now + 1
    /\ UNCHANGED <<contended, account, token, session, failed, recent, signed_out>>

Next ==
    \/ \E w \in Workers :
          \/ \E u \in Users, right \in BOOLEAN : LoginLoad(w, u, right)
          \/ \E i \in 1..MaxTokens : RefreshLoad(w, i) \/ LogoutLoad(w, i)
          \/ LoginFailed(w)
          \/ LoginSucceeded(w)
          \/ RefreshCommit(w)
          \/ LogoutSelect(w)
          \/ LogoutCommit(w)
          \/ Abort(w)
    \/ Tick

Spec == Init /\ [][Next]_vars

-----------------------------------------------------------------------------
\* Properties

\* The type of the tables and of the sessions.
TypeOK ==
    /\ contended \subseteq Users
    /\ account \in [Users -> Account]
    /\ token \in Seq(Token)
    /\ session \in [Workers -> Session]
    /\ now \in Nat
    /\ failed \in [Users -> Nat]
    /\ recent \in [Users -> Nat]
    /\ signed_out \in [Users -> Nat]

\* However requests interleave, a token that has been rotated is dead, its
\* successor belongs to the same user and login, and it was made while the
\* refresh token was still good: chains of rotations end by themselves.
Lineage ==
    \A i \in DOMAIN token :
        LET new == token[i]
            old == token[new.parent]
        IN  new.parent # 0 =>
                /\ new.parent < i
                /\ old.user = new.user
                /\ old.login = new.login
                /\ old.revoked
                /\ new.refresh - RefreshTime < old.refresh

\* Nobody is locked out without MaxAttempts failures in the audit log, also
\* when counts that overlapping requests read were stale.
LockedForCause ==
    \A u \in Users : account[u].locked # Null => failed[u] >= MaxAttempts

\* A user with one request at a time has one live token pair per login: a
\* refresh token works once, and a pair that was logged out never again.
OneLivePerLogin ==
    \A u \in Users \ contended :
        \A i, j \in Live(u) : token[i].login = token[j].login => i = j

\* The counter of a user with one request at a time is the number of failures
\* since the last login, and enough of them leave a lock behind.
FailuresCounted ==
    \A u \in Users \ contended :
        /\ account[u].attempts = recent[u]
        /\ account[u].locked # Null <=> recent[u] >= MaxAttempts

\* While such a user is locked out, neither the lock moves nor a login opens.
LockStands ==
    [][\A u \in Users \ contended :
          Locked(account[u], now) =>
              /\ account'[u] = account[u]
              /\ \A i \in DOMAIN token' \ DOMAIN token :
                    token'[i].user = u => token'[i].parent # 0]_vars

\* After such a user logged out everywhere, no pair of an earlier login is
\* live, nor does one become live again through a refresh.
SignedOutStaysOut ==
    \A u \in Users \ contended :
        \A i \in Live(u) : token[i].login > signed_out[u]

\* Logins, as seen in the tables by a user with one request at a time.  Of the
\* others nothing is said.
Alone(u, value, otherwise) == IF u \in contended THEN otherwise ELSE value

Failures == [u \in Users |-> Alone(u, recent[u], 0)]
Locks == [u \in Users |-> Alone(u, account[u].locked, Null)]
Open == [u \in Users |-> Alone(u, {token[i].login : i \in Live(u)}, {})]
Used == {token[i].login : i \in {j \in DOMAIN token : token[j].user \notin contended}}

Promised == INSTANCE Logins WITH
    Ids <- 1..MaxTokens, failures <- Failures, locked <- Locks, open <- Open, used <- Used

\* To a user with one request at a time, a failure counts and locks, a login
\* opens and a logout closes as one operation each, and a refresh is not to be
\* seen at all.
ImplementsLogins == Promised!Spec
=============================================================================
