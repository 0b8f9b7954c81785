----------------------------- MODULE AuthProofs -----------------------------
(***************************************************************************)
(* What holds of lockout and token rotation for any number of users,       *)
(* workers, failures and tokens.                                           *)
(*                                                                         *)
(* For users with overlapping requests the argument rests on bounds that   *)
(* stale reads cannot break: no counter, read or stored, exceeds the       *)
(* failures in the audit log, and a token once revoked stays so.  For the  *)
(* others it rests on the row a request has loaded being the row in the    *)
(* database still.                                                         *)
(***************************************************************************)
EXTENDS AuthSessions, TLAPS

\* The part of the tokens' state that no property names: a login is the first
\* of its rotations, and a sign-out covers tokens that exist.
Numbered ==
    /\ \A i \in DOMAIN token : token[i].login \in 1..i
    /\ \A u \in Users : signed_out[u] <= Len(token)

\* No counter exceeds the failures in the audit log.
Counted == \A u \in Users : account[u].attempts <= failed[u]

\* A user who is not contended has one request in flight.
Exclusive ==
    \A v, w \in Workers :
        /\ session[v] # Idle
        /\ session[w] # Idle
        /\ session[v].user = session[w].user
        /\ session[v].user \notin contended
        => v = w

\* What a request knows of the users row it has loaded ...
LoginOK(s) ==
    s.step \in {"login", "login_failed"} =>
        /\ s.row.attempts <= failed[s.user]
        /\ ~Locked(s.row, now)
        /\ s.user \notin contended => s.row = account[s.user]

\* ... of the token it is going to replace ...
RefreshOK(s) ==
    s.step = "refresh" =>
        /\ s.id \in DOMAIN token
        /\ token[s.id].user = s.user
        /\ s.at < token[s.id].refresh
        /\ s.user \notin contended => ~token[s.id].revoked

\* ... and of the tokens it is going to revoke.
LogoutOK(s) ==
    /\ s.step \in {"logout_one", "logout_all"} =>
          \A i \in s.ids : i \in DOMAIN token /\ token[i].user = s.user
    /\ s.step = "logout_all" /\ s.user \notin contended => Live(s.user) \subseteq s.ids
    /\ s.step = "logout_one" => \E i : s.ids = {i}

SessionsOK ==
    \A w \in Workers :
        /\ LoginOK(session[w])
        /\ RefreshOK(session[w])
        /\ LogoutOK(session[w])

Inv ==
    /\ TypeOK
    /\ Lineage
    /\ Numbered
    /\ OneLivePerLogin
    /\ SignedOutStaysOut
    /\ Counted
    /\ LockedForCause
    /\ FailuresCounted
    /\ Exclusive
    /\ SessionsOK

-----------------------------------------------------------------------------
\* Tables

\* What the types say of one row.
LEMMA RowTypes ==
    ASSUME TypeOK
    PROVE  /\ \A u \in Users :
                 /\ account[u] \in Account
                 /\ account[u].attempts \in Nat
                 /\ account[u].locked \in Nat \union {Null}
                 /\ failed[u] \in Nat /\ recent[u] \in Nat /\ signed_out[u] \in Nat
           /\ Len(token) \in Nat /\ DOMAIN token = 1..Len(token)
           /\ \A i \in DOMAIN token :
                 /\ token[i] \in Token
                 /\ token[i].user \in Users /\ token[i].login \in Nat
                 /\ token[i].parent \in Nat /\ token[i].refresh \in Nat
                 /\ token[i].revoked \in BOOLEAN
           /\ \A w \in Workers : session[w] \in Session
<1>1. \A u \in Users : account[u] \in Account
  BY DEF TypeOK
<1>2. \A u \in Users : account[u].attempts \in Nat /\ account[u].locked \in Nat \union {Null}
  BY <1>1 DEF Account
<1>3. \A u \in Users : failed[u] \in Nat /\ recent[u] \in Nat /\ signed_out[u] \in Nat
  BY DEF TypeOK
<1>4. Len(token) \in Nat /\ DOMAIN token = 1..Len(token) /\ \A i \in DOMAIN token : token[i] \in Token
  BY DEF TypeOK
<1>5. \A i \in DOMAIN token :
         /\ token[i].user \in Users /\ token[i].login \in Nat
         /\ token[i].parent \in Nat /\ token[i].refresh \in Nat
         /\ token[i].revoked \in BOOLEAN
  BY <1>4 DEF Token
<1>6. \A w \in Workers : session[w] \in Session
  BY DEF TypeOK
<1> QED BY <1>1, <1>2, <1>3, <1>4, <1>5, <1>6

\* Every request in flight names a user, and a login carries the row it read.
LEMMA RequestTypes ==
    ASSUME NEW s \in Session, s # Idle
    PROVE  /\ s.user \in Users
           /\ s.step \in {"login", "login_failed"} =>
                 s.row \in Account /\ s.row.attempts \in Nat /\ s.row.locked \in Nat \union {Null}
           /\ s.step \in {"login", "refresh"} => s.at \in Nat
           /\ s.step = "refresh" => s.id \in Nat
           /\ s.step \in {"logout_one", "logout_all"} => s.ids \in SUBSET Nat
  BY DEF Session, Account

\* Revoking tokens changes nothing else about them.
LEMMA Revoking ==
    ASSUME TypeOK, NEW ids
    PROVE  /\ Revoke(ids) \in Seq(Token)
           /\ Len(Revoke(ids)) = Len(token)
           /\ DOMAIN Revoke(ids) = DOMAIN token
           /\ \A i \in DOMAIN token :
                 /\ Revoke(ids)[i].user = token[i].user
                 /\ Revoke(ids)[i].login = token[i].login
                 /\ Revoke(ids)[i].parent = token[i].parent
                 /\ Revoke(ids)[i].refresh = token[i].refresh
                 /\ Revoke(ids)[i].revoked <=> (i \in ids \/ token[i].revoked)
<1>1. \A i \in DOMAIN token :
         /\ token[i] \in Token
         /\ Revoke(ids)[i] = IF i \in ids THEN [token[i] EXCEPT !.revoked = TRUE] ELSE token[i]
  BY RowTypes DEF Revoke
<1>2. \A i \in DOMAIN token : Revoke(ids)[i] \in Token
  BY <1>1 DEF Token
<1>3. /\ Revoke(ids) \in Seq(Token)
      /\ DOMAIN Revoke(ids) = DOMAIN token
      /\ Len(Revoke(ids)) = Len(token)
  BY <1>2, RowTypes DEF Revoke
<1>4. \A i \in DOMAIN token :
         /\ Revoke(ids)[i].user = token[i].user
         /\ Revoke(ids)[i].login = token[i].login
         /\ Revoke(ids)[i].parent = token[i].parent
         /\ Revoke(ids)[i].refresh = token[i].refresh
         /\ Revoke(ids)[i].revoked <=> (i \in ids \/ token[i].revoked)
  BY <1>1 DEF Token
<1> QED BY <1>3, <1>4

\* A new row leaves the rows before it alone.
LEMMA Appending ==
    ASSUME NEW rows \in Seq(Token), NEW row \in Token
    PROVE  LET longer == Append(rows, row)
           IN  /\ longer \in Seq(Token)
               /\ Len(longer) = Len(rows) + 1
               /\ DOMAIN longer = DOMAIN rows \union {Len(rows) + 1}
               /\ \A i \in DOMAIN rows : longer[i] = rows[i]
               /\ longer[Len(rows) + 1] = row
               /\ Len(rows) + 1 \notin DOMAIN rows
  OBVIOUS

\* What an issued pair looks like.
LEMMA Issuing ==
    ASSUME NEW u \in Users, NEW login \in Nat, NEW parent \in Nat, NEW at \in Nat,
           NEW row, row = Issued(u, login, parent, at)
    PROVE  /\ row \in Token
           /\ row.user = u
           /\ row.login = login
           /\ row.parent = parent
           /\ row.refresh = at + RefreshTime
           /\ ~row.revoked
  BY AuthAssumption DEF Issued, Token

-----------------------------------------------------------------------------
\* Steps that change no table

LEMMA Initial == Init => Inv
<1> SUFFICES ASSUME Init PROVE Inv
  OBVIOUS
<1>1. TypeOK
  BY DEF Init, TypeOK, Account, Session, Idle
<1>2. Lineage /\ Numbered /\ OneLivePerLogin /\ SignedOutStaysOut
  BY DEF Init, Lineage, Numbered, OneLivePerLogin, SignedOutStaysOut, Live
<1>3. Counted /\ LockedForCause /\ FailuresCounted
  BY AuthAssumption DEF Init, Counted, LockedForCause, FailuresCounted
<1>4. Exclusive /\ SessionsOK
  BY DEF Init, Exclusive, SessionsOK, LoginOK, RefreshOK, LogoutOK, Idle
<1> QED BY <1>1, <1>2, <1>3, <1>4 DEF Inv

\* A request that is in order may be taken or continued.
LEMMA Installed ==
    ASSUME Inv, NEW w \in Workers, NEW s \in Session,
           UNCHANGED <<contended, account, token, now, failed, recent, signed_out>>,
           session' = [session EXCEPT ![w] = s],
           s # Idle =>
              /\ LoginOK(s) /\ RefreshOK(s) /\ LogoutOK(s)
              /\ CanStart(w, s.user) \/ (session[w] # Idle /\ session[w].user = s.user)
    PROVE  Inv'
<1>1. TypeOK'
  BY DEF Inv, TypeOK
<1>2. (Lineage /\ Numbered /\ OneLivePerLogin /\ SignedOutStaysOut)'
  BY DEF Inv, Lineage, Numbered, OneLivePerLogin, SignedOutStaysOut, Live
<1>3. (Counted /\ LockedForCause /\ FailuresCounted)'
  BY DEF Inv, Counted, LockedForCause, FailuresCounted
<1>4. Exclusive'
  BY DEF Inv, TypeOK, Exclusive, CanStart
<1>5. SessionsOK'
  <2> SUFFICES ASSUME NEW v \in Workers
               PROVE  (LoginOK(session[v]) /\ RefreshOK(session[v]) /\ LogoutOK(session[v]))'
    BY DEF SessionsOK
  <2>1. LoginOK(session'[v]) /\ RefreshOK(session'[v]) /\ LogoutOK(session'[v])
    <3>1. session'[v] = session[v] \/ session'[v] = s
      BY DEF Inv, TypeOK
    <3>2. LoginOK(session[v]) /\ RefreshOK(session[v]) /\ LogoutOK(session[v])
      BY DEF Inv, SessionsOK
    <3>3. CASE session'[v] = Idle
      BY <3>3 DEF LoginOK, RefreshOK, LogoutOK, Idle
    <3>4. CASE session'[v] = session[v]
      BY <3>2, <3>4
    <3>5. CASE session'[v] = s /\ s # Idle
      BY <3>5
    <3> QED BY <3>1, <3>3, <3>4, <3>5
  <2> QED BY <2>1 DEF LoginOK, RefreshOK, LogoutOK, Locked, Live
<1> QED BY <1>1, <1>2, <1>3, <1>4, <1>5 DEF Inv

LEMMA Ticked ==
    ASSUME Inv, Tick
    PROVE  Inv'
<1> USE DEF Tick
<1>1. TypeOK'
  BY DEF Inv, TypeOK
<1>2. (Lineage /\ Numbered /\ OneLivePerLogin /\ SignedOutStaysOut)'
  BY DEF Inv, Lineage, Numbered, OneLivePerLogin, SignedOutStaysOut, Live
<1>3. (Counted /\ LockedForCause /\ FailuresCounted)'
  BY DEF Inv, Counted, LockedForCause, FailuresCounted
<1>4. Exclusive'
  BY DEF Inv, Exclusive
<1>5. SessionsOK'
  <2> SUFFICES ASSUME NEW v \in Workers
               PROVE  (LoginOK(session[v]) /\ RefreshOK(session[v]) /\ LogoutOK(session[v]))'
    BY DEF SessionsOK
  <2>1. session[v] \in Session /\ now \in Nat
    BY DEF Inv, TypeOK
  <2>2. LoginOK(session[v])'
    <3>1. SUFFICES ASSUME session[v].step \in {"login", "login_failed"}
                   PROVE  ~Locked(session[v].row, now')
      BY DEF Inv, SessionsOK, LoginOK
    <3>2. session[v].row.locked \in Nat \union {Null} /\ ~Locked(session[v].row, now)
      BY <2>1, <3>1, RequestTypes DEF Inv, SessionsOK, LoginOK, Idle
    <3> QED BY <2>1, <3>2 DEF Locked
  <2>3. (RefreshOK(session[v]) /\ LogoutOK(session[v]))'
    BY DEF Inv, SessionsOK, RefreshOK, LogoutOK, Live
  <2> QED BY <2>2, <2>3
<1> QED BY <1>1, <1>2, <1>3, <1>4, <1>5 DEF Inv

-----------------------------------------------------------------------------
\* Commits

\* When a request ends, the others are exclusive as before, and none of them
\* is about the same user unless that user is contended.
LEMMA Finished ==
    ASSUME Inv, NEW w \in Workers, session[w] # Idle, Finish(w), contended' = contended
    PROVE  /\ session' \in [Workers -> Session]
           /\ Exclusive'
           /\ session'[w] = Idle
           /\ \A v \in Workers \ {w} :
                 /\ session'[v] = session[v]
                 /\ session[v] # Idle /\ session[w].user \notin contended
                       => session[v].user # session[w].user
<1>1. session \in [Workers -> Session] /\ Idle \in Session
  BY DEF Inv, TypeOK, Session
<1>2. session' = [session EXCEPT ![w] = Idle]
  BY DEF Finish
<1>3. \A v \in Workers \ {w} : session'[v] = session[v]
  BY <1>1, <1>2
<1>4. session' \in [Workers -> Session] /\ session'[w] = Idle
  BY <1>1, <1>2
<1>5. Exclusive'
  BY <1>3, <1>4 DEF Inv, Exclusive
<1>6. \A v \in Workers \ {w} :
         session[v] # Idle /\ session[w].user \notin contended
             => session[v].user # session[w].user
  BY DEF Inv, Exclusive
<1> QED BY <1>3, <1>4, <1>5, <1>6

LEMMA FailedLogin ==
    ASSUME Inv, NEW w \in Workers, LoginFailed(w)
    PROVE  Inv'
<1> DEFINE s == session[w]
           u == s.user
           attempts == s.row.attempts + 1
           locked == IF LockNeeded(attempts) THEN now + LockTime ELSE s.row.locked
           row == [attempts |-> attempts,
                   locked |-> IF locked # s.row.locked THEN locked ELSE account[u].locked]
<1>1. s \in Session /\ s.step = "login_failed" /\ s # Idle /\ Finish(w)
  BY DEF Inv, TypeOK, LoginFailed, Idle
<1>2. u \in Users /\ s.row \in Account /\ s.row.attempts \in Nat /\ s.row.locked \in Nat \union {Null}
  BY <1>1, RequestTypes
<1>3. /\ s.row.attempts <= failed[u]
      /\ ~Locked(s.row, now)
      /\ u \notin contended => s.row = account[u]
  BY <1>1 DEF Inv, SessionsOK, LoginOK
<1>4. /\ account \in [Users -> Account] /\ failed \in [Users -> Nat] /\ recent \in [Users -> Nat]
      /\ now \in Nat /\ LockTime \in Nat /\ MaxAttempts \in Nat
  BY AuthAssumption DEF Inv, TypeOK
<1>5. account[u] \in Account /\ account[u].locked \in Nat \union {Null} /\ account[u].attempts \in Nat
  BY <1>2, RowTypes DEF Inv
<1>6. account' = [account EXCEPT ![u] = row]
  <2>1. account' = [account EXCEPT ![u] =
           [attempts |-> IF attempts # s.row.attempts THEN attempts ELSE @.attempts,
            locked |-> IF locked # s.row.locked THEN locked ELSE @.locked]]
    BY Zenon DEF LoginFailed, Written
  <2>2. attempts # s.row.attempts
    BY <1>2
  <2> QED BY <1>2, <1>4, <2>1, <2>2
<1>7. row \in Account
  BY <1>2, <1>4, <1>5 DEF Account, LockNeeded
<1>8. failed' = [failed EXCEPT ![u] = @ + 1] /\ recent' = [recent EXCEPT ![u] = @ + 1]
  BY DEF LoginFailed
<1>9. UNCHANGED <<contended, token, now, signed_out>>
  BY DEF LoginFailed
<1>10. TypeOK'
  <2>1. session' \in [Workers -> Session]
    BY <1>1, <1>9, Finished
  <2>2. failed' \in [Users -> Nat] /\ recent' \in [Users -> Nat]
    BY <1>2, <1>4, <1>8
  <2>3. account' \in [Users -> Account]
    BY <1>4, <1>6, <1>7
  <2> HIDE DEF row
  <2> QED BY <1>9, <2>1, <2>2, <2>3 DEF Inv, TypeOK
<1>11. (Lineage /\ Numbered /\ OneLivePerLogin /\ SignedOutStaysOut)'
  BY <1>9 DEF Inv, Lineage, Numbered, OneLivePerLogin, SignedOutStaysOut, Live
<1>12. /\ \A x \in Users \ {u} : /\ account'[x] = account[x]
                                 /\ failed'[x] = failed[x] /\ recent'[x] = recent[x]
       /\ account'[u] = row /\ failed'[u] = failed[u] + 1 /\ recent'[u] = recent[u] + 1
  BY <1>2, <1>4, <1>6, <1>8
<1>13. Counted'
  BY <1>2, <1>3, <1>4, <1>12 DEF Inv, Counted
<1>14. LockedForCause'
  <2>1. ASSUME row.locked # Null PROVE failed[u] + 1 >= MaxAttempts
    <3>1. CASE LockNeeded(attempts)
      BY <1>2, <1>3, <1>4, <3>1 DEF LockNeeded
    <3>2. CASE ~LockNeeded(attempts)
      <4>1. account[u].locked # Null
        BY <2>1, <3>2
      <4> QED BY <1>2, <1>4, <4>1 DEF Inv, LockedForCause
    <3> QED BY <3>1, <3>2
  <2> QED BY <1>2, <1>9, <1>12, <2>1 DEF Inv, LockedForCause
<1>15. FailuresCounted'
  <2>1. ASSUME u \notin contended
        PROVE  row.attempts = recent[u] + 1 /\ (row.locked # Null <=> recent[u] + 1 >= MaxAttempts)
    <3>1. /\ s.row = account[u] /\ account[u].attempts = recent[u]
          /\ account[u].locked # Null <=> recent[u] >= MaxAttempts
      BY <1>2, <1>3, <2>1 DEF Inv, FailuresCounted
    <3>2. LockNeeded(attempts) <=> recent[u] + 1 >= MaxAttempts
      BY <3>1 DEF LockNeeded
    <3>3. now + LockTime # Null
      BY <1>4, AuthAssumption
    <3> QED BY <1>2, <1>4, <3>1, <3>2, <3>3
  <2> QED BY <1>2, <1>9, <1>12, <2>1 DEF Inv, FailuresCounted
<1>16. SessionsOK'
  <2> SUFFICES ASSUME NEW v \in Workers
               PROVE  (LoginOK(session[v]) /\ RefreshOK(session[v]) /\ LogoutOK(session[v]))'
    BY DEF SessionsOK
  <2>1. CASE v = w
    BY <1>1, <1>9, <2>1, Finished DEF LoginOK, RefreshOK, LogoutOK, Idle
  <2>2. CASE v # w
    <3>1. /\ session'[v] = session[v] /\ session[v] \in Session
          /\ session[v] # Idle /\ u \notin contended => session[v].user # u
      BY <1>1, <1>9, <2>2, Finished DEF Inv, TypeOK
    <3>2. LoginOK(session[v])'
      <4>1. SUFFICES ASSUME session[v].step \in {"login", "login_failed"}
                     PROVE  /\ session[v].row.attempts <= failed'[session[v].user]
                            /\ ~Locked(session[v].row, now)
                            /\ session[v].user \notin contended
                                  => session[v].row = account'[session[v].user]
        BY <1>9, <3>1 DEF LoginOK, Locked
      <4>2. session[v] # Idle /\ session[v].user \in Users /\ session[v].row.attempts \in Nat
        BY <3>1, <4>1, RequestTypes DEF Idle
      <4>3. LoginOK(session[v])
        BY DEF Inv, SessionsOK
      <4> QED BY <1>2, <1>4, <1>12, <3>1, <4>1, <4>2, <4>3 DEF LoginOK
    <3>3. (RefreshOK(session[v]) /\ LogoutOK(session[v]))'
      <4>1. RefreshOK(session[v]) /\ LogoutOK(session[v])
        BY DEF Inv, SessionsOK
      <4>2. RefreshOK(session[v])'
        BY <1>9, <3>1, <4>1 DEF RefreshOK
      <4>3. LogoutOK(session[v])'
        BY <1>9, <3>1, <4>1 DEF LogoutOK, Live
      <4> QED BY <4>2, <4>3
    <3> QED BY <3>2, <3>3
  <2> QED BY <2>1, <2>2
<1> QED BY <1>1, <1>9, <1>10, <1>11, <1>13, <1>14, <1>15, <1>16, Finished DEF Inv

\* A new pair at the end of the table, after some were revoked.
LEMMA Added ==
    ASSUME TypeOK, NEW ids, NEW row \in Token, token' = Append(Revoke(ids), row)
    PROVE  LET n == Len(token) + 1
           IN  /\ token' \in Seq(Token)
               /\ Len(token') = n
               /\ DOMAIN token' = DOMAIN token \union {n}
               /\ DOMAIN token = 1..Len(token) /\ n \in Nat /\ n \notin DOMAIN token
               /\ token'[n] = row
               /\ \A i \in DOMAIN token :
                     /\ token'[i].user = token[i].user
                     /\ token'[i].login = token[i].login
                     /\ token'[i].parent = token[i].parent
                     /\ token'[i].refresh = token[i].refresh
                     /\ token'[i].revoked <=> (i \in ids \/ token[i].revoked)
<1>1. /\ Revoke(ids) \in Seq(Token) /\ Len(Revoke(ids)) = Len(token)
      /\ DOMAIN Revoke(ids) = DOMAIN token
  BY Revoking
<1>2. /\ token' \in Seq(Token)
      /\ Len(token') = Len(token) + 1
      /\ DOMAIN token' = DOMAIN token \union {Len(token) + 1}
      /\ \A i \in DOMAIN token : token'[i] = Revoke(ids)[i]
      /\ token'[Len(token) + 1] = row
      /\ Len(token) + 1 \notin DOMAIN token
  BY <1>1, Appending
<1>3. DOMAIN token = 1..Len(token) /\ Len(token) + 1 \in Nat
  BY RowTypes
<1> QED BY <1>2, <1>3, Revoking

\* What a request knows about tokens survives additions and revocations by
\* requests of other users, and by any when its own user is contended.
LEMMA TokensKept ==
    ASSUME Inv, NEW s \in Session, s # Idle, RefreshOK(s), LogoutOK(s),
           NEW u \in Users, NEW ids,
           s.user \notin contended => s.user # u,
           contended' = contended, TypeOK',
           DOMAIN token \subseteq DOMAIN token',
           \A i \in DOMAIN token :
              /\ token'[i].user = token[i].user
              /\ token'[i].refresh = token[i].refresh
              /\ token'[i].revoked <=> (i \in ids \/ token[i].revoked),
           \A i \in DOMAIN token' \ DOMAIN token : token'[i].user = u,
           \A i \in ids : i \in DOMAIN token /\ s.user \notin contended => token[i].user = u
    PROVE  RefreshOK(s)' /\ LogoutOK(s)'
<1>1. RefreshOK(s)'
  <2>1. SUFFICES ASSUME s.step = "refresh"
                 PROVE  /\ s.id \in DOMAIN token'
                        /\ token'[s.id].user = s.user
                        /\ s.at < token'[s.id].refresh
                        /\ s.user \notin contended => ~token'[s.id].revoked
    BY DEF RefreshOK
  <2> QED BY <2>1 DEF RefreshOK
<1>2. LogoutOK(s)'
  <2>1. s.step \in {"logout_one", "logout_all"} =>
           \A i \in s.ids : i \in DOMAIN token' /\ token'[i].user = s.user
    BY DEF LogoutOK
  <2>2. SUFFICES ASSUME s.step = "logout_all", s.user \notin contended,
                        NEW i \in DOMAIN token', token'[i].user = s.user, ~token'[i].revoked
                 PROVE  i \in s.ids
    BY <2>1 DEF LogoutOK, Live
  <2>3. i \in DOMAIN token
    BY <2>2
  <2>4. i \in Live(s.user)
    BY <2>2, <2>3 DEF Live
  <2> QED BY <2>2, <2>4 DEF LogoutOK
<1> QED BY <1>1, <1>2

LEMMA SucceededLogin ==
    ASSUME Inv, NEW w \in Workers, LoginSucceeded(w)
    PROVE  Inv'
<1> DEFINE s == session[w]
           u == s.user
           n == Len(token) + 1
           new == Issued(u, n, 0, s.at)
           row == [attempts |-> IF 0 # s.row.attempts THEN 0 ELSE account[u].attempts,
                   locked |-> IF Null # s.row.locked THEN Null ELSE account[u].locked]
<1>1. s \in Session /\ s.step = "login" /\ s # Idle /\ Finish(w)
  BY DEF Inv, TypeOK, LoginSucceeded, Idle
<1>2. u \in Users /\ s.row.attempts \in Nat /\ s.row.locked \in Nat \union {Null} /\ s.at \in Nat
  BY <1>1, RequestTypes
<1>3. /\ s.row.attempts <= failed[u]
      /\ u \notin contended => s.row = account[u]
  BY <1>1 DEF Inv, SessionsOK, LoginOK
<1>4. /\ account \in [Users -> Account] /\ failed \in [Users -> Nat] /\ recent \in [Users -> Nat]
      /\ token \in Seq(Token) /\ Len(token) \in Nat /\ signed_out \in [Users -> Nat]
      /\ MaxAttempts \in Nat \ {0}
  BY AuthAssumption, RowTypes DEF Inv, TypeOK
<1>5. account[u] \in Account /\ account[u].locked \in Nat \union {Null} /\ account[u].attempts \in Nat
  BY <1>2, RowTypes DEF Inv
<1>6. account' = [account EXCEPT ![u] = row]
  BY Zenon DEF LoginSucceeded, Written
<1>7. row \in Account
  BY <1>2, <1>5 DEF Account
<1>8. recent' = [recent EXCEPT ![u] = 0] /\ UNCHANGED <<contended, now, failed, signed_out>>
  BY DEF LoginSucceeded
<1>9. /\ new \in Token /\ new.user = u /\ new.login = n /\ new.parent = 0 /\ ~new.revoked
  <2>1. n \in Nat /\ s.at \in Nat /\ u \in Users /\ new = Issued(u, n, 0, s.at)
    BY <1>2, <1>4
  <2> HIDE DEF s, u, n, new
  <2> QED BY <2>1, Issuing
<1>10. token' = Append(token, new)
  BY DEF LoginSucceeded
<1>11. /\ token' \in Seq(Token)
       /\ Len(token') = n
       /\ DOMAIN token' = DOMAIN token \union {n}
       /\ \A i \in DOMAIN token : token'[i] = token[i]
       /\ token'[n] = new
       /\ DOMAIN token = 1..Len(token) /\ n \notin DOMAIN token
  <2> HIDE DEF new
  <2>1. DOMAIN token = 1..Len(token)
    BY <1>4
  <2> QED BY <1>4, <1>9, <1>10, <2>1, Appending
<1>12. TypeOK'
  <2>1. session' \in [Workers -> Session]
    BY <1>1, <1>8, Finished
  <2>2. recent' \in [Users -> Nat]
    BY <1>2, <1>4, <1>8
  <2>3. account' \in [Users -> Account]
    BY <1>4, <1>6, <1>7
  <2> HIDE DEF row, new
  <2> QED BY <1>8, <1>11, <2>1, <2>2, <2>3 DEF Inv, TypeOK
<1>13. /\ \A x \in Users \ {u} : account'[x] = account[x] /\ recent'[x] = recent[x]
       /\ account'[u] = row /\ recent'[u] = 0
  BY <1>2, <1>4, <1>6, <1>8
<1>14. (Counted /\ LockedForCause)'
  <2>1. row.attempts <= failed[u] /\ (row.locked # Null => account[u].locked # Null)
    BY <1>2, <1>4, <1>5 DEF Inv, Counted
  <2> HIDE DEF row
  <2> QED BY <1>2, <1>8, <1>13, <2>1 DEF Inv, Counted, LockedForCause
<1>15. FailuresCounted'
  <2>1. u \notin contended => row.attempts = 0 /\ row.locked = Null
    BY <1>2, <1>3
  <2> QED BY <1>4, <1>8, <1>13, <2>1 DEF Inv, FailuresCounted
<1>16. Lineage'
  <2> SUFFICES ASSUME NEW i \in DOMAIN token', token'[i].parent # 0
               PROVE  /\ token'[i].parent < i
                      /\ token'[token'[i].parent].user = token'[i].user
                      /\ token'[token'[i].parent].login = token'[i].login
                      /\ token'[token'[i].parent].revoked
                      /\ token'[i].refresh - RefreshTime < token'[token'[i].parent].refresh
    BY DEF Lineage
  <2>1. i \in DOMAIN token /\ token'[i] = token[i] /\ token[i].parent \in Nat
    BY <1>9, <1>11, RowTypes DEF Inv
  <2>2. token[i].parent < i /\ token[i].parent \in DOMAIN token
    BY <1>4, <1>11, <2>1 DEF Inv, Lineage
  <2> QED BY <1>11, <2>1, <2>2 DEF Inv, Lineage
<1>17. Numbered'
  BY <1>4, <1>8, <1>9, <1>11 DEF Inv, Numbered
<1>18. \A x \in Users : Live(x)' = IF x = u THEN Live(x) \union {n} ELSE Live(x)
  BY <1>9, <1>11 DEF Live
<1>19. \A i \in DOMAIN token : token[i].login < n
  BY <1>4, <1>11 DEF Inv, Numbered
<1>20. OneLivePerLogin'
  BY <1>8, <1>9, <1>11, <1>18, <1>19 DEF Inv, OneLivePerLogin, Live
<1>21. SignedOutStaysOut'
  BY <1>2, <1>4, <1>8, <1>9, <1>11, <1>18 DEF Inv, SignedOutStaysOut, Numbered, Live
<1>22. SessionsOK'
  <2> SUFFICES ASSUME NEW v \in Workers
               PROVE  (LoginOK(session[v]) /\ RefreshOK(session[v]) /\ LogoutOK(session[v]))'
    BY DEF SessionsOK
  <2>1. CASE session'[v] = Idle
    BY <2>1 DEF LoginOK, RefreshOK, LogoutOK, Idle
  <2>2. CASE session'[v] # Idle
    <3>1. /\ session'[v] = session[v] /\ session[v] \in Session /\ session[v] # Idle
          /\ u \notin contended => session[v].user # u
      BY <1>1, <1>8, <2>2, Finished DEF Inv, TypeOK
    <3>2. LoginOK(session[v]) /\ RefreshOK(session[v]) /\ LogoutOK(session[v])
      BY DEF Inv, SessionsOK
    <3>3. session[v].user \in Users
      BY <3>1, RequestTypes
    <3>4. LoginOK(session[v])'
      BY <1>8, <1>13, <3>1, <3>2, <3>3 DEF LoginOK, Locked
    <3>5. (RefreshOK(session[v]) /\ LogoutOK(session[v]))'
      <4> DEFINE none == {}
      <4>1. session[v].user \notin contended => session[v].user # u
        BY <3>1
      <4>2. \A i \in DOMAIN token' \ DOMAIN token : token'[i].user = u
        BY <1>9, <1>11
      <4>3. \A i \in DOMAIN token :
              /\ token'[i].user = token[i].user
              /\ token'[i].refresh = token[i].refresh
              /\ token'[i].revoked <=> (i \in {} \/ token[i].revoked)
        BY <1>11, <1>4, RowTypes DEF Inv
      <4>4. (RefreshOK(session'[v]) /\ LogoutOK(session'[v])) <=> (RefreshOK(session[v]) /\ LogoutOK(session[v]))
        BY <3>1
      <4>5. RefreshOK(session[v])' /\ LogoutOK(session[v])'
        BY <1>2, <1>8, <1>11, <1>12, <3>1, <3>2, <4>1, <4>2, <4>3, TokensKept
      <4> QED BY <4>5
    <3> QED BY <3>4, <3>5
  <2> QED BY <2>1, <2>2
<1> QED BY <1>1, <1>8, <1>12, <1>14, <1>15, <1>16, <1>17, <1>20, <1>21, <1>22, Finished DEF Inv

LEMMA Refreshed ==
    ASSUME Inv, NEW w \in Workers, RefreshCommit(w)
    PROVE  Inv'
<1> DEFINE s == session[w]
           u == s.user
           n == Len(token) + 1
           new == Issued(u, token[s.id].login, s.id, s.at)
<1>1. s \in Session /\ s.step = "refresh" /\ s # Idle /\ Finish(w)
  BY DEF Inv, TypeOK, RefreshCommit, Idle
<1>2. u \in Users /\ s.id \in Nat /\ s.at \in Nat
  BY <1>1, RequestTypes
<1>3. /\ s.id \in DOMAIN token
      /\ token[s.id].user = u
      /\ s.at < token[s.id].refresh
      /\ u \notin contended => ~token[s.id].revoked
  BY <1>1 DEF Inv, SessionsOK, RefreshOK
<1>4. /\ token[s.id].login \in Nat /\ token[s.id].refresh \in Nat
      /\ Len(token) \in Nat /\ DOMAIN token = 1..Len(token)
  BY <1>3, RowTypes DEF Inv
<1>5. UNCHANGED <<contended, account, now, failed, recent, signed_out>>
  BY DEF RefreshCommit
<1>6. /\ new \in Token /\ new.user = u /\ new.login = token[s.id].login
      /\ new.parent = s.id /\ ~new.revoked
      /\ new.refresh = s.at + RefreshTime
  <2> DEFINE login == token[s.id].login
  <2>1. /\ login \in Nat /\ s.id \in Nat /\ s.at \in Nat /\ u \in Users
        /\ new = Issued(u, login, s.id, s.at)
    BY <1>2, <1>4
  <2> HIDE DEF s, u, login, new
  <2>2. /\ new \in Token /\ new.user = u /\ new.login = login /\ new.parent = s.id
        /\ new.refresh = s.at + RefreshTime /\ ~new.revoked
    BY <2>1, Issuing
  <2> QED BY <2>2 DEF login
<1>7. token' = Append(Revoke({s.id}), new)
  BY DEF RefreshCommit
<1>8. /\ token' \in Seq(Token)
      /\ Len(token') = n
      /\ DOMAIN token' = DOMAIN token \union {n}
      /\ n \in Nat /\ n \notin DOMAIN token
      /\ token'[n] = new
      /\ \A i \in DOMAIN token :
            /\ token'[i].user = token[i].user
            /\ token'[i].login = token[i].login
            /\ token'[i].parent = token[i].parent
            /\ token'[i].refresh = token[i].refresh
            /\ token'[i].revoked <=> (i = s.id \/ token[i].revoked)
  <2> DEFINE ids == {s.id}
  <2>1. new \in Token /\ token' = Append(Revoke(ids), new) /\ TypeOK
    BY <1>6, <1>7 DEF Inv
  <2>2. \A i : i \in ids <=> i = s.id
    OBVIOUS
  <2> HIDE DEF new, ids
  <2> QED BY <2>1, <2>2, Added
<1> HIDE DEF new
<1>9. TypeOK'
  BY <1>1, <1>5, <1>8, Finished DEF Inv, TypeOK
<1>10. (Counted /\ LockedForCause /\ FailuresCounted)'
  BY <1>5 DEF Inv, Counted, LockedForCause, FailuresCounted
<1>11. Lineage'
  <2> SUFFICES ASSUME NEW i \in DOMAIN token', token'[i].parent # 0
               PROVE  /\ token'[i].parent < i
                      /\ token'[token'[i].parent].user = token'[i].user
                      /\ token'[token'[i].parent].login = token'[i].login
                      /\ token'[token'[i].parent].revoked
                      /\ token'[i].refresh - RefreshTime < token'[token'[i].parent].refresh
    BY DEF Lineage
  <2>1. CASE i = n
    <3>1. token'[i].parent = s.id /\ s.id < n
      BY <1>3, <1>4, <1>6, <1>8, <2>1
    <3>2. /\ token'[i].user = u /\ token'[i].login = token[s.id].login
          /\ token'[i].refresh - RefreshTime = s.at
      <4>1. token'[i] = new
        BY <1>8, <2>1
      <4>2. new.refresh - RefreshTime = s.at
        <5>1. new.refresh = s.at + RefreshTime
          BY <1>6
        <5>2. s.at \in Nat /\ RefreshTime \in Nat
          BY <1>2, AuthAssumption
        <5> DEFINE at == s.at
        <5> HIDE DEF at, new
        <5>3. new.refresh = at + RefreshTime /\ at \in Nat
          BY <5>1, <5>2 DEF at
        <5>4. new.refresh - RefreshTime = at
          BY <5>2, <5>3
        <5> QED BY <5>4 DEF at
      <4>3. new.user = u /\ new.login = token[s.id].login
        BY <1>6
      <4> QED BY Zenon, <4>1, <4>2, <4>3
    <3>3. /\ token'[s.id].user = u /\ token'[s.id].login = token[s.id].login
          /\ token'[s.id].refresh = token[s.id].refresh /\ token'[s.id].revoked
      BY <1>3, <1>8
    <3> QED BY <1>3, <2>1, <3>1, <3>2, <3>3
  <2>2. CASE i \in DOMAIN token
    <3>1. token[i].parent \in Nat /\ token[i].parent # 0 /\ token'[i].parent = token[i].parent
      BY <1>8, <2>2, RowTypes DEF Inv
    <3>2. /\ token[i].parent < i
          /\ token[token[i].parent].user = token[i].user
          /\ token[token[i].parent].login = token[i].login
          /\ token[token[i].parent].revoked
          /\ token[i].refresh - RefreshTime < token[token[i].parent].refresh
      BY <2>2, <3>1 DEF Inv, Lineage
    <3>3. token[i].parent \in DOMAIN token
      BY <1>4, <2>2, <3>1, <3>2
    <3> QED BY <1>8, <2>2, <3>1, <3>2, <3>3
  <2> QED BY <1>8, <2>1, <2>2
<1>12. Numbered'
  <2>1. token[s.id].login \in 1..n
    BY <1>3, <1>4 DEF Inv, Numbered
  <2>2. \A i \in DOMAIN token' : token'[i].login \in 1..i
    BY <1>6, <1>8, <2>1 DEF Inv, Numbered
  <2>3. \A x \in Users : signed_out'[x] <= Len(token')
    BY <1>4, <1>5, <1>8, RowTypes DEF Inv, Numbered
  <2> QED BY <2>2, <2>3 DEF Numbered
<1>13. \A x \in Users :
          Live(x)' = IF x = u THEN (Live(x) \ {s.id}) \union {n} ELSE Live(x)
  BY <1>3, <1>6, <1>8 DEF Live
<1>14. u \notin contended => s.id \in Live(u)
  BY <1>3 DEF Live
<1>15. OneLivePerLogin'
  <2> SUFFICES ASSUME NEW x \in Users \ contended, NEW i \in Live(x)', NEW j \in Live(x)',
                      token'[i].login = token'[j].login
               PROVE  i = j
    BY <1>5 DEF OneLivePerLogin
  <2>1. \A k \in Live(x)' : k \in DOMAIN token' /\ (k # n => k \in Live(x) /\ token'[k].login = token[k].login)
    BY <1>8, <1>13 DEF Live
  <2>2. CASE i # n /\ j # n
    BY <2>1, <2>2 DEF Inv, OneLivePerLogin
  <2>3. CASE x # u
    BY <1>8, <1>13, <2>1, <2>2, <2>3 DEF Live
  <2>4. CASE x = u
    <3>1. s.id \in Live(x)
      BY <1>14, <2>4
    <3>2. \A k \in Live(x)' : k # n => k # s.id
      BY <1>13, <2>4
    <3>3. \A k \in Live(x)' : k # n => token'[k].login # token'[n].login
      BY <1>6, <1>8, <2>1, <3>1, <3>2 DEF Inv, OneLivePerLogin
    <3> QED BY <2>2, <3>3
  <2> QED BY <2>3, <2>4
<1>16. SignedOutStaysOut'
  <2> SUFFICES ASSUME NEW x \in Users \ contended, NEW i \in Live(x)'
               PROVE  token'[i].login > signed_out[x]
    BY <1>5 DEF SignedOutStaysOut
  <2>1. CASE i = n
    <3>1. x = u
      BY <1>8, <1>13, <2>1 DEF Live
    <3> QED BY <1>6, <1>8, <1>14, <2>1, <3>1 DEF Inv, SignedOutStaysOut
  <2>2. CASE i # n
    <3>1. i \in Live(x) /\ i \in DOMAIN token
      BY <1>13, <2>2 DEF Live
    <3> QED BY <1>8, <3>1 DEF Inv, SignedOutStaysOut
  <2> QED BY <2>1, <2>2
<1>17. SessionsOK'
  <2> SUFFICES ASSUME NEW v \in Workers
               PROVE  (LoginOK(session[v]) /\ RefreshOK(session[v]) /\ LogoutOK(session[v]))'
    BY DEF SessionsOK
  <2>1. CASE session'[v] = Idle
    BY <2>1 DEF LoginOK, RefreshOK, LogoutOK, Idle
  <2>2. CASE session'[v] # Idle
    <3>1. /\ session'[v] = session[v] /\ session[v] \in Session /\ session[v] # Idle
          /\ session[v].user \notin contended => session[v].user # u
      BY <1>1, <1>5, <2>2, Finished DEF Inv, TypeOK
    <3>2. LoginOK(session[v]) /\ RefreshOK(session[v]) /\ LogoutOK(session[v])
      BY DEF Inv, SessionsOK
    <3>3. LoginOK(session[v])'
      BY <1>5, <3>1, <3>2 DEF LoginOK, Locked
    <3>4. RefreshOK(session[v])' /\ LogoutOK(session[v])'
      <4>1. \A i \in DOMAIN token' \ DOMAIN token : token'[i].user = u
        BY <1>6, <1>8
      <4>2. \A i \in DOMAIN token :
              /\ token'[i].user = token[i].user
              /\ token'[i].refresh = token[i].refresh
              /\ token'[i].revoked <=> (i \in {s.id} \/ token[i].revoked)
        BY <1>8
      <4>3. \A i \in {s.id} :
               i \in DOMAIN token /\ session[v].user \notin contended => token[i].user = u
        BY <1>3
      <4>4. DOMAIN token \subseteq DOMAIN token' /\ contended' = contended
        BY <1>5, <1>8
      <4>5. session[v].user \notin contended => session[v].user # u
        BY <3>1
      <4> DEFINE ids == {s.id}
      <4> HIDE DEF ids, u
      <4>6. /\ \A i \in DOMAIN token :
                 /\ token'[i].user = token[i].user
                 /\ token'[i].refresh = token[i].refresh
                 /\ token'[i].revoked <=> (i \in ids \/ token[i].revoked)
            /\ \A i \in ids :
                 i \in DOMAIN token /\ session[v].user \notin contended => token[i].user = u
        BY <4>2, <4>3 DEF ids
      <4> QED BY <1>2, <1>9, <3>1, <3>2, <4>1, <4>4, <4>5, <4>6, TokensKept
    <3> QED BY <3>3, <3>4
  <2> QED BY <2>1, <2>2
<1> QED BY <1>1, <1>5, <1>9, <1>10, <1>11, <1>12, <1>15, <1>16, <1>17, Finished DEF Inv

LEMMA LoggedOut ==
    ASSUME Inv, NEW w \in Workers, LogoutCommit(w)
    PROVE  Inv'
<1> DEFINE s == session[w]
           u == s.user
<1>1. s \in Session /\ s.step \in {"logout_one", "logout_all"} /\ s # Idle /\ Finish(w)
  BY DEF Inv, TypeOK, LogoutCommit, Idle
<1>2. u \in Users
  BY <1>1, RequestTypes
<1>3. /\ \A i \in s.ids : i \in DOMAIN token /\ token[i].user = u
      /\ s.step = "logout_all" /\ u \notin contended => Live(u) \subseteq s.ids
  BY <1>1 DEF Inv, SessionsOK, LogoutOK
<1>4. UNCHANGED <<contended, account, now, failed, recent>>
  BY DEF LogoutCommit
<1>5. /\ token' \in Seq(Token) /\ Len(token') = Len(token) /\ DOMAIN token' = DOMAIN token
      /\ \A i \in DOMAIN token :
            /\ token'[i].user = token[i].user
            /\ token'[i].login = token[i].login
            /\ token'[i].parent = token[i].parent
            /\ token'[i].refresh = token[i].refresh
            /\ token'[i].revoked <=> (i \in s.ids \/ token[i].revoked)
  BY Revoking DEF Inv, LogoutCommit
<1>6. /\ Len(token) \in Nat /\ DOMAIN token = 1..Len(token)
      /\ signed_out \in [Users -> Nat]
  BY RowTypes DEF Inv, TypeOK
<1>7. /\ signed_out' \in [Users -> Nat]
      /\ \A x \in Users :
            \/ signed_out'[x] = signed_out[x]
            \/ x = u /\ s.step = "logout_all" /\ signed_out'[x] = Len(token)
  BY <1>2, <1>6 DEF LogoutCommit
<1>8. TypeOK'
  BY <1>1, <1>4, <1>5, <1>7, Finished DEF Inv, TypeOK
<1>9. (Counted /\ LockedForCause /\ FailuresCounted)'
  BY <1>4 DEF Inv, Counted, LockedForCause, FailuresCounted
<1>10. Lineage'
  <2> SUFFICES ASSUME NEW i \in DOMAIN token', token'[i].parent # 0
               PROVE  /\ token'[i].parent < i
                      /\ token'[token'[i].parent].user = token'[i].user
                      /\ token'[token'[i].parent].login = token'[i].login
                      /\ token'[token'[i].parent].revoked
                      /\ token'[i].refresh - RefreshTime < token'[token'[i].parent].refresh
    BY DEF Lineage
  <2>1. /\ i \in DOMAIN token /\ token[i].parent \in Nat
        /\ token[i].parent # 0 /\ token'[i].parent = token[i].parent
    BY <1>5, RowTypes DEF Inv
  <2>2. /\ token[i].parent < i
        /\ token[token[i].parent].user = token[i].user
        /\ token[token[i].parent].login = token[i].login
        /\ token[token[i].parent].revoked
        /\ token[i].refresh - RefreshTime < token[token[i].parent].refresh
    BY <2>1 DEF Inv, Lineage
  <2>3. token[i].parent \in DOMAIN token
    BY <1>6, <2>1, <2>2
  <2> QED BY <1>5, <2>1, <2>2, <2>3
<1>11. Numbered'
  BY <1>5, <1>6, <1>7 DEF Inv, Numbered
<1>12. \A x \in Users : Live(x)' = Live(x) \ s.ids
  BY <1>5 DEF Live
<1>13. OneLivePerLogin'
  <2> SUFFICES ASSUME NEW x \in Users \ contended, NEW i \in Live(x)', NEW j \in Live(x)',
                      token'[i].login = token'[j].login
               PROVE  i = j
    BY <1>4 DEF OneLivePerLogin
  <2>1. i \in Live(x) /\ j \in Live(x) /\ i \in DOMAIN token /\ j \in DOMAIN token
    BY <1>12 DEF Live
  <2> QED BY <1>5, <2>1 DEF Inv, OneLivePerLogin
<1>14. SignedOutStaysOut'
  <2> SUFFICES ASSUME NEW x \in Users \ contended, NEW i \in Live(x)'
               PROVE  token'[i].login > signed_out'[x]
    BY <1>4 DEF SignedOutStaysOut
  <2>1. i \in Live(x) /\ i \notin s.ids /\ i \in DOMAIN token
    BY <1>12 DEF Live
  <2>2. ~(x = u /\ s.step = "logout_all")
    BY <1>3, <2>1
  <2> QED BY <1>5, <1>7, <2>1, <2>2 DEF Inv, SignedOutStaysOut
<1>15. SessionsOK'
  <2> SUFFICES ASSUME NEW v \in Workers
               PROVE  (LoginOK(session[v]) /\ RefreshOK(session[v]) /\ LogoutOK(session[v]))'
    BY DEF SessionsOK
  <2>1. CASE session'[v] = Idle
    BY <2>1 DEF LoginOK, RefreshOK, LogoutOK, Idle
  <2>2. CASE session'[v] # Idle
    <3>1. /\ session'[v] = session[v] /\ session[v] \in Session /\ session[v] # Idle
          /\ session[v].user \notin contended => session[v].user # u
      BY <1>1, <1>4, <2>2, Finished DEF Inv, TypeOK
    <3>2. LoginOK(session[v]) /\ RefreshOK(session[v]) /\ LogoutOK(session[v])
      BY DEF Inv, SessionsOK
    <3>3. LoginOK(session[v])'
      BY <1>4, <3>1, <3>2 DEF LoginOK, Locked
    <3>4. RefreshOK(session[v])' /\ LogoutOK(session[v])'
      <4> DEFINE ids == s.ids
      <4>1. \A i \in ids :
               i \in DOMAIN token /\ session[v].user \notin contended => token[i].user = u
        BY <1>3
      <4>2. \A i \in DOMAIN token :
               /\ token'[i].user = token[i].user
               /\ token'[i].refresh = token[i].refresh
               /\ token'[i].revoked <=> (i \in ids \/ token[i].revoked)
        BY <1>5
      <4>3. /\ session[v].user \notin contended => session[v].user # u
            /\ \A i \in DOMAIN token' \ DOMAIN token : token'[i].user = u
            /\ DOMAIN token \subseteq DOMAIN token' /\ contended' = contended
        BY <1>4, <1>5, <3>1
      <4> HIDE DEF ids, u
      <4> QED BY <1>2, <1>8, <3>1, <3>2, <4>1, <4>2, <4>3, TokensKept
    <3> QED BY <3>3, <3>4
  <2> QED BY <2>1, <2>2
<1> QED BY <1>1, <1>4, <1>8, <1>9, <1>10, <1>11, <1>13, <1>14, <1>15, Finished DEF Inv

-----------------------------------------------------------------------------
\* Steps that load or drop a request

LEMMA Loaded ==
    ASSUME Inv, NEW w \in Workers, NEW s \in Session, s # Idle, Load(w, s),
           LoginOK(s), RefreshOK(s), LogoutOK(s)
    PROVE  Inv'
  BY Installed DEF Load

LEMMA LoginLoaded ==
    ASSUME Inv, NEW w \in Workers, NEW u \in Users, NEW right \in BOOLEAN, LoginLoad(w, u, right)
    PROVE  Inv'
<1> DEFINE s == Attempt(u, right)
<1>1. /\ account[u] \in Account /\ now \in Nat /\ account[u].attempts <= failed[u]
      /\ ~Locked(account[u], now)
  BY DEF Inv, TypeOK, Counted, LoginLoad
<1>2. s \in Session /\ s # Idle
  BY <1>1 DEF Attempt, Session, Idle
<1>3. LoginOK(s) /\ RefreshOK(s) /\ LogoutOK(s)
  BY <1>1 DEF Attempt, LoginOK, RefreshOK, LogoutOK
<1>4. Load(w, s)
  BY DEF LoginLoad
<1> HIDE DEF s
<1> QED BY <1>2, <1>3, <1>4, Loaded

LEMMA RefreshLoaded ==
    ASSUME Inv, NEW w \in Workers, NEW i, RefreshLoad(w, i)
    PROVE  Inv'
<1> DEFINE s == [step |-> "refresh", user |-> token[i].user, id |-> i, at |-> now]
<1>1. i \in DOMAIN token /\ ~token[i].revoked /\ token[i].refresh > now
  BY DEF RefreshLoad
<1>2. token[i].user \in Users /\ i \in Nat /\ now \in Nat /\ token[i].refresh \in Nat
  BY <1>1, RowTypes DEF Inv, TypeOK
<1>3. s \in Session /\ s # Idle
  BY <1>2 DEF Session, Idle
<1>4. LoginOK(s) /\ RefreshOK(s) /\ LogoutOK(s)
  BY <1>1, <1>2 DEF LoginOK, RefreshOK, LogoutOK
<1>5. Load(w, s)
  BY DEF RefreshLoad
<1> HIDE DEF s
<1> QED BY <1>3, <1>4, <1>5, Loaded

LEMMA LogoutLoaded ==
    ASSUME Inv, NEW w \in Workers, NEW i, LogoutLoad(w, i)
    PROVE  Inv'
<1> DEFINE s == [step |-> "logout", user |-> token[i].user]
<1>1. i \in DOMAIN token /\ token[i].user \in Users
  BY RowTypes DEF Inv, LogoutLoad
<1>2. s \in Session /\ s # Idle
  BY <1>1 DEF Session, Idle
<1>3. LoginOK(s) /\ RefreshOK(s) /\ LogoutOK(s)
  BY DEF LoginOK, RefreshOK, LogoutOK
<1>4. Load(w, s)
  BY DEF LogoutLoad
<1> HIDE DEF s
<1> QED BY <1>2, <1>3, <1>4, Loaded

LEMMA LogoutSelected ==
    ASSUME Inv, NEW w \in Workers, LogoutSelect(w)
    PROVE  Inv'
<1> DEFINE u == session[w].user
<1>1. session[w] \in Session /\ session[w] # Idle /\ u \in Users
  <2>1. session[w] \in Session /\ session[w] # Idle
    BY DEF Inv, TypeOK, LogoutSelect, Idle
  <2> QED BY <2>1, RequestTypes
<1>2. PICK step \in {"logout_one", "logout_all"}, ids \in SUBSET Live(u) :
         /\ Selected(w, step, ids)
         /\ step = "logout_all" => ids = Live(u)
         /\ step = "logout_one" => \E i : ids = {i}
  BY DEF LogoutSelect
<1> DEFINE s == [step |-> step, user |-> u, ids |-> ids]
<1>3. DOMAIN token \subseteq Nat /\ session \in [Workers -> Session]
  BY RowTypes DEF Inv, TypeOK
<1>4. s \in Session /\ s # Idle
  BY <1>1, <1>2, <1>3 DEF Session, Idle, Live
<1>5. LoginOK(s) /\ RefreshOK(s) /\ LogoutOK(s)
  BY <1>2 DEF LoginOK, RefreshOK, LogoutOK, Live
<1>6. /\ session' = [session EXCEPT ![w] = s]
      /\ UNCHANGED <<contended, account, token, now, failed, recent, signed_out>>
  BY <1>2, <1>3 DEF Selected
<1>7. s.user = session[w].user
  OBVIOUS
<1> HIDE DEF s
<1> QED BY <1>1, <1>4, <1>5, <1>6, <1>7, Installed

LEMMA Aborted ==
    ASSUME Inv, NEW w \in Workers, Abort(w)
    PROVE  Inv'
<1>1. Idle \in Session /\ session' = [session EXCEPT ![w] = Idle]
  BY DEF Abort, Finish, Session
<1> QED BY <1>1, Installed DEF Abort

\* The invariant is inductive.
LEMMA Invariance == Inv /\ [Next]_vars => Inv'
<1> SUFFICES ASSUME Inv, [Next]_vars PROVE Inv'
  OBVIOUS
<1>1. ASSUME NEW w \in Workers, NEW u \in Users, NEW right \in BOOLEAN, LoginLoad(w, u, right)
      PROVE  Inv'
  BY <1>1, LoginLoaded
<1>2. ASSUME NEW w \in Workers, NEW i \in 1..MaxTokens, RefreshLoad(w, i) \/ LogoutLoad(w, i)
      PROVE  Inv'
  BY <1>2, RefreshLoaded, LogoutLoaded
<1>3. ASSUME NEW w \in Workers, LoginFailed(w) PROVE Inv'
  BY <1>3, FailedLogin
<1>4. ASSUME NEW w \in Workers, LoginSucceeded(w) PROVE Inv'
  BY <1>4, SucceededLogin
<1>5. ASSUME NEW w \in Workers, RefreshCommit(w) PROVE Inv'
  BY <1>5, Refreshed
<1>6. ASSUME NEW w \in Workers, LogoutSelect(w) PROVE Inv'
  BY <1>6, LogoutSelected
<1>7. ASSUME NEW w \in Workers, LogoutCommit(w) PROVE Inv'
  BY <1>7, LoggedOut
<1>8. ASSUME NEW w \in Workers, Abort(w) PROVE Inv'
  BY <1>8, Aborted
<1>9. CASE Tick
  BY <1>9, Ticked
<1>10. CASE UNCHANGED vars
  <2>1. (TypeOK /\ Lineage /\ Numbered /\ OneLivePerLogin /\ SignedOutStaysOut)'
    BY <1>10 DEF vars, Inv, TypeOK, Lineage, Numbered, OneLivePerLogin, SignedOutStaysOut, Live
  <2>2. (Counted /\ LockedForCause /\ FailuresCounted /\ Exclusive)'
    BY <1>10 DEF vars, Inv, Counted, LockedForCause, FailuresCounted, Exclusive
  <2>3. SessionsOK'
    BY <1>10 DEF vars, Inv, SessionsOK, LoginOK, RefreshOK, LogoutOK, Live, Locked
  <2> QED BY <2>1, <2>2, <2>3 DEF Inv
<1> QED BY <1>1, <1>2, <1>3, <1>4, <1>5, <1>6, <1>7, <1>8, <1>9, <1>10 DEF Next

LEMMA Invariant == Spec => []Inv
  BY Initial, Invariance, PTL DEF Spec

-----------------------------------------------------------------------------
\* Theorems

\* The tables and the requests have their types.
THEOREM TypeCorrect == Spec => []TypeOK
<1>1. Inv => TypeOK
  BY DEF Inv
<1> QED BY <1>1, Invariant, PTL

\* A rotated token is dead and its successor continues the same login, however
\* refreshes, logouts and logins overlap.
THEOREM LineageHolds == Spec => []Lineage
<1>1. Inv => Lineage
  BY DEF Inv
<1> QED BY <1>1, Invariant, PTL

\* No lock without enough failures on record, stale counts notwithstanding.
THEOREM LockedForCauseHolds == Spec => []LockedForCause
<1>1. Inv => LockedForCause
  BY DEF Inv
<1> QED BY <1>1, Invariant, PTL

\* One live pair per login of a user with one request at a time.
THEOREM OneLivePerLoginHolds == Spec => []OneLivePerLogin
<1>1. Inv => OneLivePerLogin
  BY DEF Inv
<1> QED BY <1>1, Invariant, PTL

\* The counter and the lock of such a user agree with its failures.
THEOREM FailuresCountedHolds == Spec => []FailuresCounted
<1>1. Inv => FailuresCounted
  BY DEF Inv
<1> QED BY <1>1, Invariant, PTL

\* No earlier login of such a user outlives a logout from everywhere.
THEOREM SignedOutStaysOutHolds == Spec => []SignedOutStaysOut
<1>1. Inv => SignedOutStaysOut
  BY DEF Inv
<1> QED BY <1>1, Invariant, PTL

\* What a lock keeps from happening to a user with one request at a time.
LockKeeps ==
    \A u \in Users \ contended :
        Locked(account[u], now) =>
            /\ account'[u] = account[u]
            /\ \A i \in DOMAIN token' \ DOMAIN token :
                  token'[i].user = u => token'[i].parent # 0

\* A row that only a login or a failure of the user itself could change stays
\* put, because neither of them has a locked row in hand.
LEMMA LockKept == Inv /\ [Next]_vars => LockKeeps
<1> SUFFICES ASSUME Inv, [Next]_vars, NEW u \in Users \ contended, Locked(account[u], now)
             PROVE  /\ account'[u] = account[u]
                    /\ \A i \in DOMAIN token' \ DOMAIN token :
                          token'[i].user = u => token'[i].parent # 0
  BY DEF LockKeeps
<1>1. \A w \in Workers :
         session[w].step \in {"login", "login_failed"} => session[w].user # u
  BY DEF Inv, SessionsOK, LoginOK
<1>2. account \in [Users -> Account]
  BY DEF Inv, TypeOK
<1>3. ASSUME NEW w \in Workers, LoginFailed(w) PROVE account'[u] = account[u] /\ token' = token
  <2>1. session[w].user # u
    BY <1>1, <1>3 DEF LoginFailed
  <2> QED BY <1>2, <1>3, <2>1 DEF LoginFailed
<1>4. ASSUME NEW w \in Workers, LoginSucceeded(w)
      PROVE  /\ account'[u] = account[u]
             /\ \A i \in DOMAIN token' \ DOMAIN token : token'[i].user # u
  <2>1. session[w].user # u
    BY <1>1, <1>4 DEF LoginSucceeded
  <2>2. account'[u] = account[u]
    BY <1>2, <1>4, <2>1 DEF LoginSucceeded
  <2>3. PICK login, at : token' = Append(token, Issued(session[w].user, login, 0, at))
    BY <1>4 DEF LoginSucceeded
  <2>4. \A i \in DOMAIN token' \ DOMAIN token :
           token'[i] = Issued(session[w].user, login, 0, at)
    BY <2>3 DEF Inv, TypeOK
  <2>5. \A i \in DOMAIN token' \ DOMAIN token : token'[i].user = session[w].user
    BY <2>4 DEF Issued
  <2> QED BY <2>1, <2>2, <2>5
<1>5. ASSUME NEW w \in Workers, RefreshCommit(w)
      PROVE  /\ account' = account
             /\ \A i \in DOMAIN token' \ DOMAIN token : token'[i].parent # 0
  <2>1. session[w] \in Session /\ session[w] # Idle /\ session[w].id \in DOMAIN token
    BY <1>5 DEF Inv, TypeOK, SessionsOK, RefreshOK, RefreshCommit, Idle
  <2>2. PICK ids, login, at :
           token' = Append(Revoke(ids), Issued(session[w].user, login, session[w].id, at))
    BY <1>5 DEF RefreshCommit
  <2>3. Revoke(ids) \in Seq(Token) /\ DOMAIN Revoke(ids) = DOMAIN token
    BY Revoking DEF Inv
  <2>4. \A i \in DOMAIN token' \ DOMAIN token :
           token'[i] = Issued(session[w].user, login, session[w].id, at)
    BY <2>2, <2>3
  <2>5. session[w].id # 0
    BY <2>1, RowTypes DEF Inv
  <2>6. \A i \in DOMAIN token' \ DOMAIN token : token'[i].parent = session[w].id
    BY <2>4 DEF Issued
  <2>7. account' = account
    BY <1>5 DEF RefreshCommit
  <2> QED BY <2>5, <2>6, <2>7
<1>6. ASSUME NEW w \in Workers, LogoutCommit(w)
      PROVE  account' = account /\ DOMAIN token' = DOMAIN token
  BY <1>6, Revoking DEF Inv, LogoutCommit
<1>7. CASE \E w \in Workers :
              \/ \E v \in Users, right \in BOOLEAN : LoginLoad(w, v, right)
              \/ \E i \in 1..MaxTokens : RefreshLoad(w, i) \/ LogoutLoad(w, i)
              \/ LogoutSelect(w)
              \/ Abort(w)
  BY <1>7 DEF LoginLoad, RefreshLoad, LogoutLoad, Load, LogoutSelect, Selected, Abort
<1>8. CASE Tick \/ UNCHANGED vars
  BY <1>8 DEF Tick, vars
<1> QED BY <1>3, <1>4, <1>5, <1>6, <1>7, <1>8 DEF Next

\* While a user with one request at a time is locked out, its row stands and no
\* login of it opens.
THEOREM LockStandsHolds == Spec => LockStands
<1>1. Inv /\ [Next]_vars => [LockKeeps]_vars
  BY LockKept
<1>2. Spec => [][LockKeeps]_vars
  BY <1>1, Invariant, PTL DEF Spec
<1> QED BY <1>2 DEF LockStands, LockKeeps

-----------------------------------------------------------------------------
\* Refinement

\* What Logins sees of the tables.
PromisedVars == <<Failures, Locks, Open, Used, now>>

PromisedStep == Promised!Next \/ UNCHANGED PromisedVars

\* A step that leaves the columns alone is not to be seen.
LEMMA NotSeen ==
    ASSUME UNCHANGED <<contended, account, token, now, recent>>
    PROVE  UNCHANGED PromisedVars
  BY DEF PromisedVars, Failures, Locks, Open, Used, Alone, Live

\* What a user with one request at a time is seen to have.
LEMMA Seen ==
    ASSUME NEW u \in Users
    PROVE  /\ u \notin contended =>
                 /\ Failures[u] = recent[u]
                 /\ Locks[u] = account[u].locked
                 /\ Open[u] = {token[i].login : i \in Live(u)}
           /\ u \in contended =>
                 /\ Failures[u] = 0
                 /\ Locks[u] = Null
                 /\ Open[u] = {}
  BY DEF Failures, Locks, Open, Alone

\* The lockout is seen to change for no more than the user whose row changes.
LEMMA LockoutSeen ==
    ASSUME NEW u \in Users, contended' = contended,
           \A x \in Users \ {u} : recent'[x] = recent[x] /\ account'[x] = account[x]
    PROVE  /\ u \in contended => UNCHANGED <<Failures, Locks>>
           /\ u \notin contended =>
                 /\ Failures' = [Failures EXCEPT ![u] = recent'[u]]
                 /\ Locks' = [Locks EXCEPT ![u] = account'[u].locked]
<1>1. CASE u \in contended
  <2>1. Failures' = Failures
    BY <1>1 DEF Failures, Alone
  <2>2. Locks' = Locks
    BY <1>1 DEF Locks, Alone
  <2> QED BY <1>1, <2>1, <2>2
<1>2. CASE u \notin contended
  <2>1. Failures' = [Failures EXCEPT ![u] = recent'[u]]
    BY <1>2 DEF Failures, Alone
  <2>2. Locks' = [Locks EXCEPT ![u] = account'[u].locked]
    BY <1>2 DEF Locks, Alone
  <2> QED BY <1>2, <2>1, <2>2
<1> QED BY <1>1, <1>2

\* The open logins are seen to change for no more than the user whose tokens
\* change.
LEMMA OpenSeen ==
    ASSUME NEW u \in Users, contended' = contended,
           \A x \in Users \ {u} :
              {token'[i].login : i \in Live(x)'} = {token[i].login : i \in Live(x)}
    PROVE  /\ u \in contended => UNCHANGED Open
           /\ u \notin contended =>
                 Open' = [Open EXCEPT ![u] = {token'[i].login : i \in Live(u)'}]
<1>1. CASE u \in contended
  BY <1>1 DEF Open, Alone
<1>2. CASE u \notin contended
  BY <1>2 DEF Open, Alone
<1> QED BY <1>1, <1>2

\* A failed login of a user with one request at a time is one Fail.
LEMMA FailedAsPromised ==
    ASSUME Inv, NEW w \in Workers, LoginFailed(w)
    PROVE  PromisedStep
<1> DEFINE s == session[w]
<1>1. s \in Session /\ s.step = "login_failed" /\ s # Idle
  BY DEF Inv, TypeOK, LoginFailed, Idle
<1>2. PICK u \in Users : u = s.user
  BY <1>1, RequestTypes
<1>3. ~Locked(s.row, now) /\ (u \notin contended => s.row = account[u])
  BY <1>1, <1>2 DEF Inv, SessionsOK, LoginOK
<1>4. UNCHANGED <<contended, token, now>>
  BY DEF LoginFailed
<1>5. Open' = Open /\ Used' = Used
  BY <1>4 DEF Open, Used, Alone, Live
<1>6. \A x \in Users \ {u} : recent'[x] = recent[x] /\ account'[x] = account[x]
  BY <1>2 DEF LoginFailed, Inv, TypeOK
<1>7. CASE u \in contended
  <2>1. UNCHANGED <<Failures, Locks>>
    BY <1>2, <1>4, <1>6, <1>7, LockoutSeen
  <2> QED BY <1>4, <1>5, <2>1 DEF PromisedStep, PromisedVars
<1>8. CASE u \notin contended
  <2>1. s.row = account[u] /\ account[u].attempts = recent[u] /\ recent[u] \in Nat
    BY <1>2, <1>3, <1>8 DEF Inv, TypeOK, FailuresCounted
  <2>2. recent'[u] = recent[u] + 1
    BY <1>2 DEF LoginFailed, Inv, TypeOK
  <2>3. account'[u].locked =
           IF recent[u] + 1 >= MaxAttempts THEN now + LockTime ELSE account[u].locked
    <3>1. account'[u].locked = Written(account[u].locked,
             IF LockNeeded(recent[u] + 1) THEN now + LockTime ELSE account[u].locked,
             account[u].locked)
      BY <1>2, <2>1 DEF LoginFailed, Inv, TypeOK, Account
    <3> QED BY <3>1 DEF Written, LockNeeded
  <2>4. Failures[u] = recent[u] /\ Locks[u] = account[u].locked
    BY <1>2, <1>8, Seen
  <2>5. Failures' = [Failures EXCEPT ![u] = Failures[u] + 1]
    BY <1>2, <1>4, <1>6, <1>8, <2>2, <2>4, LockoutSeen
  <2>6. Locks' = [Locks EXCEPT ![u] =
           IF Failures[u] + 1 >= MaxAttempts THEN now + LockTime ELSE Locks[u]]
    BY <1>2, <1>4, <1>6, <1>8, <2>3, <2>4, LockoutSeen
  <2>7. ~Promised!LockedOut(u)
    BY <1>3, <2>1, <2>4 DEF Promised!LockedOut, Locked
  <2>8. Promised!Fail(u)
    BY <1>4, <1>5, <2>5, <2>6, <2>7 DEF Promised!Fail
  <2> QED BY <1>2, <2>8 DEF PromisedStep, Promised!Next
<1> QED BY <1>7, <1>8

\* A successful login is one Login, under the number of its first token.
LEMMA SucceededAsPromised ==
    ASSUME Inv, NEW w \in Workers, LoginSucceeded(w)
    PROVE  PromisedStep
<1> DEFINE s == session[w]
           n == Len(token) + 1
<1>1. s \in Session /\ s.step = "login" /\ s # Idle
  BY DEF Inv, TypeOK, LoginSucceeded, Idle
<1>2. PICK u \in Users : u = s.user /\ s.at \in Nat
  BY <1>1, RequestTypes
<1> DEFINE new == Issued(u, n, 0, s.at)
<1>3. ~Locked(s.row, now) /\ (u \notin contended => s.row = account[u])
  BY <1>1, <1>2 DEF Inv, SessionsOK, LoginOK
<1>4. /\ Len(token) \in Nat /\ DOMAIN token = 1..Len(token) /\ token \in Seq(Token)
      /\ Len(token) < MaxTokens /\ UNCHANGED <<contended, now>>
  BY RowTypes DEF Inv, TypeOK, LoginSucceeded
<1>5. /\ \A x \in Users \ {u} : recent'[x] = recent[x] /\ account'[x] = account[x]
      /\ recent'[u] = 0
      /\ account'[u].locked = Written(s.row.locked, Null, account[u].locked)
  BY <1>2 DEF LoginSucceeded, Inv, TypeOK, Account
<1>6. new \in Token /\ new.user = u /\ new.login = n /\ ~new.revoked
  <2>1. n \in Nat /\ s.at \in Nat /\ u \in Users /\ new = Issued(u, n, 0, s.at)
    BY <1>2, <1>4
  <2> HIDE DEF s, n, new
  <2> QED BY <2>1, Issuing
<1>7. /\ DOMAIN token' = DOMAIN token \union {n}
      /\ \A i \in DOMAIN token : token'[i] = token[i]
      /\ token'[n] = new
      /\ n \notin DOMAIN token
  <2>1. token' = Append(token, new)
    BY <1>2 DEF LoginSucceeded
  <2> HIDE DEF new
  <2> QED BY <1>4, <1>6, <2>1, Appending
<1>8. \A x \in Users : Live(x)' = IF x = u THEN Live(x) \union {n} ELSE Live(x)
  BY <1>6, <1>7 DEF Live
<1>9. \A x \in Users : {token'[i].login : i \in Live(x)} = {token[i].login : i \in Live(x)}
  BY <1>7 DEF Live
<1>10. Used' = IF u \in contended THEN Used ELSE Used \union {n}
  <2>1. {j \in DOMAIN token' : token'[j].user \notin contended} =
           {j \in DOMAIN token : token[j].user \notin contended}
           \union (IF u \in contended THEN {} ELSE {n})
    BY <1>6, <1>7
  <2>2. token'[n].login = n
    BY <1>6, <1>7
  <2> HIDE DEF n, new
  <2> QED BY <1>4, <1>7, <2>1, <2>2 DEF Used
<1>11. \A x \in Users \ {u} :
          {token'[i].login : i \in Live(x)'} = {token[i].login : i \in Live(x)}
  BY <1>8, <1>9
<1>12. CASE u \in contended
  <2>1. UNCHANGED <<Failures, Locks>>
    BY <1>2, <1>4, <1>5, <1>12, LockoutSeen
  <2>2. UNCHANGED Open
    BY <1>2, <1>4, <1>11, <1>12, OpenSeen
  <2> QED BY <1>4, <1>10, <1>12, <2>1, <2>2 DEF PromisedStep, PromisedVars
<1>13. CASE u \notin contended
  <2>1. /\ Locks[u] = account[u].locked /\ s.row = account[u]
        /\ Open[u] = {token[i].login : i \in Live(u)}
    BY <1>2, <1>3, <1>13, Seen
  <2>2. Failures' = [Failures EXCEPT ![u] = 0] /\ Locks' = [Locks EXCEPT ![u] = Null]
    BY <1>2, <1>4, <1>5, <1>13, <2>1, LockoutSeen DEF Written
  <2>3. {token'[i].login : i \in Live(u)'} = Open[u] \union {n}
    <3>1. token'[n].login = n /\ Live(u)' = Live(u) \union {n}
      BY <1>2, <1>6, <1>7, <1>8
    <3>2. {token'[i].login : i \in Live(u)} = Open[u]
      BY <1>9, <2>1
    <3> HIDE DEF n, new
    <3> QED BY <3>1, <3>2
  <2>4. Open' = [Open EXCEPT ![u] = Open[u] \union {n}]
    BY <1>2, <1>4, <1>11, <1>13, <2>3, OpenSeen
  <2>5. n \notin Used
    BY <1>4 DEF Used, Inv, Numbered
  <2>6. ~Promised!LockedOut(u)
    BY <1>3, <2>1 DEF Promised!LockedOut, Locked
  <2>7. Promised!Login(u, n)
    BY <1>4, <1>10, <1>13, <2>2, <2>4, <2>5, <2>6 DEF Promised!Login
  <2>8. n \in 1..MaxTokens
    BY <1>4, AuthAssumption
  <2> QED BY <1>2, <2>7, <2>8 DEF PromisedStep, Promised!Next
<1> QED BY <1>12, <1>13

\* A refresh is not to be seen: its pair takes the place of the one it replaces.
LEMMA RefreshedAsPromised ==
    ASSUME Inv, NEW w \in Workers, RefreshCommit(w)
    PROVE  PromisedStep
<1> DEFINE s == session[w]
           id == s.id
           n == Len(token) + 1
           login == token[id].login
<1>1. s \in Session /\ s.step = "refresh" /\ s # Idle
  BY DEF Inv, TypeOK, RefreshCommit, Idle
<1>2. PICK u \in Users : u = s.user /\ id \in Nat /\ s.at \in Nat
  BY <1>1, RequestTypes
<1>3. id \in DOMAIN token /\ token[id].user = u /\ (u \notin contended => ~token[id].revoked)
  BY <1>1, <1>2 DEF Inv, SessionsOK, RefreshOK
<1>4. login \in Nat
  BY <1>3, RowTypes DEF Inv
<1>5. UNCHANGED <<contended, account, now, recent>>
  BY DEF RefreshCommit
<1>6. /\ DOMAIN token' = DOMAIN token \union {n}
      /\ n \notin DOMAIN token
      /\ token'[n].user = u /\ token'[n].login = login /\ ~token'[n].revoked
      /\ \A i \in DOMAIN token :
            /\ token'[i].user = token[i].user
            /\ token'[i].login = token[i].login
            /\ token'[i].revoked <=> (i = id \/ token[i].revoked)
  <2> DEFINE ids == {id}
             at == s.at
             new == Issued(u, login, id, at)
  <2>1. token' = Append(Revoke(ids), new)
    BY <1>2 DEF RefreshCommit
  <2>2. at \in Nat /\ TypeOK
    BY <1>2 DEF Inv
  <2>3. \A i : i \in ids <=> i = id
    OBVIOUS
  <2> HIDE DEF s, id, login, at, ids, new
  <2>4. new \in Token /\ new.user = u /\ new.login = login /\ ~new.revoked
    BY <1>2, <1>4, <2>2, Issuing DEF new
  <2> QED BY <2>1, <2>2, <2>3, <2>4, Added
<1> HIDE DEF id, n, login
<1>7. \A x \in Users : Live(x)' = IF x = u THEN (Live(x) \ {id}) \union {n} ELSE Live(x)
  BY <1>3, <1>6 DEF Live
<1>8. Failures' = Failures /\ Locks' = Locks
  BY <1>5 DEF Failures, Locks, Alone
<1>9. Used' = Used
  <2>1. {j \in DOMAIN token' : token'[j].user \notin contended} =
           {j \in DOMAIN token : token[j].user \notin contended}
           \union (IF u \in contended THEN {} ELSE {n})
    BY <1>6
  <2>2. u \notin contended => id \in {j \in DOMAIN token : token[j].user \notin contended}
    BY <1>3
  <2> QED BY <1>5, <1>6, <2>1, <2>2 DEF Used, login
<1>10. \A x \in Users \ {u} :
          {token'[i].login : i \in Live(x)'} = {token[i].login : i \in Live(x)}
  BY <1>6, <1>7 DEF Live
<1>11. CASE u \in contended
  <2>1. UNCHANGED Open
    BY <1>2, <1>5, <1>10, <1>11, OpenSeen
  <2> QED BY <1>5, <1>8, <1>9, <2>1 DEF PromisedStep, PromisedVars
<1>12. CASE u \notin contended
  <2>1. id \in Live(u) /\ Live(u)' = (Live(u) \ {id}) \union {n}
    BY <1>2, <1>3, <1>7, <1>12 DEF Live
  <2>2. \A i \in Live(u) : token'[i].login = token[i].login
    BY <1>6 DEF Live
  <2>3. {token'[i].login : i \in Live(u)'} = {token[i].login : i \in Live(u)}
    BY <1>6, <2>1, <2>2 DEF login
  <2>4. Open[u] = {token[i].login : i \in Live(u)}
    BY <1>2, <1>12, Seen
  <2>5. Open' = [Open EXCEPT ![u] = Open[u]]
    BY <1>2, <1>5, <1>10, <1>12, <2>3, <2>4, OpenSeen
  <2>6. Open' = Open
    BY <2>5 DEF Open
  <2> QED BY <1>5, <1>8, <1>9, <2>6 DEF PromisedStep, PromisedVars
<1> QED BY <1>11, <1>12

\* A logout is one Logout, of one login or of all that are open.
LEMMA LoggedOutAsPromised ==
    ASSUME Inv, NEW w \in Workers, LogoutCommit(w)
    PROVE  PromisedStep
<1> DEFINE s == session[w]
           ids == s.ids
<1>1. s \in Session /\ s.step \in {"logout_one", "logout_all"} /\ s # Idle
  BY DEF Inv, TypeOK, LogoutCommit, Idle
<1>2. PICK u \in Users : u = s.user
  BY <1>1, RequestTypes
<1>3. /\ \A i \in ids : i \in DOMAIN token /\ token[i].user = u
      /\ s.step = "logout_all" /\ u \notin contended => Live(u) \subseteq ids
      /\ s.step = "logout_one" => \E i : ids = {i}
  BY <1>1, <1>2 DEF Inv, SessionsOK, LogoutOK
<1>4. UNCHANGED <<contended, account, now, recent>>
  BY DEF LogoutCommit
<1>5. /\ DOMAIN token' = DOMAIN token
      /\ \A i \in DOMAIN token :
            /\ token'[i].user = token[i].user
            /\ token'[i].login = token[i].login
            /\ token'[i].revoked <=> (i \in ids \/ token[i].revoked)
  BY Revoking DEF Inv, LogoutCommit
<1> HIDE DEF ids
<1>6. \A x \in Users : Live(x)' = Live(x) \ ids
  BY <1>5 DEF Live
<1>7. \A x \in Users : \A i \in Live(x) : token'[i].login = token[i].login
  BY <1>5 DEF Live
<1>8. Failures' = Failures /\ Locks' = Locks
  BY <1>4 DEF Failures, Locks, Alone
<1>9. Used' = Used
  BY <1>4, <1>5 DEF Used
<1>10. \A x \in Users \ {u} :
          {token'[i].login : i \in Live(x)'} = {token[i].login : i \in Live(x)}
  <2>1. \A x \in Users \ {u} : Live(x) \ ids = Live(x)
    BY <1>3 DEF Live
  <2> QED BY <1>6, <1>7, <2>1
<1>11. CASE u \in contended
  <2>1. UNCHANGED Open
    BY <1>2, <1>4, <1>10, <1>11, OpenSeen
  <2> QED BY <1>4, <1>8, <1>9, <2>1 DEF PromisedStep, PromisedVars
<1>12. CASE u \notin contended
  <2>1. Open[u] = {token[i].login : i \in Live(u)}
    BY <1>2, <1>12, Seen
  <2>2. Open' = [Open EXCEPT ![u] = {token'[i].login : i \in Live(u)'}]
    BY <1>2, <1>4, <1>10, <1>12, OpenSeen
  <2>3. {token'[i].login : i \in Live(u)'} = {token[i].login : i \in Live(u) \ ids}
    BY <1>2, <1>6, <1>7
  <2>4. ASSUME NEW logins \in SUBSET Open[u],
               logins = Open[u] \/ \E login \in Open[u] : logins = {login},
               {token[i].login : i \in Live(u) \ ids} = Open[u] \ logins
        PROVE  PromisedStep
    <3>1. Open' = [Open EXCEPT ![u] = Open[u] \ logins]
      BY <2>2, <2>3, <2>4
    <3>2. Promised!Logout(u, logins)
      BY <1>4, <1>8, <1>9, <2>4, <3>1 DEF Promised!Logout
    <3> QED BY <1>2, <3>2 DEF PromisedStep, Promised!Next
  <2>5. CASE s.step = "logout_all"
    <3>1. {token[i].login : i \in Live(u) \ ids} = Open[u] \ Open[u]
      BY <1>3, <1>12, <2>5
    <3> QED BY <2>4, <3>1
  <2>6. CASE s.step = "logout_one"
    <3>1. PICK i : ids = {i}
      BY <1>3, <2>6
    <3>2. CASE i \in Live(u)
      <4>1. \A j \in Live(u) : token[j].login = token[i].login => j = i
        BY <1>2, <1>12, <3>2 DEF Inv, OneLivePerLogin
      <4>2. {token[j].login : j \in Live(u) \ ids} = Open[u] \ {token[i].login}
        BY <2>1, <3>1, <3>2, <4>1
      <4>3. token[i].login \in Open[u]
        BY <2>1, <3>2
      <4> QED BY <2>4, <4>2, <4>3
    <3>3. CASE i \notin Live(u)
      <4>1. Live(u) \ ids = Live(u)
        BY <3>1, <3>3
      <4>2. Open' = [Open EXCEPT ![u] = Open[u]]
        BY <2>1, <2>2, <2>3, <4>1
      <4>3. Open' = Open
        BY <4>2 DEF Open
      <4> QED BY <1>4, <1>8, <1>9, <4>3 DEF PromisedStep, PromisedVars
    <3> QED BY <3>2, <3>3
  <2> QED BY <1>1, <2>5, <2>6
<1> QED BY <1>11, <1>12

\* The clock of one is the clock of the other.
LEMMA TickedAsPromised ==
    ASSUME Tick
    PROVE  PromisedStep
<1>1. UNCHANGED <<Failures, Locks, Open, Used>>
  BY DEF Tick, Failures, Locks, Open, Used, Alone, Live
<1> QED BY <1>1 DEF Tick, Promised!Tick, Promised!Next, PromisedStep

\* Every step is a step of Logins or not to be seen.
LEMMA StepAsPromised == Inv /\ [Next]_vars => PromisedStep
<1> SUFFICES ASSUME Inv, [Next]_vars PROVE PromisedStep
  OBVIOUS
<1>1. ASSUME NEW w \in Workers, LoginFailed(w) PROVE PromisedStep
  BY <1>1, FailedAsPromised
<1>2. ASSUME NEW w \in Workers, LoginSucceeded(w) PROVE PromisedStep
  BY <1>2, SucceededAsPromised
<1>3. ASSUME NEW w \in Workers, RefreshCommit(w) PROVE PromisedStep
  BY <1>3, RefreshedAsPromised
<1>4. ASSUME NEW w \in Workers, LogoutCommit(w) PROVE PromisedStep
  BY <1>4, LoggedOutAsPromised
<1>5. CASE Tick
  BY <1>5, TickedAsPromised
<1>6. CASE \E w \in Workers :
              \/ \E u \in Users, right \in BOOLEAN : LoginLoad(w, u, right)
              \/ \E i \in 1..MaxTokens : RefreshLoad(w, i) \/ LogoutLoad(w, i)
              \/ LogoutSelect(w)
              \/ Abort(w)
  <2>1. UNCHANGED <<contended, account, token, now, recent>>
    BY <1>6 DEF LoginLoad, RefreshLoad, LogoutLoad, Load, LogoutSelect, Selected, Abort
  <2> QED BY <2>1, NotSeen DEF PromisedStep
<1>7. CASE UNCHANGED vars
  <2>1. UNCHANGED <<contended, account, token, now, recent>>
    BY <1>7 DEF vars
  <2> QED BY <2>1, NotSeen DEF PromisedStep
<1> QED BY <1>1, <1>2, <1>3, <1>4, <1>5, <1>6, <1>7 DEF Next

\* What a user with one request at a time sees of lockout, token pairs and
\* logouts is what Logins promises, one operation at a time.
THEOREM Refinement == Spec => ImplementsLogins
<1>1. Init => Promised!Init
  <2> SUFFICES ASSUME Init PROVE Promised!Init
    OBVIOUS
  <2>1. /\ Failures = [u \in Users |-> 0]
        /\ Locks = [u \in Users |-> Null]
    BY DEF Init, Failures, Locks, Alone
  <2>2. Open = [u \in Users |-> {}] /\ Used = {}
    BY DEF Init, Open, Used, Alone, Live
  <2> QED BY <2>1, <2>2 DEF Init, Promised!Init
<1>2. Inv /\ [Next]_vars => [Promised!Next]_(Promised!vars)
  <2>1. ASSUME UNCHANGED PromisedVars PROVE UNCHANGED Promised!vars
    BY <2>1 DEF PromisedVars, Promised!vars
  <2> QED BY <2>1, StepAsPromised DEF PromisedStep
<1> QED BY <1>1, <1>2, Invariant, PTL DEF Spec, ImplementsLogins, Promised!Spec
=============================================================================
