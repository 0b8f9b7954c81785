------------------------------ MODULE Accounts ------------------------------
(***************************************************************************)
(* The administration of accounts, roles and permissions while the API     *)
(* serves: rows of the identity tables and the audit log, and the requests *)
(* that add to them.  Startup composes it with the start of the container. *)
(*                                                                         *)
(* A row is a pair of its table and its key.  The keys are unique in the   *)
(* database and no handler deletes a row, so the tables are one set that   *)
(* grows.  is_superuser of a user is a row of its own here.                *)
(***************************************************************************)
EXTENDS Integers, Sequences

CONSTANTS
    Users,         \* usernames
    Roles,         \* role names
    Permissions,   \* permission codes
    Workers,       \* server threads
    Requests       \* bound: the assignments that are sent

VARIABLES
    rows,     \* users, roles, permissions, user_roles, role_permissions
    audits,   \* immutable_audit_logs: the number of entries about a row
    session   \* what a worker is about to do

accountVars == <<rows, audits, session>>

UserRow(u) == <<"user", u>>
SuperRow(u) == <<"superuser", u>>
RoleRow(r) == <<"role", r>>
PermissionRow(p) == <<"permission", p>>
BindingRow(table, to, item) == <<table, <<to, item>>>>

Bindings == ({"user_role"} \X (Users \X Roles)) \union ({"role_permission"} \X (Roles \X Permissions))
Audited == ({"user"} \X Users) \union Bindings
Row ==
    Audited \union ({"superuser"} \X Users) \union ({"role"} \X Roles)
            \union ({"permission"} \X Permissions)

\* Roles for a user, or permissions for a role; the single assignment is a list
\* of one.
Request ==
    [table : {"user_role"}, to : Users, items : Seq(Roles)]
    \union [table : {"role_permission"}, to : Roles, items : Seq(Permissions)]

ASSUME AccountsAssumption == Requests \subseteq Request

\* done is the number of items that are assigned.  An answer of 200 stays with
\* the worker until its next request.
Idle == [step |-> "idle"]
Session ==
    {Idle} \union [step : {"lookup", "insert", "answered"}, request : Requests, done : Nat]

AccountsInit ==
    /\ rows = {}
    /\ audits = [x \in Audited |-> 0]
    /\ session = [w \in Workers |-> Idle]

-----------------------------------------------------------------------------
\* The rows a request speaks of

Target(request) ==
    IF request.table = "user_role" THEN UserRow(request.to) ELSE RoleRow(request.to)

Item(w) == session[w].request.items[session[w].done + 1]

ItemRow(w) ==
    IF session[w].request.table = "user_role" THEN RoleRow(Item(w)) ELSE PermissionRow(Item(w))

Binding(w) == BindingRow(session[w].request.table, session[w].request.to, Item(w))

HasSuperuser == \E u \in Users : SuperRow(u) \in rows

Active(w) == session[w].step \in {"lookup", "insert"}

\* An error ends the request.
Refuse(w) ==
    /\ session' = [session EXCEPT ![w] = Idle]
    /\ UNCHANGED <<rows, audits>>

\* The loop over the list goes on, or answers with the number of its items.
Assigned(w) ==
    LET s == session[w]
    IN  session' = [session EXCEPT ![w] =
            [step |-> IF s.done + 1 = Len(s.request.items) THEN "answered" ELSE "lookup",
             request |-> s.request, done |-> s.done + 1]]

-----------------------------------------------------------------------------
\* Creation: one insert, refused by the unique name

CreateUser(u) ==
    /\ UserRow(u) \notin rows
    /\ rows' = rows \union {UserRow(u)}
    /\ audits' = [audits EXCEPT ![UserRow(u)] = @ + 1]
    /\ UNCHANGED session

CreateRole(r) ==
    /\ HasSuperuser
    /\ RoleRow(r) \notin rows
    /\ rows' = rows \union {RoleRow(r)}
    /\ UNCHANGED <<audits, session>>

CreatePermission(p) ==
    /\ HasSuperuser
    /\ PermissionRow(p) \notin rows
    /\ rows' = rows \union {PermissionRow(p)}
    /\ UNCHANGED <<audits, session>>

-----------------------------------------------------------------------------
\* Assignment: for each item of the list a lookup and a transaction of its own

AssignLoad(w, request) ==
    /\ ~Active(w)
    /\ HasSuperuser
    /\ Target(request) \in rows
    /\ request.items # <<>>
    /\ session' = [session EXCEPT ![w] = [step |-> "lookup", request |-> request, done |-> 0]]
    /\ UNCHANGED <<rows, audits>>

\* Mutant: an id nobody knows is skipped.
AssignLookupSkips(w) ==
    /\ session[w].step = "lookup"
    /\ IF ItemRow(w) \notin rows \/ Binding(w) \in rows THEN Assigned(w)
       ELSE session' = [session EXCEPT ![w].step = "insert"]
    /\ UNCHANGED <<rows, audits>>

\* An unknown item answers 404; what is bound already is left alone.
AssignLookup(w) ==
    /\ session[w].step = "lookup"
    /\ \/ /\ ItemRow(w) \notin rows
          /\ Refuse(w)
       \/ /\ ItemRow(w) \in rows
          /\ Binding(w) \in rows
          /\ Assigned(w)
          /\ UNCHANGED <<rows, audits>>
       \/ /\ ItemRow(w) \in rows
          /\ Binding(w) \notin rows
          /\ session' = [session EXCEPT ![w].step = "insert"]
          /\ UNCHANGED <<rows, audits>>

\* Mutant: the log of a refused insert is kept.
AssignInsertLogged(w) ==
    /\ session[w].step = "insert"
    /\ rows' = rows \union {Binding(w)}
    /\ audits' = [audits EXCEPT ![Binding(w)] = @ + 1]
    /\ Assigned(w)

\* The row and its log commit together.  The unique pair refuses a second
\* insert, which nobody catches: 500.
AssignInsert(w) ==
    /\ session[w].step = "insert"
    /\ \/ /\ Binding(w) \in rows
          /\ Refuse(w)
       \/ /\ Binding(w) \notin rows
          /\ rows' = rows \union {Binding(w)}
          /\ audits' = [audits EXCEPT ![Binding(w)] = @ + 1]
          /\ Assigned(w)

AccountsNext ==
    \/ \E u \in Users : CreateUser(u)
    \/ \E r \in Roles : CreateRole(r)
    \/ \E p \in Permissions : CreatePermission(p)
    \/ \E w \in Workers :
          \/ \E request \in Requests : AssignLoad(w, request)
          \/ AssignLookup(w)
          \/ AssignInsert(w)

-----------------------------------------------------------------------------
\* Properties

\* The type of the tables and the sessions; done points into the list.
AccountsTypeOK ==
    /\ rows \subseteq Row
    /\ audits \in [Audited -> Nat]
    /\ session \in [Workers -> Session]
    /\ \A w \in Workers : Active(w) => session[w].done < Len(session[w].request.items)

\* A request that answered 200 has bound every item of its list, however it
\* overlapped with others: security_admin.py answers the length of the list as
\* the number assigned.
AnsweredIsBound ==
    \A w \in Workers :
        session[w].step = "answered" =>
            \A i \in 1..Len(session[w].request.items) :
                LET r == session[w].request
                IN  BindingRow(r.table, r.to, r.items[i]) \in rows
=============================================================================
