--------------------------- MODULE StartupProofs ---------------------------
(***************************************************************************)
(* What holds of the accounts and of the start of the container for any    *)
(* number of users, roles, permissions, workers and crashes.               *)
(*                                                                         *)
(* The argument: what the seed has read as existing exists for good, since *)
(* nobody deletes a row, and what it read as missing it keeps in its       *)
(* session; so at every user it has reached everything before is stored or *)
(* about to be, and the API opens only after the last commit.  Bindings of *)
(* the seed are therefore stored before any request could log one of them. *)
(***************************************************************************)
EXTENDS Startup, TLAPS

SuperRows == {SuperRow(u) : u \in SeededUsers \intersect DefaultSupers}

\* What the seed of a running script has behind it.
Seeding ==
    /\ phase # "seeding" => seed = NoSeed
    /\ seed.at = 0 => seed.unwritten = {}
    /\ seed.at > 0 => ReferenceRows \subseteq rows \union seed.unwritten
    /\ \A i \in DOMAIN DefaultUsers :
          i < seed.at =>
              /\ UserRow(DefaultUsers[i]) \in rows
              /\ DefaultUsers[i] \in DefaultSupers =>
                     SuperRow(DefaultUsers[i]) \in rows \union seed.unwritten
    /\ seed.unwritten \subseteq ReferenceRows \union SuperRows

\* The API serves over the rows of the seed.
Served == phase = "serving" => SeedRows \subseteq rows

\* What a request has behind it.
Answers ==
    \A w \in Workers : session[w] # Idle =>
        LET s == session[w]
        IN  /\ \A i \in 1..s.done :
                  BindingRow(s.request.table, s.request.to, s.request.items[i]) \in rows
            /\ s.step = "answered" => s.done = Len(s.request.items)

Inv ==
    /\ TypeOK
    /\ Seeding
    /\ Served
    /\ Answers
    /\ AuditedOnce

-----------------------------------------------------------------------------
\* The rows

\* The rows of the seed fall into four groups, and are rows of the tables.
LEMMA SeedRowTypes ==
    /\ SeedRows = ReferenceRows \union MemberRows
                      \union {UserRow(u) : u \in SeededUsers} \union SuperRows
    /\ SeededUsers \subseteq Users
    /\ SeedRows \subseteq Row
    /\ DefaultUsers \in Seq(Users)
    /\ Len(DefaultUsers) \in Nat
    /\ DOMAIN DefaultUsers = 1..Len(DefaultUsers)
<1>1. /\ DefaultUsers \in Seq(Users)
      /\ Len(DefaultUsers) \in Nat
      /\ DOMAIN DefaultUsers = 1..Len(DefaultUsers)
  BY StartupAssumption
<1>2. SeededUsers \subseteq Users
  BY <1>1 DEF SeededUsers
<1>3. ReferenceRows \subseteq Row
  <2>1. \A r \in DefaultRoles : RoleRow(r) \in Row
    BY StartupAssumption DEF DefaultRoles, RoleRow, Row
  <2>2. \A r \in DefaultRoles : \A p \in RolePermissions[r] :
           /\ PermissionRow(p) \in Row
           /\ BindingRow("role_permission", r, p) \in Row
    BY StartupAssumption DEF DefaultRoles, PermissionRow, BindingRow, Row, Audited, Bindings
  <2>3. QED
    BY <2>1, <2>2 DEF ReferenceRows
<1>4. MemberRows \subseteq Row
  BY <1>2, StartupAssumption
  DEF MemberRows, SeededUsers, BindingRow, Row, Audited, Bindings
<1>5. {UserRow(u) : u \in SeededUsers} \union SuperRows \subseteq Row
  BY <1>2 DEF SuperRows, UserRow, SuperRow, Row, Audited
<1>6. SeedRows = ReferenceRows \union MemberRows
                      \union {UserRow(u) : u \in SeededUsers} \union SuperRows
  BY DEF SeedRows, SuperRows
<1>7. QED
  BY <1>1, <1>2, <1>3, <1>4, <1>5, <1>6

\* Users, superusers and bindings are told apart by their table.
LEMMA RowsApart ==
    /\ \A u \in Users : UserRow(u) \notin ReferenceRows \union MemberRows
    /\ SuperRows \intersect Audited = {}
    /\ \A u : UserRow(u) \notin Bindings
    /\ \A r : RoleRow(r) \notin Audited
    /\ \A p : PermissionRow(p) \notin Audited
<1>1. \A u \in Users : UserRow(u) \notin ReferenceRows \union MemberRows
  BY DEF UserRow, ReferenceRows, MemberRows, RoleRow, PermissionRow, BindingRow
<1>2. SuperRows \intersect Audited = {}
  BY DEF SuperRows, SuperRow, Audited, Bindings
<1>3. \A u : UserRow(u) \notin Bindings
  BY DEF UserRow, Bindings
<1>4. /\ \A r : RoleRow(r) \notin Audited
      /\ \A p : PermissionRow(p) \notin Audited
  BY DEF RoleRow, PermissionRow, Audited, Bindings
<1>5. QED
  BY <1>1, <1>2, <1>3, <1>4

\* An active request points at an item of its list.
LEMMA ActiveTypes ==
    ASSUME AccountsTypeOK, NEW w \in Workers, Active(w)
    PROVE  /\ session[w].request \in Requests
           /\ session[w].done \in Nat
           /\ Len(session[w].request.items) \in Nat
           /\ session[w].done + 1 \in 1..Len(session[w].request.items)
           /\ session[w].step \in {"lookup", "insert"}
           /\ session[w] \in [step : {"lookup", "insert", "answered"}, request : Requests, done : Nat]
           /\ session[w] # Idle
           /\ Binding(w) \in Bindings
<1> DEFINE s == session[w]
           r == s.request
<1>1. /\ s \in [step : {"lookup", "insert", "answered"}, request : Requests, done : Nat]
      /\ s.step \in {"lookup", "insert"}
      /\ s # Idle
  BY DEF AccountsTypeOK, Session, Idle, Active
<1>2. r \in Request
  BY <1>1, AccountsAssumption
<1>3. \/ r.table = "user_role" /\ r.to \in Users /\ r.items \in Seq(Roles)
      \/ r.table = "role_permission" /\ r.to \in Roles /\ r.items \in Seq(Permissions)
  BY <1>2 DEF Request
<1>4. /\ Len(r.items) \in Nat
      /\ s.done + 1 \in 1..Len(r.items)
  BY <1>1, <1>3 DEF AccountsTypeOK
<1>5. CASE r.table = "user_role" /\ r.to \in Users /\ r.items \in Seq(Roles)
  <2>1. r.items[s.done + 1] \in Roles
    BY <1>4, <1>5
  <2>2. Binding(w) \in {"user_role"} \X (Users \X Roles)
    BY <1>5, <2>1 DEF Binding, BindingRow, Item
  <2>3. QED
    BY <1>1, <1>4, <2>2 DEF Bindings
<1>6. CASE r.table = "role_permission" /\ r.to \in Roles /\ r.items \in Seq(Permissions)
  <2>1. r.items[s.done + 1] \in Permissions
    BY <1>4, <1>6
  <2>2. Binding(w) \in {"role_permission"} \X (Roles \X Permissions)
    BY <1>6, <2>1 DEF Binding, BindingRow, Item
  <2>3. QED
    BY <1>1, <1>4, <2>2 DEF Bindings
<1>7. QED
  BY <1>3, <1>5, <1>6

-----------------------------------------------------------------------------
\* Rows are only added

\* A step adds to the tables or leaves them; requests run only while the API
\* serves.
LEMMA RowsGrow ==
    ASSUME Next
    PROVE  rows \subseteq rows'
<1>1. CASE ScriptStep
  BY <1>1 DEF ScriptStep, StartApi, DatabaseReady, Migrate, SeedReference, SeedExistingUser,
     SeedNewUser, SeedFinish, accountVars
<1>2. CASE StartDatabase \/ CrashApi \/ CrashDatabase
  BY <1>2 DEF StartDatabase, CrashApi, CrashDatabase, accountVars
<1>3. CASE Serve
  BY <1>3 DEF Serve, AccountsNext, CreateUser, CreateRole, CreatePermission, AssignLoad,
     AssignLookup, AssignInsert, Refuse
<1>4. QED
  BY <1>1, <1>2, <1>3 DEF Next

-----------------------------------------------------------------------------
\* The seed

LEMMA InitInv ==
    ASSUME Init
    PROVE  Inv
<1> USE DEF Init, AccountsInit
<1>1. AccountsTypeOK
  <2>1. session \in [Workers -> Session]
    BY DEF Session
  <2>2. \A w \in Workers : ~Active(w)
    BY DEF Active, Idle
  <2>3. QED
    BY <2>1, <2>2 DEF AccountsTypeOK
<1>2. TypeOK
  <2>1. NoSeed \in [at : 0..(Len(DefaultUsers) + 1), unwritten : SUBSET SeedRows]
    BY SeedRowTypes DEF NoSeed
  <2>2. 0 \in 0..MaxCrashes
    BY StartupAssumption
  <2>3. QED
    BY <1>1, <2>1, <2>2 DEF TypeOK, Phases
<1>3. Seeding
  BY SeedRowTypes DEF Seeding, NoSeed
<1>4. Served /\ Answers
  BY DEF Served, Answers, Idle
<1>5. AuditedOnce
  BY DEF AuditedOnce
<1>6. QED
  BY <1>2, <1>3, <1>4, <1>5 DEF Inv

\* No step of the script loses track of what is stored and what is to be.
LEMMA SeedingStep ==
    ASSUME Inv, [Next]_vars
    PROVE  Seeding' /\ Served'
<1> USE SeedRowTypes DEF Inv, TypeOK
<1>1. CASE StartApi \/ DatabaseReady \/ Migrate
  BY <1>1 DEF StartApi, DatabaseReady, Migrate, Seeding, Served, accountVars
<1>2. CASE SeedReference
  BY <1>2 DEF SeedReference, Seeding, Served, Missing, accountVars
<1>3. CASE SeedExistingUser
  <2> DEFINE u == DefaultUsers[seed.at]
             super == IF u \in DefaultSupers THEN Missing({SuperRow(u)}) ELSE {}
  <2>1. /\ phase = "seeding"
        /\ seed.at \in DOMAIN DefaultUsers
        /\ UserRow(u) \in rows
        /\ seed' = [at |-> seed.at + 1, unwritten |-> seed.unwritten \union super]
        /\ rows' = rows
        /\ phase' = phase
    BY <1>3 DEF SeedExistingUser, accountVars
  <2>2. u \in SeededUsers
    BY <2>1 DEF SeededUsers
  <2>3. /\ u \in DefaultSupers => SuperRow(u) \in rows \union super
        /\ super \subseteq SuperRows
    BY <2>2 DEF Missing, SuperRows
  <2>4. seed.at \in Nat /\ seed.at > 0
    BY <2>1
  <2>5. ASSUME NEW i \in DOMAIN DefaultUsers, i < seed'.at
        PROVE  /\ UserRow(DefaultUsers[i]) \in rows'
               /\ DefaultUsers[i] \in DefaultSupers =>
                      SuperRow(DefaultUsers[i]) \in rows' \union seed'.unwritten
    <3>1. i < seed.at \/ i = seed.at
      BY <2>1, <2>4, <2>5
    <3>2. QED
      BY <3>1, <2>1, <2>3 DEF Seeding
  <2>6. /\ phase' = "seeding"
        /\ seed'.at > 0
        /\ seed'.at # 0
        /\ seed'.unwritten = seed.unwritten \union super
    BY <2>1, <2>4
  <2>7. /\ ReferenceRows \subseteq rows' \union seed'.unwritten
        /\ seed'.unwritten \subseteq ReferenceRows \union SuperRows
    BY <2>1, <2>3, <2>4, <2>6 DEF Seeding
  <2>8. Seeding'
    BY <2>5, <2>6, <2>7 DEF Seeding
  <2>9. QED
    BY <2>1, <2>8 DEF Served
<1>4. CASE SeedNewUser
  <2> DEFINE u == DefaultUsers[seed.at]
             super == IF u \in DefaultSupers THEN {SuperRow(u)} ELSE {}
  <2>1. /\ phase = "seeding"
        /\ seed.at \in DOMAIN DefaultUsers
        /\ rows' = rows \union seed.unwritten \union {UserRow(u)}
        /\ seed' = [at |-> seed.at + 1, unwritten |-> super]
        /\ phase' = phase
    BY <1>4 DEF SeedNewUser
  <2>2. u \in SeededUsers
    BY <2>1 DEF SeededUsers
  <2>3. super \subseteq SuperRows
    BY <2>2 DEF SuperRows
  <2>4. seed.at \in Nat /\ seed.at > 0
    BY <2>1
  <2>5. ASSUME NEW i \in DOMAIN DefaultUsers, i < seed'.at
        PROVE  /\ UserRow(DefaultUsers[i]) \in rows'
               /\ DefaultUsers[i] \in DefaultSupers =>
                      SuperRow(DefaultUsers[i]) \in rows' \union seed'.unwritten
    <3>1. i < seed.at \/ i = seed.at
      BY <2>1, <2>4, <2>5
    <3>2. QED
      BY <3>1, <2>1 DEF Seeding
  <2>6. QED
    BY <2>1, <2>3, <2>4, <2>5 DEF Seeding, Served
<1>5. CASE SeedFinish
  <2>1. /\ rows' = rows \union seed.unwritten \union Missing(MemberRows)
        /\ seed' = NoSeed
        /\ seed.at = Len(DefaultUsers) + 1
    BY <1>5 DEF SeedFinish
  <2>2. \A i \in DOMAIN DefaultUsers : i < seed.at
    BY <2>1
  <2>3. {UserRow(u) : u \in SeededUsers} \subseteq rows'
    BY <2>1, <2>2 DEF Seeding, SeededUsers
  <2>4. SuperRows \subseteq rows'
    BY <2>1, <2>2 DEF Seeding, SeededUsers, SuperRows
  <2>5. ReferenceRows \subseteq rows' /\ MemberRows \subseteq rows'
    BY <2>1 DEF Seeding, Missing
  <2>6. SeedRows \subseteq rows'
    BY <2>3, <2>4, <2>5
  <2>7. QED
    BY <2>1, <2>6 DEF Seeding, Served, NoSeed
<1>6. CASE StartDatabase
  BY <1>6 DEF StartDatabase, Seeding, Served, accountVars
<1>7. CASE CrashApi \/ CrashDatabase
  BY <1>7 DEF CrashApi, CrashDatabase, Seeding, Served, NoSeed
<1>8. CASE Serve
  <2>1. rows \subseteq rows'
    BY <1>8, RowsGrow DEF Next
  <2>2. QED
    BY <1>8, <2>1 DEF Serve, lifeVars, Seeding, Served
<1>9. CASE UNCHANGED vars
  BY <1>9 DEF vars, Seeding, Served
<1>10. QED
  BY <1>1, <1>2, <1>3, <1>4, <1>5, <1>6, <1>7, <1>8, <1>9 DEF Next, ScriptStep

-----------------------------------------------------------------------------
\* Types

\* What the seed still has to write are rows of the seed.
LEMMA SeedTypeStep ==
    ASSUME Inv, [Next]_vars
    PROVE  /\ seed' \in [at : 0..(Len(DefaultUsers) + 1), unwritten : SUBSET SeedRows]
           /\ phase' \in Phases
           /\ database' \in {"up", "down"}
           /\ schema' \in BOOLEAN
           /\ crashes' \in 0..MaxCrashes
<1> DEFINE Seeds == [at : 0..(Len(DefaultUsers) + 1), unwritten : SUBSET SeedRows]
<1> USE SeedRowTypes DEF Inv, TypeOK, Phases
<1>1. NoSeed \in Seeds
  BY DEF NoSeed
<1>2. crashes < MaxCrashes => crashes + 1 \in 0..MaxCrashes
  BY StartupAssumption
<1>3. CASE StartApi \/ DatabaseReady \/ Migrate
  BY <1>3 DEF StartApi, DatabaseReady, Migrate
<1>4. CASE SeedReference
  <2>1. Missing(ReferenceRows) \subseteq SeedRows
    BY DEF Missing
  <2>2. [at |-> 1, unwritten |-> Missing(ReferenceRows)] \in Seeds
    BY <2>1
  <2>3. QED
    BY <1>4, <2>2 DEF SeedReference
<1>5. CASE SeedExistingUser \/ SeedNewUser
  <2> DEFINE u == DefaultUsers[seed.at]
  <2>1. seed.at \in DOMAIN DefaultUsers
    BY <1>5 DEF SeedExistingUser, SeedNewUser
  <2>2. seed.at + 1 \in 0..(Len(DefaultUsers) + 1)
    BY <2>1
  <2>3. u \in DefaultSupers => SuperRow(u) \in SeedRows
    BY <2>1 DEF SeededUsers, SuperRows
  <2>4. CASE SeedExistingUser
    <3> DEFINE left == seed.unwritten \union
                           (IF u \in DefaultSupers THEN Missing({SuperRow(u)}) ELSE {})
    <3>1. left \in SUBSET SeedRows
      BY <2>3 DEF Missing
    <3>2. [at |-> seed.at + 1, unwritten |-> left] \in Seeds
      BY <2>2, <3>1
    <3>3. QED
      BY <2>4, <3>2 DEF SeedExistingUser
  <2>5. CASE SeedNewUser
    <3> DEFINE left == IF u \in DefaultSupers THEN {SuperRow(u)} ELSE {}
    <3>1. left \in SUBSET SeedRows
      BY <2>3
    <3>2. [at |-> seed.at + 1, unwritten |-> left] \in Seeds
      BY <2>2, <3>1
    <3>3. QED
      BY <2>5, <3>2 DEF SeedNewUser
  <2>6. QED
    BY <1>5, <2>4, <2>5
<1>6. CASE SeedFinish
  BY <1>1, <1>6 DEF SeedFinish
<1>7. CASE StartDatabase
  BY <1>7 DEF StartDatabase
<1>8. CASE CrashApi \/ CrashDatabase
  BY <1>1, <1>2, <1>8 DEF CrashApi, CrashDatabase
<1>9. CASE Serve \/ UNCHANGED vars
  BY <1>9 DEF Serve, lifeVars, vars
<1>10. QED
  BY <1>3, <1>4, <1>5, <1>6, <1>7, <1>8, <1>9 DEF Next, ScriptStep

\* The tables grow by rows of their own kind, the log only counts upwards.
LEMMA TableTypeStep ==
    ASSUME Inv, [Next]_vars
    PROVE  rows' \subseteq Row /\ audits' \in [Audited -> Nat]
<1> USE SeedRowTypes DEF Inv, TypeOK, AccountsTypeOK
<1>1. CASE SeedNewUser
  <2>1. DefaultUsers[seed.at] \in Users
    BY <1>1 DEF SeedNewUser
  <2>2. UserRow(DefaultUsers[seed.at]) \in Audited
    BY <2>1 DEF UserRow, Audited
  <2>3. Audited \subseteq Row
    BY DEF Row
  <2>4. seed.unwritten \subseteq Row
    OBVIOUS
  <2>5. QED
    BY <1>1, <2>2, <2>3, <2>4 DEF SeedNewUser
<1>2. CASE SeedFinish
  BY <1>2 DEF SeedFinish, Missing
<1>3. CASE Serve
  <2>1. ASSUME NEW u \in Users, CreateUser(u)
        PROVE  rows' \subseteq Row /\ audits' \in [Audited -> Nat]
    BY <2>1 DEF CreateUser, UserRow, Audited, Row
  <2>2. ASSUME NEW r \in Roles, CreateRole(r)
        PROVE  rows' \subseteq Row /\ audits' \in [Audited -> Nat]
    BY <2>2 DEF CreateRole, RoleRow, Row
  <2>3. ASSUME NEW p \in Permissions, CreatePermission(p)
        PROVE  rows' \subseteq Row /\ audits' \in [Audited -> Nat]
    BY <2>3 DEF CreatePermission, PermissionRow, Row
  <2>4. ASSUME NEW w \in Workers, AssignLookup(w) \/ \E request \in Requests : AssignLoad(w, request)
        PROVE  rows' \subseteq Row /\ audits' \in [Audited -> Nat]
    BY <2>4 DEF AssignLookup, AssignLoad, Refuse
  <2>5. ASSUME NEW w \in Workers, AssignInsert(w)
        PROVE  rows' \subseteq Row /\ audits' \in [Audited -> Nat]
    <3>1. Active(w)
      BY <2>5 DEF AssignInsert, Active
    <3>2. Binding(w) \in Audited
      BY <3>1, ActiveTypes DEF Audited
    <3>3. Audited \subseteq Row
      BY DEF Row
    <3>4. QED
      BY <2>5, <3>2, <3>3 DEF AssignInsert, Refuse
  <2>6. QED
    BY <1>3, <2>1, <2>2, <2>3, <2>4, <2>5 DEF Serve, AccountsNext
<1>4. CASE UNCHANGED <<rows, audits>>
  BY <1>4
<1>5. QED
  BY <1>1, <1>2, <1>3, <1>4 DEF Next, ScriptStep, StartApi, DatabaseReady, Migrate, SeedReference,
     SeedExistingUser, StartDatabase, CrashApi, CrashDatabase, accountVars, vars

-----------------------------------------------------------------------------
\* Requests

\* What a session may say over the tables stored.
Sound(s, stored) ==
    s # Idle =>
        /\ s \in [step : {"lookup", "insert", "answered"}, request : Requests, done : Nat]
        /\ s.step \in {"lookup", "insert"} => s.done < Len(s.request.items)
        /\ s.step = "answered" => s.done = Len(s.request.items)
        /\ \A i \in 1..s.done :
              BindingRow(s.request.table, s.request.to, s.request.items[i]) \in stored

\* The invariant says it of every session.
LEMMA SoundSessions ==
    ASSUME Inv
    PROVE  \A w \in Workers : Sound(session[w], rows)
BY DEF Inv, TypeOK, AccountsTypeOK, Answers, Sound, Session, Active

\* ... and nothing else.
LEMMA SoundEnough ==
    ASSUME DOMAIN session = Workers, session = [w \in Workers |-> session[w]],
           rows \subseteq Row, audits \in [Audited -> Nat],
           \A w \in Workers : Sound(session[w], rows)
    PROVE  AccountsTypeOK /\ Answers
<1>1. \A w \in Workers : session[w] \in Session
  BY DEF Sound, Session
<1>2. session \in [Workers -> Session]
  BY <1>1
<1>3. \A w \in Workers : Active(w) => session[w].done < Len(session[w].request.items)
  BY DEF Sound, Active, Idle
<1>4. Answers
  BY DEF Sound, Answers
<1>5. QED
  BY <1>2, <1>3, <1>4 DEF AccountsTypeOK

\* Rows that are added do not disturb a session.
LEMMA SoundGrows ==
    ASSUME NEW s, NEW stored, NEW more, Sound(s, stored), stored \subseteq more
    PROVE  Sound(s, more)
BY DEF Sound

\* The loop goes on only over an item that is bound.
LEMMA AssignedIsSound ==
    ASSUME AccountsTypeOK, NEW w \in Workers, Active(w), NEW stored,
           Sound(session[w], stored), Binding(w) \in stored, Assigned(w)
    PROVE  /\ session' = [session EXCEPT ![w] = session'[w]]
           /\ Sound(session'[w], stored)
<1> DEFINE s == session[w]
           step == IF s.done + 1 = Len(s.request.items) THEN "answered" ELSE "lookup"
           t == [step |-> step, request |-> s.request, done |-> s.done + 1]
<1>1. /\ s \in [step : {"lookup", "insert", "answered"}, request : Requests, done : Nat]
      /\ s # Idle
      /\ s.done + 1 \in 1..Len(s.request.items)
      /\ Len(s.request.items) \in Nat
      /\ s.done \in Nat
  BY ActiveTypes
<1>2. session \in [Workers -> Session] /\ session' = [session EXCEPT ![w] = t]
  BY DEF AccountsTypeOK, Assigned
<1>3. session'[w] = t
  BY <1>2
<1>4. /\ t \in [step : {"lookup", "insert", "answered"}, request : Requests, done : Nat]
      /\ t.done = s.done + 1
      /\ t.request = s.request
      /\ t.step = step
  BY <1>1
<1>5. ASSUME NEW i \in 1..t.done
      PROVE  BindingRow(t.request.table, t.request.to, t.request.items[i]) \in stored
  <2>1. i \in 1..s.done \/ i = s.done + 1
    BY <1>1, <1>4
  <2>2. CASE i \in 1..s.done
    BY <1>1, <1>4, <2>2 DEF Sound
  <2>3. CASE i = s.done + 1
    BY <1>4, <2>3 DEF Binding, Item
  <2>4. QED
    BY <2>1, <2>2, <2>3
<1>6. t.step = "answered" => t.done = Len(t.request.items)
  BY <1>4
<1>7. t.step \in {"lookup", "insert"} => t.done < Len(t.request.items)
  BY <1>1, <1>4
<1>8. Sound(t, stored)
  BY <1>4, <1>5, <1>6, <1>7 DEF Sound
<1>9. QED
  BY <1>2, <1>3, <1>8

\* A step changes no session, closes them all, or moves one to where it may be.
LEMMA SessionStep ==
    ASSUME Inv, [Next]_vars
    PROVE  /\ DOMAIN session' = Workers
           /\ session' = [w \in Workers |-> session'[w]]
           /\ \A w \in Workers : Sound(session'[w], rows')
<1> DEFINE Moved(w) ==
              /\ session' = [session EXCEPT ![w] = session'[w]]
              /\ Sound(session'[w], rows')
<1>1. /\ AccountsTypeOK
      /\ session \in [Workers -> Session]
      /\ \A w \in Workers : Sound(session[w], rows)
  BY SoundSessions DEF Inv, TypeOK, AccountsTypeOK
<1>2. rows \subseteq rows'
  BY RowsGrow DEF vars
<1>3. \A w \in Workers : Sound(session[w], rows')
  BY <1>1, <1>2, SoundGrows
<1>4. CASE UNCHANGED session
  BY <1>1, <1>3, <1>4
<1>5. CASE NoSessions
  BY <1>5 DEF NoSessions, Sound
<1>6. ASSUME NEW w \in Workers, Moved(w)
      PROVE  /\ DOMAIN session' = Workers
             /\ session' = [v \in Workers |-> session'[v]]
             /\ \A v \in Workers : Sound(session'[v], rows')
  <2>1. /\ DOMAIN session' = Workers
        /\ session' = [v \in Workers |-> session'[v]]
        /\ \A v \in Workers \ {w} : session'[v] = session[v]
    BY <1>1, <1>6
  <2>2. QED
    BY <1>3, <1>6, <2>1
<1>7. CASE Serve
  <2>1. ASSUME NEW w \in Workers, Refuse(w)
        PROVE  Moved(w)
    BY <1>1, <2>1 DEF Refuse, Sound
  <2>2. ASSUME NEW w \in Workers, NEW request \in Requests, AssignLoad(w, request)
        PROVE  Moved(w)
    <3> DEFINE t == [step |-> "lookup", request |-> request, done |-> 0]
    <3>1. session' = [session EXCEPT ![w] = t] /\ request.items # <<>>
      BY <2>2 DEF AssignLoad
    <3>2. Len(request.items) \in Nat /\ 0 < Len(request.items)
      <4>1. \/ request.items \in Seq(Roles)
            \/ request.items \in Seq(Permissions)
        BY AccountsAssumption DEF Request
      <4>2. QED
        BY <3>1, <4>1
    <3>3. Sound(t, rows')
      BY <3>2 DEF Sound
    <3>4. QED
      BY <1>1, <3>1, <3>3
  <2>3. ASSUME NEW w \in Workers, AssignLookup(w), ~Refuse(w)
        PROVE  Moved(w)
    <3>1. Active(w) /\ rows' = rows
      BY <2>3 DEF AssignLookup, Active, Refuse
    <3>2. CASE Binding(w) \in rows /\ Assigned(w)
      BY <1>1, <3>1, <3>2, AssignedIsSound
    <3>3. CASE session' = [session EXCEPT ![w].step = "insert"]
      <4>1. /\ session[w] \in [step : {"lookup", "insert", "answered"}, request : Requests, done : Nat]
            /\ session[w].step \in {"lookup", "insert"}
            /\ session[w] # Idle
        BY <1>1, <3>1, ActiveTypes
      <4>2. session'[w] = [session[w] EXCEPT !.step = "insert"]
        BY <1>1, <3>3
      <4>3. Sound(session'[w], rows')
        BY <1>3, <4>1, <4>2 DEF Sound
      <4>4. QED
        BY <1>1, <3>3, <4>3
    <3>4. QED
      BY <2>3, <3>2, <3>3 DEF AssignLookup
  <2>4. ASSUME NEW w \in Workers, AssignInsert(w), ~Refuse(w)
        PROVE  Moved(w)
    <3>1. Active(w) /\ Binding(w) \in rows' /\ Assigned(w)
      BY <2>4 DEF AssignInsert, Active
    <3>2. QED
      BY <1>1, <1>3, <3>1, AssignedIsSound
  <2>5. \/ UNCHANGED session
        \/ \E w \in Workers : Moved(w)
    BY <1>7, <2>1, <2>2, <2>3, <2>4 DEF Serve, AccountsNext, CreateUser, CreateRole, CreatePermission
  <2>6. QED
    BY <1>4, <1>6, <2>5
<1>8. QED
  BY <1>4, <1>5, <1>7 DEF Next, ScriptStep, StartApi, DatabaseReady, Migrate, SeedReference,
     SeedExistingUser, SeedNewUser, SeedFinish, StartDatabase, CrashApi, CrashDatabase, accountVars, vars

-----------------------------------------------------------------------------
\* The audit log

\* Who logs a row is the one who adds it, and it is none of the seed's
\* bindings: those were stored before the API served.
LEMMA AuditStep ==
    ASSUME Inv, [Next]_vars
    PROVE  AuditedOnce'
<1> DEFINE Seeded == ReferenceRows \union MemberRows
           Once(x) == audits'[x] = IF x \in rows' /\ x \notin Seeded THEN 1 ELSE 0
<1> USE DEF Inv
<1>1. /\ audits \in [Audited -> Nat]
      /\ \A x \in Audited : audits[x] = IF x \in rows /\ x \notin Seeded THEN 1 ELSE 0
  BY DEF TypeOK, AccountsTypeOK, AuditedOnce
<1>2. CASE UNCHANGED <<rows, audits>>
  BY <1>1, <1>2 DEF AuditedOnce
<1>3. CASE SeedNewUser
  <2> DEFINE u == DefaultUsers[seed.at]
  <2>1. u \in Users
    BY <1>3, SeedRowTypes DEF SeedNewUser
  <2>2. /\ UserRow(u) \notin rows
        /\ UserRow(u) \notin Seeded
        /\ UserRow(u) \in Audited
    BY <1>3, <2>1, RowsApart DEF SeedNewUser, UserRow, Audited
  <2>3. /\ rows' = rows \union seed.unwritten \union {UserRow(u)}
        /\ audits' = [audits EXCEPT ![UserRow(u)] = @ + 1]
    BY <1>3 DEF SeedNewUser
  <2>4. ASSUME NEW x \in Audited
        PROVE  Once(x)
    <3>1. x \in seed.unwritten => x \in Seeded
      BY <2>4, RowsApart DEF Seeding
    <3>2. CASE x = UserRow(u)
      BY <1>1, <2>2, <2>3, <3>2
    <3>3. CASE x # UserRow(u)
      BY <1>1, <2>3, <3>1, <3>3
    <3>4. QED
      BY <3>2, <3>3
  <2>5. QED
    BY <2>4 DEF AuditedOnce
<1>4. CASE SeedFinish
  <2>1. /\ audits' = audits
        /\ rows' = rows \union seed.unwritten \union Missing(MemberRows)
    BY <1>4 DEF SeedFinish
  <2>2. ASSUME NEW x \in Audited
        PROVE  Once(x)
    <3>1. x \in seed.unwritten \union Missing(MemberRows) => x \in Seeded
      BY <2>2, RowsApart DEF Seeding, Missing
    <3>2. QED
      BY <1>1, <2>1, <3>1
  <2>3. QED
    BY <2>2 DEF AuditedOnce
<1>5. CASE Serve
  <2>1. Seeded \subseteq rows
    BY <1>5, SeedRowTypes DEF Serve, Served
  <2>2. ASSUME NEW x \in Audited, x \notin rows, rows' = rows \union {x},
               audits' = [audits EXCEPT ![x] = @ + 1]
        PROVE  AuditedOnce'
    <3>1. \A y \in Audited : Once(y)
      BY <1>1, <2>1, <2>2
    <3>2. QED
      BY <3>1 DEF AuditedOnce
  <2>3. ASSUME NEW u \in Users, CreateUser(u)
        PROVE  AuditedOnce'
    <3>1. UserRow(u) \in Audited
      BY DEF UserRow, Audited
    <3>2. QED
      BY <2>2, <2>3, <3>1 DEF CreateUser
  <2>4. ASSUME NEW x, x \notin Audited, rows' = rows \union {x}, audits' = audits
        PROVE  AuditedOnce'
    BY <1>1, <2>4 DEF AuditedOnce
  <2>5. ASSUME NEW r \in Roles, CreateRole(r)
        PROVE  AuditedOnce'
    BY <2>4, <2>5, RowsApart DEF CreateRole
  <2>6. ASSUME NEW p \in Permissions, CreatePermission(p)
        PROVE  AuditedOnce'
    BY <2>4, <2>6, RowsApart DEF CreatePermission
  <2>7. ASSUME NEW w \in Workers, AssignInsert(w)
        PROVE  AuditedOnce'
    <3>1. Active(w) /\ AccountsTypeOK
      BY <2>7 DEF AssignInsert, Active, TypeOK
    <3>2. Binding(w) \in Audited
      BY <3>1, ActiveTypes DEF Audited
    <3>3. QED
      BY <1>2, <2>2, <2>7, <3>2 DEF AssignInsert, Refuse
  <2>8. ASSUME NEW w \in Workers, AssignLookup(w) \/ \E request \in Requests : AssignLoad(w, request)
        PROVE  AuditedOnce'
    BY <1>2, <2>8 DEF AssignLookup, AssignLoad, Refuse
  <2>9. QED
    BY <1>5, <2>3, <2>5, <2>6, <2>7, <2>8 DEF Serve, AccountsNext
<1>6. QED
  BY <1>2, <1>3, <1>4, <1>5 DEF Next, ScriptStep, StartApi, DatabaseReady, Migrate, SeedReference,
     SeedExistingUser, StartDatabase, CrashApi, CrashDatabase, accountVars, vars

-----------------------------------------------------------------------------
\* The theorems

LEMMA Inductive ==
    ASSUME Inv, [Next]_vars
    PROVE  Inv'
<1>1. /\ DOMAIN session' = Workers
      /\ session' = [w \in Workers |-> session'[w]]
      /\ rows' \subseteq Row
      /\ audits' \in [Audited -> Nat]
      /\ \A w \in Workers : Sound(session[w], rows)'
  BY SessionStep, TableTypeStep
<1>2. (/\ DOMAIN session = Workers
       /\ session = [w \in Workers |-> session[w]]
       /\ rows \subseteq Row
       /\ audits \in [Audited -> Nat]
       /\ \A w \in Workers : Sound(session[w], rows)
       => AccountsTypeOK /\ Answers)'
  BY SoundEnough, PTL
<1>3. AccountsTypeOK' /\ Answers'
  BY <1>1, <1>2
<1>4. TypeOK'
  BY <1>3, SeedTypeStep DEF TypeOK
<1>5. QED
  BY <1>3, <1>4, SeedingStep, AuditStep DEF Inv

\* The conjunction every step keeps: the requests and the seed know rows that are
\* there, the log has one entry for each, and a seed at work owns what is missing.
THEOREM Invariance == Spec => []Inv
<1>1. QED
  BY InitInv, Inductive, PTL DEF Spec

\* The tables, the sessions and the seed keep their types whatever crashes.
THEOREM TypeCorrect == Spec => []TypeOK
<1>1. Inv => TypeOK
  BY DEF Inv
<1>2. QED
  BY <1>1, Invariance, PTL

\* A request that answered 200 has bound every item of its list.
THEOREM AnsweredIsBoundHolds == Spec => []AnsweredIsBound
<1>1. Inv => AnsweredIsBound
  <2> SUFFICES ASSUME Inv, NEW w \in Workers, session[w].step = "answered",
                      NEW i \in 1..Len(session[w].request.items)
               PROVE  BindingRow(session[w].request.table, session[w].request.to,
                                 session[w].request.items[i]) \in rows
    BY DEF AnsweredIsBound
  <2>1. session[w] # Idle
    BY DEF Idle
  <2>2. QED
    BY <2>1 DEF Inv, Answers
<1>2. QED
  BY <1>1, Invariance, PTL

\* A user and a binding have one entry in the log, those of the seed none.
THEOREM AuditedOnceHolds == Spec => []AuditedOnce
<1>1. Inv => AuditedOnce
  BY DEF Inv
<1>2. QED
  BY <1>1, Invariance, PTL

-----------------------------------------------------------------------------
\* Refinement

LEMMA InitRefines ==
    ASSUME Init
    PROVE  Required!Init
BY DEF Init, AccountsInit, Required!Init

\* A step of the script provides, a request administers, a crash of the API
\* closes; everything else shows nothing.
LEMMA StepRefines ==
    ASSUME Inv, Inv', [Next]_vars
    PROVE  [Required!Next]_(Required!vars)
<1> USE DEF Required!Next, Required!vars
<1>1. rows \subseteq rows'
  BY RowsGrow DEF vars
<1>2. CASE ScriptStep
  <2>1. phase # "serving"
    BY <1>2 DEF ScriptStep, StartApi, DatabaseReady, Migrate, SeedReference, SeedExistingUser,
       SeedNewUser, SeedFinish
  <2>2. rows' \subseteq rows \union SeedRows
    <3>1. CASE SeedNewUser
      BY <3>1, SeedRowTypes DEF SeedNewUser, SeededUsers, Inv, Seeding
    <3>2. CASE SeedFinish
      BY <3>2, SeedRowTypes DEF SeedFinish, Missing, Inv, Seeding
    <3>3. QED
      BY <1>2, <3>1, <3>2 DEF ScriptStep, StartApi, DatabaseReady, Migrate, SeedReference,
         SeedExistingUser, accountVars
  <2>3. phase' = "serving" => SeedRows \subseteq rows'
    BY DEF Inv, Served
  <2>4. Required!Provision
    BY <1>1, <2>1, <2>2, <2>3 DEF Required!Provision
  <2>5. QED
    BY <2>4
<1>3. CASE StartDatabase
  BY <1>3 DEF StartDatabase, accountVars
<1>4. CASE CrashApi
  BY <1>4 DEF CrashApi, Required!Close
<1>5. CASE CrashDatabase
  BY <1>5 DEF CrashDatabase
<1>6. CASE Serve
  BY <1>1, <1>6 DEF Serve, lifeVars, Required!Administer
<1>7. CASE UNCHANGED vars
  BY <1>7 DEF vars
<1>8. QED
  BY <1>2, <1>3, <1>4, <1>5, <1>6, <1>7 DEF Next

\* Wherever starts are interrupted, the API serves only over what it requires.
THEOREM Refinement == Spec => ImplementsProvisioning
<1>1. Init => Required!Init
  BY InitRefines
<1>2. Inv /\ Inv' /\ [Next]_vars => [Required!Next]_(Required!vars)
  BY StepRefines
<1>3. QED
  BY <1>1, <1>2, Invariance, PTL DEF Spec, ImplementsProvisioning, Required!Spec
=============================================================================
