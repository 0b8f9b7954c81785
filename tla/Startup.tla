------------------------------ MODULE Startup ------------------------------
(***************************************************************************)
(* The start of the container: wait for the database, migrate it, seed it, *)
(* serve.  The script stops at the first error, the database and the API   *)
(* may die at any moment, and docker starts either again.  While the API   *)
(* serves, its workers administer accounts.                                *)
(*                                                                         *)
(* The seed looks like one transaction and is several: creating a user     *)
(* commits, and with it whatever the seed has written before.              *)
(***************************************************************************)
EXTENDS Accounts

CONSTANTS
    DefaultUsers,      \* DEFAULT_USERS, a sequence
    DefaultSupers,     \* those of them that are superusers
    RolePermissions,   \* ROLE_PERMISSIONS: permissions by role
    RoleOf,            \* USER_ROLE_MAP
    MaxCrashes         \* bound: the crashes of the database and the API

VARIABLES
    phase,     \* how far the start of the container has come
    database,  \* whether the database answers
    schema,    \* whether the migrations are applied
    seed,      \* the session of the seed: at which user, with which unwritten rows
    crashes    \* crashes so far

vars == <<rows, audits, session, phase, database, schema, seed, crashes>>
lifeVars == <<phase, database, schema, seed, crashes>>

ASSUME StartupAssumption ==
    /\ DefaultUsers \in Seq(Users)
    /\ DefaultSupers \subseteq Users
    /\ DOMAIN RolePermissions \subseteq Roles
    /\ \A r \in DOMAIN RolePermissions : RolePermissions[r] \subseteq Permissions
    /\ RoleOf \in [{DefaultUsers[i] : i \in DOMAIN DefaultUsers} -> DOMAIN RolePermissions]
    /\ MaxCrashes \in Nat

Phases == {"down", "waiting", "migrating", "seeding", "serving"}

DefaultRoles == DOMAIN RolePermissions
SeededUsers == {DefaultUsers[i] : i \in DOMAIN DefaultUsers}

ReferenceRows ==
    {RoleRow(r) : r \in DefaultRoles}
    \union (UNION {{PermissionRow(p) : p \in RolePermissions[r]} : r \in DefaultRoles})
    \union (UNION {{BindingRow("role_permission", r, p) : p \in RolePermissions[r]} : r \in DefaultRoles})

MemberRows == {BindingRow("user_role", u, RoleOf[u]) : u \in SeededUsers}

\* Everything the seed is there to provide.
SeedRows ==
    ReferenceRows \union MemberRows \union {UserRow(u) : u \in SeededUsers}
                  \union {SuperRow(u) : u \in SeededUsers \intersect DefaultSupers}

NoSeed == [at |-> 0, unwritten |-> {}]

\* Get or create: what exists is left as it is.
Missing(wanted) == wanted \ rows

Init ==
    /\ AccountsInit
    /\ phase = "down"
    /\ database = "up"
    /\ schema = FALSE
    /\ seed = NoSeed
    /\ crashes = 0

-----------------------------------------------------------------------------
\* The script of the container

\* restart: unless-stopped
StartApi ==
    /\ phase = "down"
    /\ phase' = "waiting"
    /\ UNCHANGED <<accountVars, database, schema, seed, crashes>>

StartDatabase ==
    /\ database = "down"
    /\ database' = "up"
    /\ UNCHANGED <<accountVars, phase, schema, seed, crashes>>

\* The loop around pg_isready ends.
DatabaseReady ==
    /\ phase = "waiting"
    /\ database = "up"
    /\ phase' = "migrating"
    /\ UNCHANGED <<accountVars, database, schema, seed, crashes>>

\* All migrations run in one transaction; those applied before are skipped.
Migrate ==
    /\ phase = "migrating"
    /\ database = "up"
    /\ schema' = TRUE
    /\ phase' = "seeding"
    /\ UNCHANGED <<accountVars, database, seed, crashes>>

\* Permissions, roles and what binds them: flushed, not committed.
SeedReference ==
    /\ phase = "seeding"
    /\ seed.at = 0
    /\ seed' = [at |-> 1, unwritten |-> Missing(ReferenceRows)]
    /\ UNCHANGED <<accountVars, phase, database, schema, crashes>>

\* Mutant: only a new user is made a superuser.
SeedExistingUserUnchanged ==
    /\ phase = "seeding"
    /\ seed.at \in DOMAIN DefaultUsers
    /\ UserRow(DefaultUsers[seed.at]) \in rows
    /\ seed' = [seed EXCEPT !.at = @ + 1]
    /\ UNCHANGED <<accountVars, phase, database, schema, crashes>>

SeedExistingUser ==
    LET u == DefaultUsers[seed.at]
    IN  /\ phase = "seeding"
        /\ seed.at \in DOMAIN DefaultUsers
        /\ UserRow(u) \in rows
        /\ seed' = [at |-> seed.at + 1,
                    unwritten |-> seed.unwritten \union
                        (IF u \in DefaultSupers THEN Missing({SuperRow(u)}) ELSE {})]
        /\ UNCHANGED <<accountVars, phase, database, schema, crashes>>

\* Creating the user commits all that is unwritten; that it is a superuser
\* waits for the next commit.
SeedNewUser ==
    LET u == DefaultUsers[seed.at]
    IN  /\ phase = "seeding"
        /\ seed.at \in DOMAIN DefaultUsers
        /\ UserRow(u) \notin rows
        /\ rows' = rows \union seed.unwritten \union {UserRow(u)}
        /\ audits' = [audits EXCEPT ![UserRow(u)] = @ + 1]
        /\ seed' = [at |-> seed.at + 1,
                    unwritten |-> IF u \in DefaultSupers THEN {SuperRow(u)} ELSE {}]
        /\ UNCHANGED <<session, phase, database, schema, crashes>>

\* Mutant: the memberships are inserted whether they exist or not, and the
\* unique pair refuses them after a restart.
SeedFinishBlind ==
    /\ phase = "seeding"
    /\ seed.at = Len(DefaultUsers) + 1
    /\ IF MemberRows \intersect rows = {}
       THEN /\ rows' = rows \union seed.unwritten \union MemberRows
            /\ phase' = "serving"
       ELSE /\ phase' = "down"
            /\ UNCHANGED rows
    /\ seed' = NoSeed
    /\ UNCHANGED <<audits, session, database, schema, crashes>>

\* Roles of the users, the commit, and the API starts.
SeedFinish ==
    /\ phase = "seeding"
    /\ seed.at = Len(DefaultUsers) + 1
    /\ rows' = rows \union seed.unwritten \union Missing(MemberRows)
    /\ seed' = NoSeed
    /\ phase' = "serving"
    /\ UNCHANGED <<audits, session, database, schema, crashes>>

ScriptStep ==
    \/ StartApi
    \/ DatabaseReady
    \/ Migrate
    \/ SeedReference
    \/ SeedExistingUser
    \/ SeedNewUser
    \/ SeedFinish

-----------------------------------------------------------------------------
\* Crashes

NoSessions == session' = [w \in Workers |-> Idle]

\* The process of the script, or of the API, dies.
CrashApi ==
    /\ crashes < MaxCrashes
    /\ phase # "down"
    /\ phase' = "down"
    /\ seed' = NoSeed
    /\ NoSessions
    /\ crashes' = crashes + 1
    /\ UNCHANGED <<rows, audits, database, schema>>

\* Open transactions are lost.  A script that is using the database fails with
\* them; the API goes on and answers errors.
CrashDatabase ==
    /\ crashes < MaxCrashes
    /\ database = "up"
    /\ database' = "down"
    /\ phase' = IF phase \in {"migrating", "seeding"} THEN "down" ELSE phase
    /\ seed' = NoSeed
    /\ NoSessions
    /\ crashes' = crashes + 1
    /\ UNCHANGED <<rows, audits, schema>>

-----------------------------------------------------------------------------

Serve ==
    /\ phase = "serving"
    /\ database = "up"
    /\ AccountsNext
    /\ UNCHANGED lifeVars

Next ==
    \/ ScriptStep
    \/ StartDatabase
    \/ CrashApi
    \/ CrashDatabase
    \/ Serve

\* Docker starts what has died, and a script that runs goes on.  Nothing is
\* assumed of crashes or of requests.
Fairness ==
    /\ WF_vars(StartDatabase)
    /\ WF_vars(ScriptStep)

Spec == Init /\ [][Next]_vars /\ Fairness

-----------------------------------------------------------------------------
\* Properties

\* The type of the tables, the sessions and the start.
TypeOK ==
    /\ AccountsTypeOK
    /\ phase \in Phases
    /\ database \in {"up", "down"}
    /\ schema \in BOOLEAN
    /\ seed \in [at : 0..(Len(DefaultUsers) + 1), unwritten : SUBSET SeedRows]
    /\ crashes \in 0..MaxCrashes

Required == INSTANCE Provisioning WITH Required <- SeedRows, open <- (phase = "serving")

\* Wherever a start was interrupted, the API serves only when everything the
\* seed is there to provide is stored, the superusers' flags included; the
\* seed adds nothing else, and nothing is lost.
ImplementsProvisioning == Required!Spec

\* However starts are interrupted and requests overlap, a user has one entry
\* in the audit log and a binding has one, unless the seed made it: then none.
AuditedOnce ==
    \A x \in Audited :
        audits[x] = IF x \in rows /\ x \notin ReferenceRows \union MemberRows THEN 1 ELSE 0

\* When crashes stop, the API comes to serve and goes on serving.
EventuallyServing == <>[](phase = "serving" /\ database = "up")
=============================================================================
