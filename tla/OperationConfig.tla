--------------------------- MODULE OperationConfig ---------------------------
(***************************************************************************)
(* Versioned operation configurations: create, gradual rollout, rollback.  *)
(* As in UnitOfWork a request reads rows without locks, and writes         *)
(* the columns it changed in one transaction at the end.  Nothing in the   *)
(* schema makes the version of a key, or its active row, unique.           *)
(***************************************************************************)
EXTENDS Integers, Sequences, UnitOfWork

CONSTANTS
    ConfigKeys,   \* values of config_key
    Percents,     \* values of rollout_percent in requests
    MaxRows       \* bound: no more configurations are created

ASSUME ConfigAssumption == Percents \subseteq 0..100

VARIABLES
    shared,    \* the keys about which several requests may be in flight, fixed
    config,    \* operation_configurations; the id of a row is its position
    session    \* what a worker has loaded and is about to do

vars == <<shared, config, session>>

\* prev is previous_config_id, 0 for NULL.
Row == [key : ConfigKeys, version : Nat, percent : 0..100, prev : Nat,
        active : BOOLEAN, rolled_back : BOOLEAN]

\* id is the row the handler read first, 0 when there was none, and row its
\* contents; prev_active is what the handler read of the row before it.
Idle == [step |-> "idle"]
Session ==
    {Idle} \union
    [step : {"create", "rollout", "rollback_previous", "rollback"},
     key : ConfigKeys, percent : 0..100, id : Nat, row : Row \union {Null},
     prev_active : BOOLEAN]

Init ==
    /\ shared \in SUBSET ConfigKeys
    /\ config = <<>>
    /\ session = [w \in Workers |-> Idle]

\* The environment: about a key that is not shared there is one request in
\* flight at a time.  The code does not enforce it.
CanStart(w, key) ==
    /\ session[w] = Idle
    /\ \/ key \in shared
       \/ \A v \in Workers \ {w} : session[v] # Idle => session[v].key # key

Load(w, step, key, percent, id) ==
    /\ CanStart(w, key)
    /\ session' = [session EXCEPT ![w] =
          [step |-> step, key |-> key, percent |-> percent, id |-> id,
           row |-> IF id = 0 THEN Null ELSE config[id], prev_active |-> FALSE]]
    /\ UNCHANGED <<shared, config>>

Finish(w) ==
    /\ session' = [session EXCEPT ![w] = Idle]
    /\ UNCHANGED shared

OfKey(key) == {i \in DOMAIN config : config[i].key = key}
Active(key) == {i \in OfKey(key) : config[i].active}

\* The rows with the highest version: the query takes one of them.
Highest(ids) == {i \in ids : \A j \in ids : config[j].version <= config[i].version}

-----------------------------------------------------------------------------

\* Mutant: the new version follows the one in force.
CreateLoadActive(w, key, percent) ==
    \/ Active(key) = {} /\ Load(w, "create", key, percent, 0)
    \/ \E id \in Highest(Active(key)) : Load(w, "create", key, percent, id)

CreateLoad(w, key, percent) ==
    \/ OfKey(key) = {} /\ Load(w, "create", key, percent, 0)
    \/ \E id \in Highest(OfKey(key)) : Load(w, "create", key, percent, id)

\* Mutant: the version is counted at the commit.
CreateCommitCounting(w) ==
    LET s == session[w]
        created(version) ==
            [key |-> s.key, version |-> version, percent |-> s.percent, prev |-> s.id,
             active |-> TRUE, rolled_back |-> FALSE]
    IN  /\ s.step = "create"
        /\ Len(config) < MaxRows
        /\ config' =
              IF s.id = 0 THEN Append(config, created(1))
              ELSE Append([config EXCEPT ![s.id].active = Written(s.row.active, FALSE, @)],
                          created(Len(config) + 1))
        /\ Finish(w)

CreateCommit(w) ==
    LET s == session[w]
        created(version) ==
            [key |-> s.key, version |-> version, percent |-> s.percent, prev |-> s.id,
             active |-> TRUE, rolled_back |-> FALSE]
    IN  /\ s.step = "create"
        /\ Len(config) < MaxRows
        /\ config' =
              IF s.id = 0 THEN Append(config, created(1))
              ELSE Append([config EXCEPT ![s.id].active = Written(s.row.active, FALSE, @)],
                          created(s.row.version + 1))
        /\ Finish(w)

RolloutLoad(w, id, percent) ==
    /\ id \in DOMAIN config
    /\ Load(w, "rollout", config[id].key, percent, id)

RolloutCommit(w) ==
    LET s == session[w]
    IN  /\ s.step = "rollout"
        /\ config' = [config EXCEPT ![s.id].percent = Written(s.row.percent, s.percent, @)]
        /\ Finish(w)

\* A key without an active row, or with no row before it, is refused.
RollbackLoad(w, key) ==
    \E id \in Highest(Active(key)) :
        /\ config[id].prev # 0
        /\ Load(w, "rollback_previous", key, 0, id)

RollbackLoadPrevious(w) ==
    /\ session[w].step = "rollback_previous"
    /\ session' = [session EXCEPT
          ![w].step = "rollback",
          ![w].prev_active = config[session[w].row.prev].active]
    /\ UNCHANGED <<shared, config>>

\* Mutant: the row before is not reactivated.
RollbackCommitOnlyOff(w) ==
    LET s == session[w]
    IN  /\ s.step = "rollback"
        /\ config' = [config EXCEPT
              ![s.id].active = Written(s.row.active, FALSE, @),
              ![s.id].rolled_back = Written(s.row.rolled_back, TRUE, @)]
        /\ Finish(w)

RollbackCommit(w) ==
    LET s == session[w]
    IN  /\ s.step = "rollback"
        /\ config' = [config EXCEPT
              ![s.id].active = Written(s.row.active, FALSE, @),
              ![s.id].rolled_back = Written(s.row.rolled_back, TRUE, @),
              ![s.row.prev].active = Written(s.prev_active, TRUE, @)]
        /\ Finish(w)

\* The worker dies or its transaction fails before the commit.
Abort(w) ==
    /\ session[w] # Idle
    /\ Finish(w)
    /\ UNCHANGED config

Next ==
    \E w \in Workers :
        \/ \E key \in ConfigKeys, percent \in Percents : CreateLoad(w, key, percent)
        \/ \E id \in 1..MaxRows, percent \in Percents : RolloutLoad(w, id, percent)
        \/ \E key \in ConfigKeys : RollbackLoad(w, key)
        \/ RollbackLoadPrevious(w)
        \/ CreateCommit(w)
        \/ RolloutCommit(w)
        \/ RollbackCommit(w)
        \/ Abort(w)

Spec == Init /\ [][Next]_vars

-----------------------------------------------------------------------------
\* Properties

\* The type of the table and of the sessions.
TypeOK ==
    /\ shared \subseteq ConfigKeys
    /\ config \in Seq(Row)
    /\ session \in [Workers -> Session]

\* Whatever interleaves, the chain of previous rows stays within the key and
\* goes down one version at a time, so rollbacks come to an end.
ChainDescends ==
    \A i \in DOMAIN config :
        LET row == config[i]
        IN  IF row.prev = 0 THEN row.version = 1
            ELSE /\ row.prev < i
                 /\ config[row.prev].key = row.key
                 /\ row.version = config[row.prev].version + 1

\* A key that was ever configured has a version in force, also between and
\* after racing creates and rollbacks.
InForce == \A i \in DOMAIN config : Active(config[i].key) # {}

\* The highest version of some rows, 0 without rows.
Version(ids) ==
    IF ids = {} THEN 0 ELSE config[CHOOSE i \in Highest(ids) : TRUE].version

Newest == [key \in ConfigKeys |-> IF key \in shared THEN 0 ELSE Version(OfKey(key))]
VersionInForce == [key \in ConfigKeys |-> IF key \in shared THEN 0 ELSE Version(Active(key))]

Versions == INSTANCE ConfigVersions WITH newest <- Newest, inForce <- VersionInForce

\* About a key that is not shared, create and rollback do what ConfigVersions
\* does in one step, however they follow one another or stop half way, and also
\* while several rows are active: a create takes a fresh version number and puts
\* it in force, a rollback goes down by exactly one version, and a rollout
\* changes neither.  One version down is not always what was in force before:
\* after a create that follows a rollback it is the version taken back.
ImplementsVersions == Versions!Spec
=============================================================================
