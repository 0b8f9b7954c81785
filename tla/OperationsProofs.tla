-------------------------- MODULE OperationsProofs --------------------------
(***************************************************************************)
(* What holds of the operations service: of the configurations, and of the *)
(* feature store.                                                          *)
(*                                                                         *)
(* Configurations.  A key that was configured always has a version in      *)
(* force, for any number of administrators working at the same time and    *)
(* without any lock.  The argument follows the chain of rows upwards.  The *)
(* first row of a key is never rolled back.  A row that is inactive and    *)
(* was not rolled back was replaced by a newer one that was not rolled     *)
(* back either (Replaced), and the newest such row has nothing to replace  *)
(* it, so it is active.                                                    *)
(*                                                                         *)
(* About a key with one request in flight at a time, what that request     *)
(* read is still so when it commits (Fresh), and no version number is      *)
(* given twice (Distinct).  So the row a create adds is the highest, and   *)
(* the row a rollback goes back to is the highest of those still active:   *)
(* each commit is the one step of ConfigVersions.                          *)
(*                                                                         *)
(* Feature store.  The two times of a value lie in one request, the start  *)
(* of the transaction before the time stamp and both before the commit,    *)
(* for any times to live and any delays.  Requests about an object that do *)
(* not overlap therefore write values that are ordered alike by both       *)
(* times, and by their expiry too, since values of a feature have one time *)
(* to live: the latest value expires last.                                 *)
(***************************************************************************)
EXTENDS OperationConfig, FeatureStore, WellFoundedInduction, TLAPS

\* What a session relies on: the row it loaded exists and still has the key,
\* the version and the previous row that were read.
SessionOK(w) ==
    LET s == session[w]
    IN  s # Idle =>
            /\ s.id = 0 => s.step = "create" /\ s.row = Null
            /\ s.id # 0 =>
                  /\ s.id \in DOMAIN config
                  /\ s.row \in Row
                  /\ s.row.key = config[s.id].key
                  /\ s.row.key = s.key
                  /\ s.row.version = config[s.id].version
                  /\ s.row.prev = config[s.id].prev
            /\ s.step \in {"rollback_previous", "rollback"} => s.id # 0 /\ s.row.prev # 0
            /\ s.step = "rollback" /\ s.row.rolled_back => config[s.id].rolled_back
            /\ s.step = "rollback_previous" /\ s.row.rolled_back => config[s.id].rolled_back

\* Nobody is about to roll row c back in the belief that the row before it is
\* active already.
NotLeftOff(c) ==
    \A w \in Workers :
        session[w].step = "rollback" /\ session[w].id = c => ~session[w].prev_active

\* An inactive row was rolled back or has a replacement in force or replaced.
Replaced(i) ==
    \/ config[i].active
    \/ config[i].rolled_back
    \/ \E c \in DOMAIN config :
          config[c].prev = i /\ ~config[c].rolled_back /\ NotLeftOff(c)

FirstStays == \A i \in DOMAIN config : config[i].prev = 0 => ~config[i].rolled_back

Inv ==
    /\ TypeOK
    /\ ChainDescends
    /\ FirstStays
    /\ \A w \in Workers : SessionOK(w)
    /\ \A i \in DOMAIN config : Replaced(i)

-----------------------------------------------------------------------------
\* Sequences of rows

\* What the type of the table says of a row.
LEMMA RowAt ==
    ASSUME Inv, NEW i \in DOMAIN config
    PROVE  /\ config[i] \in Row /\ config[i].active \in BOOLEAN
           /\ config[i].percent \in 0..100 /\ config[i].rolled_back \in BOOLEAN
<1>1. config[i] \in Row
  BY DEF Inv, TypeOK
<1> QED BY <1>1 DEF Row

\* A sequence with one element replaced.
LEMMA Replacing ==
    ASSUME NEW R, NEW s \in Seq(R), NEW i \in DOMAIN s, NEW r \in R
    PROVE  /\ [s EXCEPT ![i] = r] \in Seq(R)
           /\ DOMAIN [s EXCEPT ![i] = r] = DOMAIN s
           /\ Len([s EXCEPT ![i] = r]) = Len(s)
OBVIOUS

\* The row before a row exists and is another row.
LEMMA PreviousRow ==
    ASSUME Inv, NEW i \in DOMAIN config, config[i].prev # 0
    PROVE  config[i].prev \in DOMAIN config /\ config[i].prev < i
<1>1. Len(config) \in Nat /\ DOMAIN config = 1..Len(config) /\ config[i] \in Row
  BY RowAt DEF Inv, TypeOK
<1> QED BY <1>1 DEF Inv, ChainDescends, Row

-----------------------------------------------------------------------------
\* Smallest and largest ids

\* A set of ids has a smallest one.
LEMMA SmallestId ==
    ASSUME NEW S \in SUBSET Nat, S # {}
    PROVE  \E i \in S : \A j \in S : i <= j
<1>1. PICK i \in S : \A j \in S : ~(<<j, i>> \in OpToRel(<, Nat))
  BY WFMin, NatLessThanWellFounded
<1>2. ASSUME NEW j \in S PROVE i <= j
  <2>1. ~(j < i)
    BY <1>1 DEF OpToRel
  <2> QED BY <2>1
<1> QED BY <1>2

\* A set of ids has a largest one.
LEMMA LargestId ==
    ASSUME NEW n \in Nat, NEW S \in SUBSET (1..n), S # {}
    PROVE  \E i \in S : \A j \in S : j <= i
<1> DEFINE T == {n - i : i \in S}
<1>1. T \in SUBSET Nat
  <2> SUFFICES ASSUME NEW i \in S PROVE n - i \in Nat
    OBVIOUS
  <2>1. i \in Int /\ i <= n
    OBVIOUS
  <2> QED BY <2>1
<1>2. T # {}
  OBVIOUS
<1>3. PICK t \in T : \A u \in T : t <= u
  <2> HIDE DEF T
  <2> QED BY <1>1, <1>2, SmallestId
<1>4. PICK i \in S : t = n - i
  OBVIOUS
<1>5. ASSUME NEW j \in S PROVE j <= i
  <2>1. n - i <= n - j
    BY <1>3, <1>4
  <2>2. i \in Int /\ j \in Int
    OBVIOUS
  <2> QED BY <2>1, <2>2
<1> QED BY <1>5

\* The newest row of a key that was not rolled back is active.
LEMMA NewestActive ==
    ASSUME Inv, NEW r \in DOMAIN config, ~config[r].rolled_back
    PROVE  \E a \in Active(config[r].key) : config[r].version <= config[a].version
<1> DEFINE key == config[r].key
           S == {i \in OfKey(key) : ~config[i].rolled_back /\ config[r].version <= config[i].version}
<1>1. Len(config) \in Nat /\ DOMAIN config = 1..Len(config) /\ \A i \in DOMAIN config : config[i] \in Row
  BY DEF Inv, TypeOK
<1>2. S \in SUBSET (1..Len(config)) /\ r \in S
  BY <1>1 DEF OfKey, Row
<1>3. PICK a \in S : \A j \in S : j <= a
  BY <1>1, <1>2, LargestId
<1>4. a \in DOMAIN config /\ config[a].key = key /\ ~config[a].rolled_back
  BY DEF OfKey
<1>5. SUFFICES ASSUME ~config[a].active PROVE FALSE
  BY <1>4 DEF Active, OfKey
<1>6. PICK c \in DOMAIN config : config[c].prev = a /\ ~config[c].rolled_back
  BY <1>4, <1>5 DEF Inv, Replaced
<1>7. a < c /\ config[c].key = key /\ config[c].version = config[a].version + 1
  BY <1>1, <1>4, <1>6 DEF Inv, ChainDescends
<1>8. config[r].version <= config[c].version
  BY <1>1, <1>4, <1>7 DEF Row
<1>9. c \in S
  BY <1>6, <1>7, <1>8 DEF OfKey
<1> QED BY <1>1, <1>3, <1>4, <1>6, <1>7, <1>9

\* The first row of a key.
LEMMA FirstRow ==
    ASSUME Inv, NEW r \in DOMAIN config
    PROVE  \E i \in OfKey(config[r].key) : config[i].prev = 0
<1> DEFINE S == OfKey(config[r].key)
<1>1. Len(config) \in Nat /\ DOMAIN config = 1..Len(config) /\ \A i \in DOMAIN config : config[i] \in Row
  BY DEF Inv, TypeOK
<1>2. S \in SUBSET (1..Len(config)) /\ r \in S
  BY <1>1 DEF OfKey
<1>3. PICK i \in S : \A j \in S : i <= j
  BY <1>1, <1>2, SmallestId
<1>4. SUFFICES ASSUME config[i].prev # 0 PROVE FALSE
  BY <1>3
<1>5. i \in DOMAIN config /\ config[i].key = config[r].key
  BY DEF OfKey
<1>6. config[i].prev < i /\ config[config[i].prev].key = config[i].key /\ config[i].prev \in Nat
  BY <1>1, <1>4, <1>5 DEF Inv, ChainDescends, Row
<1>7. config[i].prev \in S
  BY <1>1, <1>4, <1>5, <1>6 DEF OfKey
<1> QED BY <1>1, <1>3, <1>5, <1>6, <1>7

\* A key that was configured has a first row, which was not rolled back.
LEMMA InvInForce == Inv => InForce
<1> SUFFICES ASSUME Inv PROVE InForce
  OBVIOUS
<1>1. Len(config) \in Nat /\ DOMAIN config = 1..Len(config) /\ \A i \in DOMAIN config : config[i] \in Row
  BY DEF Inv, TypeOK
<1>2. ASSUME NEW r \in DOMAIN config PROVE Active(config[r].key) # {}
  <2>1. PICK i \in OfKey(config[r].key) : config[i].prev = 0
    BY FirstRow
  <2>2. i \in DOMAIN config /\ config[i].key = config[r].key /\ ~config[i].rolled_back
    BY <2>1 DEF OfKey, Inv, FirstStays
  <2> QED BY <2>2, NewestActive
<1> QED BY <1>2 DEF InForce

-----------------------------------------------------------------------------
\* The invariant is inductive

\* The table is empty and no session is open.
LEMMA InitInv == Init => Inv
<1> SUFFICES ASSUME Init PROVE Inv
  OBVIOUS
<1>1. config = <<>> /\ DOMAIN config = {} /\ \A w \in Workers : session[w] = Idle
  BY DEF Init
<1>2. TypeOK
  BY DEF Init, TypeOK, Session
<1> QED BY <1>1, <1>2 DEF Inv, ChainDescends, FirstStays, SessionOK

\* Rows stay, with their key, version and previous row, and stay rolled back.
Kept ==
    \A i \in DOMAIN config :
        /\ i \in DOMAIN config'
        /\ config'[i].key = config[i].key
        /\ config'[i].version = config[i].version
        /\ config'[i].prev = config[i].prev
        /\ config[i].rolled_back => config'[i].rolled_back

\* A session relies on nothing that a commit of another one changes.
LEMMA SessionFrame ==
    ASSUME NEW v \in Workers, SessionOK(v), session'[v] = session[v], Kept
    PROVE  SessionOK(v)'
BY DEF SessionOK, Kept

\* A step that changes no row: w loads something or ends.
LEMMA SessionStep ==
    ASSUME Inv, NEW w \in Workers, NEW s \in Session, UNCHANGED <<shared, config>>,
           session' = [session EXCEPT ![w] = s],
           SessionOK(w)',
           \A i \in DOMAIN config : ~config[i].active =>
               \A c \in DOMAIN config :
                   config[c].prev = i /\ s.step = "rollback" /\ s.id = c => ~s.prev_active
    PROVE  Inv'
<1>1. TypeOK'
  BY DEF Inv, TypeOK
<1>2. session'[w] = s /\ \A v \in Workers \ {w} : session'[v] = session[v]
  BY DEF Inv, TypeOK
<1>3. \A v \in Workers : SessionOK(v)'
  <2>1. Kept
    BY DEF Kept
  <2> QED BY <1>2, <2>1, SessionFrame DEF Inv
<1>4. ASSUME NEW i \in DOMAIN config PROVE Replaced(i)'
  <2>1. CASE config[i].active \/ config[i].rolled_back
    BY <2>1 DEF Replaced
  <2>2. CASE ~config[i].active /\ ~config[i].rolled_back
    <3>1. PICK c \in DOMAIN config :
              config[c].prev = i /\ ~config[c].rolled_back /\ NotLeftOff(c)
      BY <2>2 DEF Inv, Replaced
    <3>2. NotLeftOff(c)'
      BY <1>2, <2>2, <3>1 DEF NotLeftOff
    <3> QED BY <3>1, <3>2 DEF Replaced
  <2> QED BY <2>1, <2>2
<1>5. ChainDescends' /\ FirstStays'
  BY DEF Inv, ChainDescends, FirstStays
<1> QED BY <1>1, <1>3, <1>4, <1>5 DEF Inv

\* Ending a session is always possible.
LEMMA FinishStep ==
    ASSUME Inv, NEW w \in Workers, Finish(w), UNCHANGED config
    PROVE  Inv'
<1>1. session' = [session EXCEPT ![w] = Idle] /\ UNCHANGED shared /\ Idle \in Session /\ Idle.step = "idle"
  BY DEF Finish, Session, Idle
<1>2. session'[w] = Idle
  BY <1>1 DEF Inv, TypeOK
<1>3. SessionOK(w)'
  BY <1>2 DEF SessionOK
<1> QED BY <1>1, <1>3, SessionStep

\* Loading a row is a session step.
LEMMA LoadStep ==
    ASSUME Inv, NEW w \in Workers, NEW key \in ConfigKeys, NEW percent \in 0..100,
           NEW step \in {"create", "rollout", "rollback_previous"},
           NEW id, id = 0 \/ id \in OfKey(key),
           id = 0 => step = "create",
           step = "rollback_previous" => config[id].prev # 0,
           Load(w, step, key, percent, id)
    PROVE  Inv'
<1>1. PICK s : s = [step |-> step, key |-> key, percent |-> percent, id |-> id,
                    row |-> IF id = 0 THEN Null ELSE config[id], prev_active |-> FALSE]
  OBVIOUS
<1>2. session' = [session EXCEPT ![w] = s] /\ UNCHANGED <<shared, config>>
  BY <1>1 DEF Load
<1>3. /\ s.step = step /\ s.key = key /\ s.percent = percent /\ s.id = id
      /\ s.row = IF id = 0 THEN Null ELSE config[id]
      /\ s.step # "rollback"
  BY <1>1
<1>4. id # 0 => id \in DOMAIN config /\ config[id] \in Row /\ config[id].key = key /\ id \in Nat
  BY DEF OfKey, Inv, TypeOK
<1>5. s \in Session
  BY <1>1, <1>4 DEF Session
<1>6. session'[w] = s
  BY <1>2 DEF Inv, TypeOK
<1>7. SessionOK(w)'
  BY <1>2, <1>3, <1>4, <1>6 DEF SessionOK
<1> QED BY <1>2, <1>3, <1>5, <1>7, SessionStep

\* A rollback looks at the row before the one it takes back.
LEMMA RollbackLoadPreviousStep ==
    ASSUME Inv, NEW w \in Workers, RollbackLoadPrevious(w)
    PROVE  Inv'
<1>1. PICK t \in Session : t = session[w]
  BY DEF Inv, TypeOK
<1>2. /\ t.step = "rollback_previous" /\ t # Idle /\ t.id \in DOMAIN config
      /\ t.row \in Row /\ t.row.prev = config[t.id].prev /\ t.row.prev # 0
  BY <1>1 DEF RollbackLoadPrevious, Inv, SessionOK, Idle
<1>3. t.row.prev \in DOMAIN config
  BY <1>2, PreviousRow
<1>4. PICK b \in BOOLEAN : b = config[t.row.prev].active
  BY <1>3, RowAt
<1>5. PICK s : s = [t EXCEPT !.step = "rollback", !.prev_active = b]
  OBVIOUS
<1>6. /\ s \in Session /\ s # Idle /\ s.step = "rollback" /\ s.prev_active = b
      /\ s.id = t.id /\ s.row = t.row /\ s.key = t.key
  BY <1>2, <1>5 DEF Session, Idle
<1>7. session' = [session EXCEPT ![w] = s] /\ UNCHANGED <<shared, config>>
  BY <1>1, <1>4, <1>5 DEF RollbackLoadPrevious, Inv, TypeOK
<1>8. session'[w] = s
  BY <1>7 DEF Inv, TypeOK
<1>9. SessionOK(w)'
  BY <1>1, <1>2, <1>6, <1>7, <1>8 DEF SessionOK, Inv
<1>10. \A i \in DOMAIN config : ~config[i].active =>
          \A c \in DOMAIN config :
              config[c].prev = i /\ s.step = "rollback" /\ s.id = c => ~s.prev_active
  BY <1>2, <1>4, <1>6
<1> QED BY <1>6, <1>7, <1>9, <1>10, SessionStep

\* A commit closes the session of w, and the other sessions are still sound.
LEMMA CommitSessions ==
    ASSUME Inv, NEW w \in Workers, Finish(w), Kept
    PROVE  /\ shared' \subseteq ConfigKeys
           /\ session' \in [Workers -> Session]
           /\ session'[w] = Idle
           /\ \A v \in Workers \ {w} : session'[v] = session[v]
           /\ \A v \in Workers : SessionOK(v)'
<1>1. /\ shared' \subseteq ConfigKeys
      /\ session' \in [Workers -> Session]
      /\ session'[w] = Idle
      /\ \A v \in Workers \ {w} : session'[v] = session[v]
  BY DEF Finish, Inv, TypeOK, Session
<1>2. \A v \in Workers \ {w} : SessionOK(v)'
  BY <1>1, SessionFrame DEF Inv
<1>3. SessionOK(w)'
  BY <1>1 DEF SessionOK
<1> QED BY <1>1, <1>2, <1>3

\* Closing sessions leaves nobody in the belief that matters to NotLeftOff.
LEMMA NotLeftOffFrame ==
    ASSUME NEW w \in Workers, NEW c, NotLeftOff(c), session'[w] = Idle,
           \A v \in Workers \ {w} : session'[v] = session[v]
    PROVE  NotLeftOff(c)'
BY DEF NotLeftOff, Idle

\* A rollout touches the percentage of a row and nothing else.
LEMMA RolloutRows ==
    ASSUME Inv, NEW w \in Workers, RolloutCommit(w)
    PROVE  /\ Finish(w)
           /\ config' \in Seq(Row) /\ DOMAIN config' = DOMAIN config
           /\ \A i \in DOMAIN config :
                 /\ config'[i].key = config[i].key /\ config'[i].version = config[i].version
                 /\ config'[i].prev = config[i].prev /\ config'[i].active = config[i].active
                 /\ config'[i].rolled_back = config[i].rolled_back
<1>1. PICK t \in Session : t = session[w]
  BY DEF Inv, TypeOK
<1>2. /\ t.step = "rollout" /\ t # Idle /\ t.id \in DOMAIN config /\ t.percent \in 0..100
  BY <1>1 DEF RolloutCommit, Inv, SessionOK, Idle, Session
<1>3. PICK x : x = Written(t.row.percent, t.percent, config[t.id].percent)
  OBVIOUS
<1>4. config[t.id] \in Row /\ x \in 0..100
  BY <1>2, <1>3, RowAt DEF Written
<1>5. config' = [config EXCEPT ![t.id].percent = x] /\ Finish(w)
  BY <1>1, <1>2, <1>3 DEF RolloutCommit, Inv, TypeOK
<1>6. /\ DOMAIN config' = DOMAIN config
      /\ \A i \in DOMAIN config \ {t.id} : config'[i] = config[i]
      /\ config'[t.id] = [config[t.id] EXCEPT !.percent = x]
  BY <1>2, <1>5 DEF Inv, TypeOK
<1>7. /\ config'[t.id] \in Row
      /\ config'[t.id].key = config[t.id].key /\ config'[t.id].version = config[t.id].version
      /\ config'[t.id].prev = config[t.id].prev /\ config'[t.id].active = config[t.id].active
      /\ config'[t.id].rolled_back = config[t.id].rolled_back
  BY <1>4, <1>6 DEF Row
<1>8. \A i \in DOMAIN config :
          /\ config'[i].key = config[i].key /\ config'[i].version = config[i].version
          /\ config'[i].prev = config[i].prev /\ config'[i].active = config[i].active
          /\ config'[i].rolled_back = config[i].rolled_back
  BY <1>6, <1>7
<1>9. config' \in Seq(Row)
  <2>1. config' = [config EXCEPT ![t.id] = config'[t.id]]
    BY <1>2, <1>5, <1>6 DEF Inv, TypeOK
  <2> QED BY <1>2, <1>7, <2>1, Replacing DEF Inv, TypeOK
<1> QED BY <1>5, <1>6, <1>8, <1>9

\* So it changes nothing that matters here.
LEMMA RolloutCommitStep ==
    ASSUME Inv, NEW w \in Workers, RolloutCommit(w)
    PROVE  Inv'
<1>1. /\ Finish(w)
      /\ config' \in Seq(Row) /\ DOMAIN config' = DOMAIN config
      /\ \A i \in DOMAIN config :
            /\ config'[i].key = config[i].key /\ config'[i].version = config[i].version
            /\ config'[i].prev = config[i].prev /\ config'[i].active = config[i].active
            /\ config'[i].rolled_back = config[i].rolled_back
  BY RolloutRows
<1>2. /\ shared' \subseteq ConfigKeys /\ session' \in [Workers -> Session] /\ session'[w] = Idle
      /\ \A v \in Workers \ {w} : session'[v] = session[v]
      /\ \A v \in Workers : SessionOK(v)'
  BY <1>1, CommitSessions DEF Kept
<1>3. ChainDescends' /\ FirstStays'
  <2>1. \A i \in DOMAIN config : config[i].prev # 0 => config[i].prev \in DOMAIN config
    BY PreviousRow
  <2> QED BY <1>1, <2>1 DEF Inv, ChainDescends, FirstStays
<1>4. ASSUME NEW i \in DOMAIN config' PROVE Replaced(i)'
  <2>1. \A c \in DOMAIN config : NotLeftOff(c) => NotLeftOff(c)'
    BY <1>2, NotLeftOffFrame
  <2> QED BY <1>1, <2>1 DEF Inv, Replaced
<1> QED BY <1>1, <1>2, <1>3, <1>4 DEF Inv, TypeOK

\* What a rollback does to the table: t is its session, p the row before.
RollbackChanges(w, t, p) ==
    /\ t = session[w] /\ t.step = "rollback" /\ t # Idle /\ t.id \in DOMAIN config /\ t.row \in Row
    /\ t.row.prev = config[t.id].prev /\ config[t.id].prev # 0
    /\ p = config[t.id].prev /\ p # t.id
    /\ t.prev_active \in BOOLEAN
    /\ Finish(w)
    /\ DOMAIN config' = DOMAIN config /\ config' \in Seq(Row)
    /\ config'[t.id].rolled_back = TRUE /\ config'[p].rolled_back = config[p].rolled_back
    /\ config'[t.id].active = Written(t.row.active, FALSE, config[t.id].active)
    /\ config'[p].active = Written(t.prev_active, TRUE, config[p].active)
    /\ \A i \in DOMAIN config :
          /\ config'[i].key = config[i].key /\ config'[i].version = config[i].version
          /\ config'[i].prev = config[i].prev
          /\ i # t.id => config'[i].rolled_back = config[i].rolled_back
          /\ i \notin {t.id, p} => config'[i].active = config[i].active

\* A rollback marks one row, and writes whether it and the one before are active.
LEMMA RollbackRows ==
    ASSUME Inv, NEW w \in Workers, RollbackCommit(w)
    PROVE  \E t \in Session, p \in DOMAIN config : RollbackChanges(w, t, p)
<1>1. PICK t \in Session : t = session[w]
  BY DEF Inv, TypeOK
<1>2. /\ t.step = "rollback" /\ t # Idle /\ t.id \in DOMAIN config /\ t.row \in Row
      /\ t.row.prev # 0 /\ t.row.prev = config[t.id].prev
      /\ t.row.rolled_back => config[t.id].rolled_back
      /\ t.prev_active \in BOOLEAN /\ t.row.active \in BOOLEAN /\ t.row.rolled_back \in BOOLEAN
  <2>0. session[w].step = "rollback"
    BY Zenon DEF RollbackCommit
  <2>1. t.step = "rollback" /\ t # Idle
    BY <1>1, <2>0 DEF Idle
  <2>2. /\ t.id \in DOMAIN config /\ t.row \in Row
        /\ t.row.prev # 0 /\ t.row.prev = config[t.id].prev
        /\ t.row.rolled_back => config[t.id].rolled_back
    BY <1>1, <2>1 DEF Inv, SessionOK
  <2>3. t.prev_active \in BOOLEAN
    BY <2>1 DEF Session
  <2> QED BY <2>1, <2>2, <2>3 DEF Row
<1>3. PICK p \in DOMAIN config : p = t.row.prev /\ p # t.id /\ p = config[t.id].prev
  BY <1>2, PreviousRow DEF Inv, TypeOK
<1>4. PICK a \in BOOLEAN, b \in BOOLEAN :
          /\ a = Written(t.row.active, FALSE, config[t.id].active)
          /\ b = Written(t.prev_active, TRUE, config[p].active)
  BY <1>2, <1>3, RowAt DEF Written
<1>5. Written(t.row.rolled_back, TRUE, config[t.id].rolled_back) = TRUE
  BY <1>2, RowAt DEF Written
<1>6. Finish(w) /\ config' = [config EXCEPT
          ![t.id] = [config[t.id] EXCEPT !.active = a, !.rolled_back = TRUE],
          ![p] = [config[p] EXCEPT !.active = b]]
  <2>1. Finish(w) /\ config' = [config EXCEPT
              ![t.id].active = Written(t.row.active, FALSE, @),
              ![t.id].rolled_back = Written(t.row.rolled_back, TRUE, @),
              ![p].active = Written(t.prev_active, TRUE, @)]
    BY <1>1, <1>3 DEF RollbackCommit
  <2> QED BY <1>2, <1>3, <1>4, <1>5, <2>1, RowAt DEF Inv, TypeOK, Row
<1>7. /\ DOMAIN config' = DOMAIN config /\ config' \in Seq(Row)
      /\ \A i \in DOMAIN config \ {t.id, p} : config'[i] = config[i]
      /\ config'[t.id] = [config[t.id] EXCEPT !.active = a, !.rolled_back = TRUE]
      /\ config'[p] = [config[p] EXCEPT !.active = b]
  <2>1. /\ [config[t.id] EXCEPT !.active = a, !.rolled_back = TRUE] \in Row
        /\ [config[p] EXCEPT !.active = b] \in Row
    BY <1>2, <1>3, RowAt DEF Row
  <2>2. PICK r \in Row, q \in Row :
            /\ r = [config[t.id] EXCEPT !.active = a, !.rolled_back = TRUE]
            /\ q = [config[p] EXCEPT !.active = b]
    BY <2>1
  <2>3. config' = [[config EXCEPT ![t.id] = r] EXCEPT ![p] = q]
    BY <1>2, <1>3, <1>6, <2>2 DEF Inv, TypeOK
  <2>4. [config EXCEPT ![t.id] = r] \in Seq(Row) /\ DOMAIN [config EXCEPT ![t.id] = r] = DOMAIN config
    BY <1>2, Replacing DEF Inv, TypeOK
  <2>5. config' \in Seq(Row) /\ DOMAIN config' = DOMAIN config
    BY <1>3, <2>3, <2>4, Replacing
  <2> QED BY <1>2, <1>3, <2>2, <2>3, <2>5 DEF Inv, TypeOK
<1>8. /\ config'[t.id].rolled_back = TRUE /\ config'[t.id].active = a
      /\ config'[p].active = b /\ config'[p].rolled_back = config[p].rolled_back
      /\ \A i \in DOMAIN config :
            /\ config'[i].key = config[i].key /\ config'[i].version = config[i].version
            /\ config'[i].prev = config[i].prev
            /\ i # t.id => config'[i].rolled_back = config[i].rolled_back
            /\ i \notin {t.id, p} => config'[i].active = config[i].active
  <2>1. /\ config'[t.id].key = config[t.id].key /\ config'[t.id].version = config[t.id].version
        /\ config'[t.id].prev = config[t.id].prev /\ config'[t.id].active = a
        /\ config'[t.id].rolled_back = TRUE
    BY <1>2, <1>7, RowAt DEF Row
  <2>2. /\ config'[p].key = config[p].key /\ config'[p].version = config[p].version
        /\ config'[p].prev = config[p].prev /\ config'[p].active = b
        /\ config'[p].rolled_back = config[p].rolled_back
    BY <1>3, <1>7, RowAt DEF Row
  <2> QED BY <1>7, <2>1, <2>2
<1>9. RollbackChanges(w, t, p)
  BY <1>1, <1>2, <1>3, <1>4, <1>6, <1>7, <1>8 DEF RollbackChanges
<1> QED BY <1>9

\* It reactivates the row before, unless it believes that it is active: then
\* another row has replaced it since.
LEMMA RollbackCommitStep ==
    ASSUME Inv, NEW w \in Workers, RollbackCommit(w)
    PROVE  Inv'
<1>1. PICK t \in Session, p \in DOMAIN config : RollbackChanges(w, t, p)
  BY RollbackRows
<1>2. /\ shared' \subseteq ConfigKeys /\ session' \in [Workers -> Session] /\ session'[w] = Idle
      /\ \A v \in Workers \ {w} : session'[v] = session[v]
      /\ \A v \in Workers : SessionOK(v)'
  <2>1. Kept
    BY <1>1 DEF Kept, RollbackChanges
  <2> QED BY <1>1, <2>1, CommitSessions DEF RollbackChanges
<1>3. ChainDescends' /\ FirstStays'
  <2>1. ChainDescends'
    BY <1>1, PreviousRow DEF Inv, ChainDescends, RollbackChanges
  <2>2. config[t.id].prev # 0
    BY <1>1 DEF RollbackChanges
  <2> QED BY <1>1, <2>1, <2>2 DEF Inv, FirstStays, RollbackChanges
<1>4. ASSUME NEW i \in DOMAIN config' PROVE Replaced(i)'
  <2> SUFFICES ASSUME i # t.id, ~config'[i].active, ~config'[i].rolled_back PROVE Replaced(i)'
    BY <1>1 DEF Replaced, RollbackChanges
  <2>1. ~config[i].rolled_back /\ i \in DOMAIN config
    BY <1>1 DEF RollbackChanges
  <2>2. ~config[i].active
    <3>1. CASE i = p
      BY <1>1, <2>1, <3>1, RowAt DEF Written, RollbackChanges
    <3>2. CASE i # p
      BY <1>1, <2>1, <3>2 DEF RollbackChanges
    <3> QED BY <3>1, <3>2
  <2>3. PICK c \in DOMAIN config : config[c].prev = i /\ ~config[c].rolled_back /\ NotLeftOff(c)
    BY <2>1, <2>2 DEF Inv, Replaced
  <2>4. c # t.id
    <3>1. CASE i = p
      <4>1. t.prev_active
        BY <1>1, <3>1 DEF Written, RollbackChanges
      <4> QED BY <1>1, <2>3, <4>1 DEF NotLeftOff, RollbackChanges
    <3>2. CASE i # p
      BY <1>1, <2>3, <3>2 DEF RollbackChanges
    <3> QED BY <3>1, <3>2
  <2>5. NotLeftOff(c)'
    BY <1>2, <2>3, NotLeftOffFrame
  <2> QED BY <1>1, <2>3, <2>4, <2>5 DEF Replaced, RollbackChanges
<1> QED BY <1>1, <1>2, <1>3, <1>4 DEF Inv, TypeOK, RollbackChanges

\* What a create does to the table: t is its session, n the number of rows.
CreateChanges(w, t, n) ==
    /\ t = session[w] /\ t.step = "create" /\ t # Idle /\ t.key \in ConfigKeys /\ t.id \in Nat
    /\ t.id # 0 => /\ t.id \in DOMAIN config /\ t.row \in Row
                   /\ t.row.version = config[t.id].version /\ t.key = config[t.id].key
                   /\ config'[t.id].active = Written(t.row.active, FALSE, config[t.id].active)
    /\ Finish(w)
    /\ DOMAIN config = 1..n /\ DOMAIN config' = 1..(n + 1) /\ config' \in Seq(Row)
    /\ \A i \in 1..n :
          /\ config'[i].key = config[i].key /\ config'[i].version = config[i].version
          /\ config'[i].prev = config[i].prev /\ config'[i].rolled_back = config[i].rolled_back
          /\ i # t.id => config'[i].active = config[i].active
    /\ config'[n + 1].key = t.key /\ config'[n + 1].prev = t.id
    /\ config'[n + 1].active /\ ~config'[n + 1].rolled_back
    /\ config'[n + 1].version = IF t.id = 0 THEN 1 ELSE config[t.id].version + 1

\* A create adds an active row, and writes whether the one it found is active.
LEMMA CreateRows ==
    ASSUME Inv, NEW w \in Workers, CreateCommit(w)
    PROVE  \E t \in Session, n \in Nat : CreateChanges(w, t, n)
<1>1. PICK t \in Session : t = session[w]
  BY DEF Inv, TypeOK
<1>2. /\ t.step = "create" /\ t # Idle /\ t.key \in ConfigKeys /\ t.percent \in 0..100
      /\ t.id \in Nat
      /\ t.id # 0 => /\ t.id \in DOMAIN config /\ t.row \in Row
                     /\ t.row.version = config[t.id].version /\ t.key = config[t.id].key
  BY <1>1 DEF CreateCommit, Inv, SessionOK, Idle, Session
<1>3. PICK n \in Nat : n = Len(config) /\ DOMAIN config = 1..n
  BY DEF Inv, TypeOK
<1>4. PICK new \in Row :
          new = [key |-> t.key, version |-> IF t.id = 0 THEN 1 ELSE t.row.version + 1,
                 percent |-> t.percent, prev |-> t.id, active |-> TRUE, rolled_back |-> FALSE]
  <2>1. t.id # 0 => t.row.version \in Nat
    BY <1>2 DEF Row
  <2>2. (IF t.id = 0 THEN 1 ELSE t.row.version + 1) \in Nat
    BY <2>1
  <2> QED BY <1>2, <2>2 DEF Row
<1>5. PICK old \in Seq(Row) :
          /\ config' = Append(old, new) /\ Len(old) = n
          /\ \A i \in 1..n :
                /\ old[i].key = config[i].key /\ old[i].version = config[i].version
                /\ old[i].prev = config[i].prev /\ old[i].rolled_back = config[i].rolled_back
                /\ i # t.id => old[i].active = config[i].active
          /\ t.id # 0 => old[t.id].active = Written(t.row.active, FALSE, config[t.id].active)
  <2>1. CASE t.id = 0
    <3>1. config' = Append(config, new)
      BY <1>1, <1>2, <1>4, <2>1 DEF CreateCommit
    <3> QED BY <1>3, <2>1, <3>1 DEF Inv, TypeOK
  <2>2. CASE t.id # 0
    <3>1. PICK a \in BOOLEAN : a = Written(t.row.active, FALSE, config[t.id].active)
      BY <1>2, <2>2, RowAt DEF Written, Row
    <3>2. PICK r : r = [config[t.id] EXCEPT !.active = a]
      OBVIOUS
    <3>3. /\ r \in Row /\ r.key = config[t.id].key /\ r.version = config[t.id].version
          /\ r.prev = config[t.id].prev /\ r.rolled_back = config[t.id].rolled_back
      BY <1>2, <2>2, <3>2, RowAt DEF Row
    <3>4. PICK s : s = [config EXCEPT ![t.id] = r]
      OBVIOUS
    <3>5. s \in Seq(Row) /\ Len(s) = n
      BY <1>2, <1>3, <2>2, <3>3, <3>4, Replacing DEF Inv, TypeOK
    <3>6. s[t.id] = r /\ \A i \in 1..n : i # t.id => s[i] = config[i]
      BY <1>2, <1>3, <2>2, <3>4 DEF Inv, TypeOK
    <3>7. config' = Append(s, new)
      <4>1. s = [config EXCEPT ![t.id].active = Written(t.row.active, FALSE, @)]
        BY <1>2, <2>2, <3>1, <3>2, <3>4 DEF Inv, TypeOK
      <4> QED BY <1>1, <1>2, <1>4, <2>2, <4>1 DEF CreateCommit
    <3>8. r.active = a
      BY <1>2, <2>2, <3>2, RowAt DEF Row
    <3> QED BY <1>2, <1>3, <2>2, <3>1, <3>3, <3>5, <3>6, <3>7, <3>8
  <2> QED BY <2>1, <2>2
<1>6. /\ config' \in Seq(Row) /\ DOMAIN config' = 1..(n + 1)
      /\ \A i \in 1..n : config'[i] = old[i]
      /\ config'[n + 1] = new
  BY <1>3, <1>5
<1>7. /\ new.key = t.key /\ new.prev = t.id /\ new.active /\ ~new.rolled_back
      /\ new.version = IF t.id = 0 THEN 1 ELSE t.row.version + 1
  BY <1>4
<1>8. Finish(w)
  BY DEF CreateCommit
<1>9. CreateChanges(w, t, n)
  BY <1>1, <1>2, <1>3, <1>5, <1>6, <1>7, <1>8 DEF CreateChanges
<1> QED BY <1>9

\* It replaces the row it found, and nobody has loaded the new one yet.
LEMMA CreateCommitStep ==
    ASSUME Inv, NEW w \in Workers, CreateCommit(w)
    PROVE  Inv'
<1>1. PICK t \in Session, n \in Nat : CreateChanges(w, t, n)
  BY CreateRows
<1>2. /\ shared' \subseteq ConfigKeys /\ session' \in [Workers -> Session] /\ session'[w] = Idle
      /\ \A v \in Workers \ {w} : session'[v] = session[v]
      /\ \A v \in Workers : SessionOK(v)'
  <2>1. Kept
    BY <1>1 DEF Kept, CreateChanges
  <2> QED BY <1>1, <2>1, CommitSessions DEF CreateChanges
<1>3. ChainDescends' /\ FirstStays'
  <2> SUFFICES ASSUME NEW i \in 1..(n + 1)
               PROVE  /\ IF config'[i].prev = 0 THEN config'[i].version = 1
                         ELSE /\ config'[i].prev < i
                              /\ config'[config'[i].prev].key = config'[i].key
                              /\ config'[i].version = config'[config'[i].prev].version + 1
                      /\ config'[i].prev = 0 => ~config'[i].rolled_back
    BY <1>1 DEF ChainDescends, FirstStays, CreateChanges
  <2>1. CASE i = n + 1
    <3>1. CASE t.id = 0
      BY <1>1, <2>1, <3>1 DEF CreateChanges
    <3>2. CASE t.id # 0
      <4>1. t.id \in 1..n
        BY <1>1, <3>2 DEF CreateChanges
      <4>2. /\ config'[t.id].key = config[t.id].key /\ config'[t.id].version = config[t.id].version
            /\ config'[i].prev = t.id /\ config'[i].key = t.key
            /\ config'[i].version = config[t.id].version + 1 /\ ~config'[i].rolled_back
            /\ t.key = config[t.id].key
        BY <1>1, <2>1, <3>2, <4>1 DEF CreateChanges
      <4> QED BY <2>1, <3>2, <4>1, <4>2
    <3> QED BY <3>1, <3>2
  <2>2. CASE i # n + 1
    <3>1. i \in 1..n
      BY <2>2
    <3>2. config[i].prev # 0 => config[i].prev \in 1..n /\ config[i].prev < i
      BY <1>1, <3>1, PreviousRow DEF CreateChanges
    <3> QED BY <1>1, <3>1, <3>2 DEF Inv, ChainDescends, FirstStays, CreateChanges
  <2> QED BY <2>1, <2>2
<1>4. ASSUME NEW i \in 1..(n + 1) PROVE Replaced(i)'
  <2>1. CASE i = n + 1
    BY <1>1, <2>1 DEF Replaced, CreateChanges
  <2>2. CASE i = t.id /\ i \in 1..n
    <3>1. NotLeftOff(n + 1)'
      <4> SUFFICES ASSUME NEW v \in Workers, session'[v].step = "rollback", session'[v].id = n + 1
                   PROVE FALSE
        BY DEF NotLeftOff
      <4>1. v # w /\ session'[v] = session[v]
        BY <1>2 DEF Idle
      <4>2. session[v] # Idle
        BY <4>1 DEF Idle
      <4>3. session[v].id \in 1..n
        BY <1>1, <4>1, <4>2 DEF Inv, SessionOK, CreateChanges
      <4> QED BY <4>1, <4>3
    <3>2. n + 1 \in DOMAIN config' /\ config'[n + 1].prev = i /\ ~config'[n + 1].rolled_back
      BY <1>1, <2>2 DEF CreateChanges
    <3> QED BY <3>1, <3>2 DEF Replaced
  <2>3. CASE i # t.id /\ i \in 1..n
    <3>1. config'[i].active = config[i].active /\ config'[i].rolled_back = config[i].rolled_back
      BY <1>1, <2>3 DEF CreateChanges
    <3>2. \A c \in DOMAIN config :
              /\ c \in DOMAIN config'
              /\ config'[c].prev = config[c].prev /\ config'[c].rolled_back = config[c].rolled_back
              /\ NotLeftOff(c) => NotLeftOff(c)'
      BY <1>1, <1>2, NotLeftOffFrame DEF CreateChanges
    <3> QED BY <1>1, <2>3, <3>1, <3>2 DEF Inv, Replaced, CreateChanges
  <2> QED BY <2>1, <2>2, <2>3
<1> QED BY <1>1, <1>2, <1>3, <1>4 DEF Inv, TypeOK, CreateChanges

\* Every step preserves the invariant, whatever overlaps.
LEMMA StepInv == Inv /\ [Next]_vars => Inv'
<1> SUFFICES ASSUME Inv, [Next]_vars PROVE Inv'
  OBVIOUS
<1> USE ConfigAssumption
<1>1. CASE UNCHANGED vars
  BY <1>1
  DEF vars, Inv, TypeOK, ChainDescends, FirstStays, SessionOK, Replaced, NotLeftOff
<1>2. ASSUME NEW w \in Workers, NEW key \in ConfigKeys, NEW percent \in Percents,
             CreateLoad(w, key, percent)
      PROVE  Inv'
  <2>1. PICK id : Load(w, "create", key, percent, id) /\ (id = 0 \/ id \in OfKey(key))
    BY <1>2 DEF CreateLoad, Highest
  <2> QED BY <2>1, LoadStep
<1>3. ASSUME NEW w \in Workers, NEW id \in 1..MaxRows, NEW percent \in Percents,
             RolloutLoad(w, id, percent)
      PROVE  Inv'
  <2>1. id \in DOMAIN config /\ config[id].key \in ConfigKeys /\ id \in OfKey(config[id].key)
    BY <1>3, RowAt DEF RolloutLoad, OfKey, Row
  <2>2. Load(w, "rollout", config[id].key, percent, id) /\ id # 0
    BY <1>3 DEF RolloutLoad
  <2> QED BY <2>1, <2>2, LoadStep
<1>4. ASSUME NEW w \in Workers, NEW key \in ConfigKeys, RollbackLoad(w, key) PROVE Inv'
  <2>1. PICK id \in OfKey(key) : config[id].prev # 0 /\ Load(w, "rollback_previous", key, 0, id)
    BY <1>4 DEF RollbackLoad, Highest, Active
  <2>2. id # 0
    BY DEF OfKey, Inv, TypeOK
  <2> QED BY <2>1, <2>2, LoadStep
<1>5. ASSUME NEW w \in Workers, Abort(w) PROVE Inv'
  BY <1>5, FinishStep DEF Abort
<1> QED
  BY <1>1, <1>2, <1>3, <1>4, <1>5, RollbackLoadPreviousStep, CreateCommitStep,
     RolloutCommitStep, RollbackCommitStep
  DEF Next

\* The inductive invariant of the configurations.
THEOREM Invariance == Spec => []Inv
BY InitInv, StepInv, PTL DEF Spec

\* Type correctness: in particular no percentage leaves 0..100.
THEOREM TypeCorrect == Spec => []TypeOK
<1>1. Inv => TypeOK
  BY DEF Inv
<1> QED BY <1>1, Invariance, PTL

\* The chain of previous rows goes down one version at a time within its key.
THEOREM ChainDescendsHolds == Spec => []ChainDescends
<1>1. Inv => ChainDescends
  BY DEF Inv
<1> QED BY <1>1, Invariance, PTL

\* A key that was ever configured has a version in force, whatever creates,
\* rollouts and rollbacks overlap.
THEOREM InForceHolds == Spec => []InForce
<1>1. Inv => InForce
  BY InvInForce
<1> QED BY <1>1, Invariance, PTL

-----------------------------------------------------------------------------
\* Keys that are not shared

\* About such a key one worker has a request in flight.
Alone ==
    \A v, w \in Workers :
        /\ session[v] # Idle
        /\ session[w] # Idle
        /\ session[v].key = session[w].key
        /\ session[v].key \notin shared
        => v = w

\* What that request read has not changed since.
Fresh(w) ==
    LET s == session[w]
    IN  s # Idle /\ s.key \notin shared =>
            /\ s.step = "create" =>
                  IF s.id = 0 THEN OfKey(s.key) = {}
                  ELSE s.id \in Highest(OfKey(s.key))
            /\ s.step \in {"rollback_previous", "rollback"} =>
                  s.id \in Highest(Active(s.key)) /\ s.row.active
            /\ s.step = "rollback" => s.prev_active = config[s.row.prev].active

\* No version number is given twice.
Distinct ==
    \A i, j \in DOMAIN config :
        /\ config[i].key = config[j].key
        /\ config[i].key \notin shared
        /\ config[i].version = config[j].version
        => i = j

SerialInv ==
    /\ Inv
    /\ Alone
    /\ \A w \in Workers : Fresh(w)
    /\ Distinct

\* A step leaves the rows of a key alone, but for their percentage and the mark
\* of a rollback.
SameKey(key) ==
    /\ OfKey(key)' = OfKey(key)
    /\ \A i \in OfKey(key) :
          /\ config'[i].version = config[i].version
          /\ config'[i].prev = config[i].prev
          /\ config'[i].active = config[i].active

-----------------------------------------------------------------------------
\* Versions

\* Versions start at 1, and no row has a version above its position.
LEMMA VersionBound ==
    ASSUME Inv, NEW i \in DOMAIN config
    PROVE  config[i].version \in 1..i
<1>1. Len(config) \in Nat /\ DOMAIN config = 1..Len(config) /\ \A j \in DOMAIN config : config[j] \in Row
  BY DEF Inv, TypeOK
<1> DEFINE S == {j \in DOMAIN config : config[j].version \notin 1..j}
<1>2. SUFFICES ASSUME S # {} PROVE FALSE
  OBVIOUS
<1>3. PICK j \in S : \A k \in S : j <= k
  <2>1. S \in SUBSET Nat
    BY <1>1
  <2> HIDE DEF S
  <2> QED BY <1>2, <2>1, SmallestId
<1>4. j \in DOMAIN config /\ j \in Nat /\ 1 <= j
  BY <1>1
<1>5. CASE config[j].prev = 0
  BY <1>4, <1>5 DEF Inv, ChainDescends
<1>6. CASE config[j].prev # 0
  <2>1. PICK p \in DOMAIN config : p = config[j].prev /\ p < j /\ p \notin S
    BY <1>1, <1>3, <1>4, <1>6, PreviousRow
  <2>2. config[p].version \in 1..p /\ config[j].version = config[p].version + 1
    BY <1>4, <1>6, <2>1 DEF Inv, ChainDescends
  <2> QED BY <1>1, <1>3, <1>4, <2>1, <2>2
<1> QED BY <1>5, <1>6

\* Among some rows one has the highest version.
LEMMA HasHighest ==
    ASSUME Inv, NEW ids \in SUBSET DOMAIN config, ids # {}
    PROVE  Highest(ids) # {}
<1>1. Len(config) \in Nat /\ DOMAIN config = 1..Len(config)
  BY DEF Inv, TypeOK
<1> DEFINE V == {config[i].version : i \in ids}
<1>2. V \in SUBSET (1..Len(config)) /\ V # {}
  <2>1. \A i \in ids : config[i].version \in 1..i /\ i \in 1..Len(config)
    BY <1>1, VersionBound
  <2> QED BY <1>1, <2>1
<1>3. PICK v \in V : \A u \in V : u <= v
  BY <1>1, <1>2, LargestId
<1>4. PICK i \in ids : config[i].version = v
  OBVIOUS
<1>5. i \in Highest(ids)
  BY <1>3, <1>4 DEF Highest
<1> QED BY <1>5

\* The version of some rows, in a table, is that of any of their highest ones.
LEMMA HighestVersion ==
    ASSUME NEW rows, NEW ids, NEW i \in ids,
           \A j \in ids : rows[j].version \in Int,
           \A j \in ids : rows[j].version <= rows[i].version
    PROVE  (IF ids = {} THEN 0
            ELSE rows[CHOOSE k \in {k \in ids : \A j \in ids : rows[j].version <= rows[k].version} :
                          TRUE].version)
           = rows[i].version
<1> DEFINE H == {k \in ids : \A j \in ids : rows[j].version <= rows[k].version}
<1>1. i \in H
  OBVIOUS
<1>2. PICK c \in H : c = CHOOSE k \in H : TRUE
  BY <1>1
<1>3. rows[c].version = rows[i].version
  OBVIOUS
<1> QED BY <1>2, <1>3

LEMMA VersionIs ==
    ASSUME Inv, NEW ids \in SUBSET DOMAIN config, NEW i \in Highest(ids)
    PROVE  Version(ids) = config[i].version
<1>1. \A j \in ids : config[j].version \in Int
  BY VersionBound
<1>2. i \in ids /\ \A j \in ids : config[j].version <= config[i].version
  BY DEF Highest
<1> QED BY <1>1, <1>2, HighestVersion DEF Version, Highest

\* After a step, the version of a key, and the version of it in force, are those
\* of any row that is then the highest.
LEMMA NextVersions ==
    ASSUME NEW key, \A j \in OfKey(key)' : config'[j].version \in Int
    PROVE  /\ \A i \in Highest(OfKey(key))' : Version(OfKey(key))' = config'[i].version
           /\ \A i \in Highest(Active(key))' : Version(Active(key))' = config'[i].version
<1>1. ASSUME NEW i \in Highest(OfKey(key))' PROVE Version(OfKey(key))' = config'[i].version
  <2>1. i \in OfKey(key)' /\ \A j \in OfKey(key)' : config'[j].version <= config'[i].version
    BY DEF Highest
  <2> QED BY <2>1, HighestVersion DEF Version, Highest
<1>2. ASSUME NEW i \in Highest(Active(key))' PROVE Version(Active(key))' = config'[i].version
  <2>1. i \in Active(key)' /\ \A j \in Active(key)' : config'[j].version <= config'[i].version
    BY DEF Highest
  <2>2. \A j \in Active(key)' : config'[j].version \in Int
    BY DEF Active
  <2> QED BY <2>1, <2>2, HighestVersion DEF Version, Highest
<1> QED BY <1>1, <1>2

\* A step that leaves the rows of a key alone leaves its versions alone.
LEMMA SameVersions ==
    ASSUME Inv, NEW key, SameKey(key)
    PROVE  /\ Active(key)' = Active(key)
           /\ Highest(OfKey(key))' = Highest(OfKey(key))
           /\ Highest(Active(key))' = Highest(Active(key))
           /\ Version(OfKey(key))' = Version(OfKey(key))
           /\ Version(Active(key))' = Version(Active(key))
<1>1. Active(key)' = Active(key)
  BY DEF SameKey, Active
<1>2. /\ OfKey(key)' = OfKey(key)
      /\ OfKey(key) \in SUBSET DOMAIN config /\ Active(key) \in SUBSET OfKey(key)
      /\ \A i \in OfKey(key) : config'[i].version = config[i].version /\ config[i].version \in Int
  BY VersionBound DEF SameKey, OfKey, Active
<1>3. /\ Highest(OfKey(key))' = Highest(OfKey(key))
      /\ Highest(Active(key))' = Highest(Active(key))
  BY <1>1, <1>2 DEF Highest
<1>4. Version(OfKey(key))' = Version(OfKey(key))
  <2>1. CASE OfKey(key) = {}
    BY <1>2, <2>1 DEF Version
  <2>2. CASE OfKey(key) # {}
    <3>1. PICK i \in OfKey(key) : i \in Highest(OfKey(key))
      BY <1>2, <2>2, HasHighest DEF Highest
    <3> QED BY <1>2, <1>3, <3>1, VersionIs, NextVersions
  <2> QED BY <2>1, <2>2
<1>5. Version(Active(key))' = Version(Active(key))
  <2>1. CASE Active(key) = {}
    BY <1>1, <2>1 DEF Version
  <2>2. CASE Active(key) # {}
    <3>1. PICK i \in Active(key) : i \in Highest(Active(key))
      BY <1>2, <2>2, HasHighest DEF Highest
    <3>2. Version(Active(key)) = config[i].version
      BY <1>2, <3>1, VersionIs
    <3> QED BY <1>2, <1>3, <3>1, <3>2, NextVersions
  <2> QED BY <2>1, <2>2
<1> QED BY <1>1, <1>3, <1>4, <1>5

-----------------------------------------------------------------------------
\* What the commits do to the versions of a key

\* Where a session's row is, and the row before it.
LEMMA SessionRows ==
    ASSUME Inv, NEW w \in Workers, session[w] # Idle, session[w].id # 0
    PROVE  /\ session[w].id \in OfKey(session[w].key)
           /\ config[session[w].id].prev # 0 =>
                 /\ config[session[w].id].prev \in OfKey(session[w].key)
                 /\ config[session[w].id].version = config[config[session[w].id].prev].version + 1
<1>1. session[w].id \in DOMAIN config /\ config[session[w].id].key = session[w].key
  BY DEF Inv, SessionOK
<1> QED BY <1>1, PreviousRow DEF Inv, ChainDescends, OfKey

\* A commit touches rows of the key of its session only, a rollout none.
LEMMA OtherKeys ==
    ASSUME Inv, NEW w \in Workers, NEW key,
           \/ RolloutCommit(w)
           \/ (CreateCommit(w) \/ RollbackCommit(w)) /\ key # session[w].key
    PROVE  SameKey(key)
<1>1. CASE RolloutCommit(w)
  BY <1>1, RolloutRows DEF SameKey, OfKey
<1>2. CASE CreateCommit(w) /\ key # session[w].key
  <2>0. PICK t \in Session, n \in Nat : CreateChanges(w, t, n)
    BY <1>2, CreateRows
  <2>1. /\ t = session[w]
        /\ t.id # 0 => t.id \in DOMAIN config /\ t.key = config[t.id].key
        /\ DOMAIN config = 1..n /\ DOMAIN config' = 1..(n + 1)
        /\ \A i \in 1..n :
              /\ config'[i].key = config[i].key /\ config'[i].version = config[i].version
              /\ config'[i].prev = config[i].prev
              /\ i # t.id => config'[i].active = config[i].active
        /\ config'[n + 1].key = t.key
    BY <2>0 DEF CreateChanges
  <2>2. OfKey(key)' = OfKey(key)
    <3>1. \A i \in 1..(n + 1) : i = n + 1 \/ i \in 1..n
      OBVIOUS
    <3> QED BY <1>2, <2>1, <3>1 DEF OfKey
  <2>3. \A i \in OfKey(key) : i \in 1..n /\ i # t.id
    <3>1. \A i \in 1..n : i # 0
      OBVIOUS
    <3> QED BY <1>2, <2>1, <3>1 DEF OfKey
  <2> QED BY <2>1, <2>2, <2>3 DEF SameKey
<1>3. CASE RollbackCommit(w) /\ key # session[w].key
  <2>0. PICK t \in Session, p \in DOMAIN config : RollbackChanges(w, t, p)
    BY <1>3, RollbackRows
  <2>1. /\ t = session[w] /\ t # Idle /\ t.id \in DOMAIN config
        /\ config[t.id].prev # 0 /\ p = config[t.id].prev
        /\ DOMAIN config' = DOMAIN config
        /\ \A i \in DOMAIN config :
              /\ config'[i].key = config[i].key /\ config'[i].version = config[i].version
              /\ config'[i].prev = config[i].prev
              /\ i \notin {t.id, p} => config'[i].active = config[i].active
    BY <2>0 DEF RollbackChanges
  <2>2. t.id # 0
    BY <2>1 DEF Inv, TypeOK
  <2>3. config[t.id].key # key /\ config[p].key # key
    BY <1>3, <2>1, <2>2, SessionRows DEF OfKey
  <2> QED BY <2>1, <2>3 DEF SameKey, OfKey
<1> QED BY <1>1, <1>2, <1>3

\* A create gives the next version number, and puts it in force.
LEMMA CreateVersions ==
    ASSUME SerialInv, NEW w \in Workers, CreateCommit(w), NEW key, key = session[w].key, key \notin shared
    PROVE  \E m :
               /\ DOMAIN config' = DOMAIN config \union {m} /\ m \notin DOMAIN config
               /\ \A i \in DOMAIN config : config'[i].key = config[i].key /\ config'[i].version = config[i].version
               /\ config'[m].key = key
               /\ \A i \in OfKey(key) : config[i].version < config'[m].version
               /\ Version(OfKey(key))' = Version(OfKey(key)) + 1
               /\ Version(Active(key))' = Version(OfKey(key)) + 1
<1>0. PICK t \in Session, n \in Nat : CreateChanges(w, t, n)
  BY CreateRows DEF SerialInv
<1>1. /\ t = session[w] /\ t.step = "create" /\ t # Idle
      /\ t.id # 0 => t.id \in DOMAIN config
      /\ DOMAIN config = 1..n /\ DOMAIN config' = 1..(n + 1)
      /\ \A i \in 1..n : config'[i].key = config[i].key /\ config'[i].version = config[i].version
      /\ config'[n + 1].key = t.key /\ config'[n + 1].active
      /\ config'[n + 1].version = IF t.id = 0 THEN 1 ELSE config[t.id].version + 1
  BY <1>0 DEF CreateChanges
<1> DEFINE m == n + 1
<1>2. IF t.id = 0 THEN OfKey(key) = {} ELSE t.id \in Highest(OfKey(key))
  BY <1>1 DEF SerialInv, Fresh
<1>3. OfKey(key) \in SUBSET DOMAIN config /\ \A i \in OfKey(key) : config[i].version \in Int
  BY VersionBound DEF OfKey, SerialInv
<1>4. /\ config'[m].version = Version(OfKey(key)) + 1 /\ config'[m].version \in Int
      /\ \A i \in OfKey(key) : config[i].version < config'[m].version
  <2>1. CASE t.id = 0
    BY <1>1, <1>2, <2>1 DEF Version
  <2>2. CASE t.id # 0
    <3>1. t.id \in OfKey(key) /\ \A i \in OfKey(key) : config[i].version <= config[t.id].version
      BY <1>2, <2>2 DEF Highest
    <3>2. Version(OfKey(key)) = config[t.id].version
      BY <1>2, <1>3, <2>2, VersionIs DEF SerialInv
    <3> QED BY <1>1, <1>3, <2>2, <3>1, <3>2
  <2> QED BY <2>1, <2>2
<1>5. DOMAIN config' = DOMAIN config \union {m} /\ m \notin DOMAIN config
  BY <1>1
<1>6. OfKey(key)' = OfKey(key) \union {m}
  BY <1>1, <1>5 DEF OfKey
<1>7. /\ \A j \in OfKey(key)' : config'[j].version \in Int /\ config'[j].version <= config'[m].version
      /\ m \in OfKey(key)'
  BY <1>1, <1>3, <1>4, <1>6 DEF OfKey
<1>8. m \in Highest(OfKey(key))' /\ m \in Highest(Active(key))'
  BY <1>1, <1>7 DEF Highest, Active
<1>9. Version(OfKey(key))' = config'[m].version /\ Version(Active(key))' = config'[m].version
  BY <1>7, <1>8, NextVersions
<1> HIDE DEF m
<1>10. \A i \in DOMAIN config : config'[i].key = config[i].key /\ config'[i].version = config[i].version
  BY <1>1
<1>11. config'[m].key = key
  BY <1>1 DEF m
<1> QED BY <1>4, <1>5, <1>9, <1>10, <1>11

\* A rollback gives no number, and puts the version just below in force.
LEMMA RollbackVersions ==
    ASSUME SerialInv, NEW w \in Workers, RollbackCommit(w), NEW key, key = session[w].key, key \notin shared
    PROVE  /\ Version(OfKey(key))' = Version(OfKey(key))
           /\ Version(Active(key))' = Version(Active(key)) - 1
           /\ Version(Active(key)) \in Int /\ Version(Active(key)) > 1
<1>0. PICK t \in Session, p \in DOMAIN config : RollbackChanges(w, t, p)
  BY RollbackRows DEF SerialInv
<1>1. /\ t = session[w] /\ t.step = "rollback" /\ t # Idle /\ t.id \in DOMAIN config
      /\ t.row.prev = config[t.id].prev /\ config[t.id].prev # 0
      /\ p = config[t.id].prev /\ p # t.id
      /\ DOMAIN config' = DOMAIN config
      /\ config'[t.id].active = Written(t.row.active, FALSE, config[t.id].active)
      /\ config'[p].active = Written(t.prev_active, TRUE, config[p].active)
      /\ \A i \in DOMAIN config :
            /\ config'[i].key = config[i].key /\ config'[i].version = config[i].version
            /\ i \notin {t.id, p} => config'[i].active = config[i].active
  BY <1>0 DEF RollbackChanges
<1>2. t.id \in Highest(Active(key)) /\ t.row.active /\ t.prev_active = config[p].active
  BY <1>1 DEF SerialInv, Fresh
<1>3. config[p].active \in BOOLEAN /\ t.row.active \in BOOLEAN /\ t.id # 0
  BY <1>1, RowAt DEF SerialInv, Inv, TypeOK, SessionOK, Row
<1>4. ~config'[t.id].active /\ config'[p].active
  BY <1>1, <1>2, <1>3 DEF Written
<1>5. p \in OfKey(key) /\ config[t.id].version = config[p].version + 1
  BY <1>1, <1>3, SessionRows DEF SerialInv
<1>6. /\ OfKey(key) \in SUBSET DOMAIN config /\ Active(key) \in SUBSET OfKey(key)
      /\ OfKey(key)' = OfKey(key)
      /\ \A i \in DOMAIN config : config[i].version \in Int /\ config[i].version >= 1
  BY <1>1, VersionBound DEF SerialInv, OfKey, Active
<1>7. Version(Active(key)) = config[t.id].version
  BY <1>2, <1>6, VersionIs DEF SerialInv
<1>8. p \in Highest(Active(key))'
  <2>1. p \in Active(key)'
    BY <1>4, <1>5, <1>6 DEF Active
  <2>2. ASSUME NEW j \in Active(key)' PROVE config'[j].version <= config'[p].version
    <3>1. j \in OfKey(key) /\ config'[j].active /\ j # t.id
      BY <1>4, <1>6 DEF Active
    <3>2. CASE j = p
      BY <1>1, <1>6, <3>2
    <3>3. CASE j # p
      <4>1. j \in Active(key) /\ j \in DOMAIN config
        BY <1>1, <1>6, <3>1, <3>3 DEF Active
      <4>2. config[j].version <= config[t.id].version
        BY <1>2, <4>1 DEF Highest
      <4>3. config[j].version # config[t.id].version
        <5>1. t.id \in OfKey(key)
          BY <1>2, <1>6 DEF Highest
        <5> QED BY <3>1, <5>1 DEF SerialInv, Distinct, OfKey
      <4> QED BY <1>1, <1>5, <1>6, <4>1, <4>2, <4>3
    <3> QED BY <3>2, <3>3
  <2> QED BY <2>1, <2>2 DEF Highest
<1>9. Version(Active(key))' = config[p].version
  BY <1>1, <1>6, <1>8, NextVersions
<1>10. Version(OfKey(key))' = Version(OfKey(key))
  <2>1. PICK i \in OfKey(key) : i \in Highest(OfKey(key))
    BY <1>5, <1>6, HasHighest DEF Highest, SerialInv
  <2>2. Version(OfKey(key)) = config[i].version
    BY <1>6, <2>1, VersionIs DEF SerialInv
  <2>3. i \in Highest(OfKey(key))'
    BY <1>1, <1>6, <2>1 DEF Highest
  <2> QED BY <1>1, <1>6, <2>1, <2>2, <2>3, NextVersions
<1> QED BY <1>1, <1>5, <1>6, <1>7, <1>9, <1>10

-----------------------------------------------------------------------------
\* Nobody disturbs the requests about a key that is not shared

LEMMA SerialInit == Init => SerialInv
<1> SUFFICES ASSUME Init PROVE SerialInv
  OBVIOUS
<1>1. config = <<>> /\ DOMAIN config = {} /\ \A w \in Workers : session[w] = Idle
  BY DEF Init
<1> QED BY <1>1, InitInv DEF SerialInv, Alone, Fresh, Distinct

\* A request relies on the rows of its key only.
LEMMA FreshFrame ==
    ASSUME Inv, NEW w \in Workers, Fresh(w), session'[w] = session[w], shared' = shared,
           session[w] # Idle /\ session[w].key \notin shared => SameKey(session[w].key)
    PROVE  Fresh(w)'
<1> SUFFICES ASSUME session[w] # Idle, session[w].key \notin shared PROVE Fresh(w)'
  BY DEF Fresh
<1>1. PICK s : s = session[w]
  OBVIOUS
<1>2. SameKey(s.key)
  BY <1>1
<1>3. /\ OfKey(s.key)' = OfKey(s.key)
      /\ Highest(OfKey(s.key))' = Highest(OfKey(s.key))
      /\ Highest(Active(s.key))' = Highest(Active(s.key))
  BY <1>2, SameVersions DEF SameKey
<1>4. s.step = "rollback" => config'[s.row.prev].active = config[s.row.prev].active
  <2> SUFFICES ASSUME s.step = "rollback" PROVE config'[s.row.prev].active = config[s.row.prev].active
    OBVIOUS
  <2>1. s.id # 0 /\ s.row.prev # 0 /\ s.row.prev = config[s.id].prev
    BY <1>1 DEF Inv, SessionOK
  <2>2. s.row.prev \in OfKey(s.key)
    BY <1>1, <2>1, SessionRows
  <2> QED BY <1>2, <2>2 DEF SameKey
<1>5. session'[w] = s
  BY <1>1
<1> QED BY <1>1, <1>3, <1>4, <1>5 DEF Fresh

\* A session is opened, or goes on: about a key that is not shared it is the
\* only one.
LEMMA SessionSerial ==
    ASSUME SerialInv, NEW w \in Workers, NEW s \in Session, UNCHANGED <<shared, config>>, Inv',
           session' = [session EXCEPT ![w] = s],
           s # Idle => \A v \in Workers \ {w} :
               session[v] # Idle /\ session[v].key = s.key => s.key \in shared,
           Fresh(w)'
    PROVE  SerialInv'
<1>1. session'[w] = s /\ \A v \in Workers \ {w} : session'[v] = session[v]
  BY DEF SerialInv, Inv, TypeOK
<1>2. Alone'
  BY <1>1 DEF SerialInv, Alone
<1>3. \A v \in Workers \ {w} : Fresh(v)'
  BY <1>1, FreshFrame DEF SerialInv, SameKey, OfKey
<1>4. Distinct'
  BY DEF SerialInv, Distinct
<1> QED BY <1>2, <1>3, <1>4 DEF SerialInv

\* A load opens a session with what it reads.
LEMMA LoadSerial ==
    ASSUME SerialInv, Inv', NEW w \in Workers, NEW key \in ConfigKeys, NEW percent \in 0..100,
           NEW step \in {"create", "rollout", "rollback_previous"}, NEW id,
           Load(w, step, key, percent, id),
           step = "create" => IF id = 0 THEN OfKey(key) = {} ELSE id \in Highest(OfKey(key)),
           step = "rollback_previous" => id # 0 /\ id \in Highest(Active(key))
    PROVE  SerialInv'
<1>1. PICK s : s = [step |-> step, key |-> key, percent |-> percent, id |-> id,
                    row |-> IF id = 0 THEN Null ELSE config[id], prev_active |-> FALSE]
  OBVIOUS
<1>2. session' = [session EXCEPT ![w] = s] /\ UNCHANGED <<shared, config>> /\ CanStart(w, key)
  BY <1>1 DEF Load
<1>3. /\ s.step = step /\ s.key = key /\ s.id = id /\ s.step # "rollback"
      /\ s.row = IF id = 0 THEN Null ELSE config[id]
  BY <1>1
<1>4. session'[w] = s
  BY <1>2 DEF SerialInv, Inv, TypeOK
<1>5. s \in Session
  <2>1. session' \in [Workers -> Session]
    BY DEF Inv, TypeOK
  <2> QED BY <1>4, <2>1
<1>6. Fresh(w)'
  <2>1. /\ OfKey(key)' = OfKey(key) /\ Highest(OfKey(key))' = Highest(OfKey(key))
        /\ Highest(Active(key))' = Highest(Active(key))
    BY <1>2 DEF OfKey, Active, Highest
  <2>2. s.step = "rollback_previous" => s.row.active
    BY <1>3 DEF Highest, Active
  <2> QED BY <1>3, <1>4, <2>1, <2>2 DEF Fresh
<1>7. \A v \in Workers \ {w} : session[v] # Idle /\ session[v].key = s.key => s.key \in shared
  BY <1>2, <1>3 DEF CanStart
<1> QED BY <1>2, <1>5, <1>6, <1>7, SessionSerial

\* A rollback in flight looks at the row before.
LEMMA LoadPreviousSerial ==
    ASSUME SerialInv, Inv', NEW w \in Workers, RollbackLoadPrevious(w)
    PROVE  SerialInv'
<1>1. PICK t \in Session : t = session[w]
  BY DEF SerialInv, Inv, TypeOK
<1>2. PICK s : s = [t EXCEPT !.step = "rollback", !.prev_active = config[t.row.prev].active]
  OBVIOUS
<1>3. t.step = "rollback_previous" /\ t # Idle
  BY <1>1 DEF RollbackLoadPrevious, Idle
<1>4. /\ s.step = "rollback" /\ s.prev_active = config[t.row.prev].active
      /\ s.id = t.id /\ s.row = t.row /\ s.key = t.key
  BY <1>2, <1>3 DEF Session, Idle
<1>5. session' = [session EXCEPT ![w] = s] /\ UNCHANGED <<shared, config>>
  BY <1>1, <1>2 DEF RollbackLoadPrevious, SerialInv, Inv, TypeOK
<1>6. session'[w] = s
  BY <1>5 DEF SerialInv, Inv, TypeOK
<1>7. s \in Session
  <2>1. session' \in [Workers -> Session]
    BY DEF Inv, TypeOK
  <2> QED BY <1>6, <2>1
<1>8. Fresh(w)'
  <2>1. Highest(Active(t.key))' = Highest(Active(t.key))
    BY <1>5 DEF OfKey, Active, Highest
  <2>2. t.key \notin shared => t.id \in Highest(Active(t.key)) /\ t.row.active
    BY <1>1, <1>3 DEF SerialInv, Fresh
  <2> QED BY <1>4, <1>5, <1>6, <2>1, <2>2 DEF Fresh
<1>9. \A v \in Workers \ {w} : session[v] # Idle /\ session[v].key = s.key => s.key \in shared
  BY <1>1, <1>3, <1>4 DEF SerialInv, Alone
<1> QED BY <1>5, <1>7, <1>8, <1>9, SessionSerial

\* A session ends.
LEMMA AbortSerial ==
    ASSUME SerialInv, Inv', NEW w \in Workers, Abort(w)
    PROVE  SerialInv'
<1>1. session' = [session EXCEPT ![w] = Idle] /\ UNCHANGED <<shared, config>> /\ Idle \in Session
  BY DEF Abort, Finish, Session
<1>2. Fresh(w)'
  BY <1>1 DEF Fresh, SerialInv, Inv, TypeOK
<1> QED BY <1>1, <1>2, SessionSerial

\* A commit is no business of the requests about other keys, and there is no
\* other about its own if that is not shared.
LEMMA CommitSerial ==
    ASSUME SerialInv, Inv', NEW w \in Workers,
           CreateCommit(w) \/ RolloutCommit(w) \/ RollbackCommit(w)
    PROVE  SerialInv'
<1>1. session[w] # Idle /\ Finish(w)
  <2>1. session[w].step \in {"create", "rollout", "rollback"} /\ Finish(w)
    BY Zenon DEF CreateCommit, RolloutCommit, RollbackCommit
  <2> QED BY <2>1 DEF Idle
<1>2. /\ shared' = shared /\ session'[w] = Idle
      /\ \A v \in Workers \ {w} : session'[v] = session[v]
  BY <1>1 DEF Finish, SerialInv, Inv, TypeOK
<1>3. Alone'
  BY <1>2 DEF SerialInv, Alone
<1>4. Fresh(w)'
  BY <1>2 DEF Fresh
<1>5. ASSUME NEW v \in Workers \ {w} PROVE Fresh(v)'
  <2>1. ASSUME session[v] # Idle, session[v].key \notin shared PROVE SameKey(session[v].key)
    <3>1. session[v].key # session[w].key
      BY <1>1, <2>1 DEF SerialInv, Alone
    <3> QED BY <3>1, OtherKeys DEF SerialInv
  <2> QED BY <1>2, <2>1, FreshFrame DEF SerialInv
<1>6. Distinct'
  <2>1. CASE RolloutCommit(w)
    BY <1>2, <2>1, RolloutRows DEF SerialInv, Distinct
  <2>2. CASE RollbackCommit(w)
    <3>1. PICK t \in Session, p \in DOMAIN config : RollbackChanges(w, t, p)
      BY <2>2, RollbackRows DEF SerialInv
    <3>2. /\ DOMAIN config' = DOMAIN config
          /\ \A i \in DOMAIN config : config'[i].key = config[i].key /\ config'[i].version = config[i].version
      BY <3>1 DEF RollbackChanges
    <3> QED BY <1>2, <3>2 DEF SerialInv, Distinct
  <2>3. CASE CreateCommit(w) /\ session[w].key \in shared
    <3>1. PICK t \in Session, n \in Nat : CreateChanges(w, t, n)
      BY <2>3, CreateRows DEF SerialInv
    <3>2. /\ DOMAIN config = 1..n /\ DOMAIN config' = 1..(n + 1)
          /\ \A i \in 1..n : config'[i].key = config[i].key /\ config'[i].version = config[i].version
          /\ config'[n + 1].key \in shared
      BY <2>3, <3>1 DEF CreateChanges
    <3>3. \A i \in 1..(n + 1) : i \in 1..n \/ i = n + 1
      OBVIOUS
    <3> QED BY <1>2, <3>2, <3>3 DEF SerialInv, Distinct
  <2>4. CASE CreateCommit(w) /\ session[w].key \notin shared
    <3>1. PICK m :
              /\ DOMAIN config' = DOMAIN config \union {m}
              /\ \A i \in DOMAIN config :
                    config'[i].key = config[i].key /\ config'[i].version = config[i].version
              /\ config'[m].key = session[w].key
              /\ \A i \in OfKey(session[w].key) : config[i].version < config'[m].version
      BY <2>4, CreateVersions
    <3>2. \A i \in DOMAIN config : config[i].version \in Int
      BY VersionBound DEF SerialInv
    <3>3. \A i \in DOMAIN config :
              config'[i].key = config'[m].key => config'[i].version # config'[m].version
      BY <3>1, <3>2 DEF OfKey
    <3> QED BY <1>2, <3>1, <3>3 DEF SerialInv, Distinct
  <2> QED BY <2>1, <2>2, <2>3, <2>4
<1> QED BY <1>3, <1>4, <1>5, <1>6 DEF SerialInv

\* Every step keeps the requests about keys that are not shared fresh.
LEMMA SerialStep == SerialInv /\ [Next]_vars => SerialInv'
<1> SUFFICES ASSUME SerialInv, [Next]_vars PROVE SerialInv'
  OBVIOUS
<1> USE ConfigAssumption
<1>1. Inv'
  BY StepInv DEF SerialInv
<1>2. CASE UNCHANGED vars
  <2>1. \A w \in Workers : Fresh(w)'
    BY <1>2 DEF vars, SerialInv, Fresh, OfKey, Active, Highest
  <2>2. Alone' /\ Distinct'
    BY <1>2 DEF vars, SerialInv, Alone, Distinct
  <2> QED BY <1>1, <2>1, <2>2 DEF SerialInv
<1>3. ASSUME NEW w \in Workers, NEW key \in ConfigKeys, NEW percent \in Percents,
             CreateLoad(w, key, percent)
      PROVE  SerialInv'
  <2>1. CASE OfKey(key) = {} /\ Load(w, "create", key, percent, 0)
    BY <1>1, <2>1, LoadSerial
  <2>2. CASE \E id \in Highest(OfKey(key)) : Load(w, "create", key, percent, id)
    <3>1. PICK id \in Highest(OfKey(key)) : Load(w, "create", key, percent, id)
      BY <2>2
    <3>2. id # 0
      BY DEF Highest, OfKey, SerialInv, Inv, TypeOK
    <3> QED BY <1>1, <3>1, <3>2, LoadSerial
  <2> QED BY <1>3, <2>1, <2>2 DEF CreateLoad
<1>4. ASSUME NEW w \in Workers, NEW id \in 1..MaxRows, NEW percent \in Percents,
             RolloutLoad(w, id, percent)
      PROVE  SerialInv'
  <2>1. config[id].key \in ConfigKeys /\ Load(w, "rollout", config[id].key, percent, id)
    BY <1>4, RowAt DEF RolloutLoad, Row, SerialInv
  <2> QED BY <1>1, <2>1, LoadSerial
<1>5. ASSUME NEW w \in Workers, NEW key \in ConfigKeys, RollbackLoad(w, key) PROVE SerialInv'
  <2>1. PICK id \in Highest(Active(key)) : Load(w, "rollback_previous", key, 0, id)
    BY <1>5 DEF RollbackLoad
  <2>2. id # 0
    BY DEF Highest, Active, OfKey, SerialInv, Inv, TypeOK
  <2> QED BY <1>1, <2>1, <2>2, LoadSerial
<1> QED
  BY <1>1, <1>2, <1>3, <1>4, <1>5, LoadPreviousSerial, AbortSerial, CommitSerial DEF Next

-----------------------------------------------------------------------------
\* The refinement

-----------------------------------------------------------------------------
\* The refinement

\* A step that changes the versions of one key.
LEMMA OneKey ==
    ASSUME shared' = shared, NEW key \in ConfigKeys, key \notin shared,
           \A k \in ConfigKeys \ {key} : SameKey(k), Inv
    PROVE  /\ Newest' = [Newest EXCEPT ![key] = Version(OfKey(key))']
           /\ VersionInForce' = [VersionInForce EXCEPT ![key] = Version(Active(key))']
           /\ Newest[key] = Version(OfKey(key)) /\ VersionInForce[key] = Version(Active(key))
<1>1. \A k \in ConfigKeys \ {key} :
          /\ Version(OfKey(k))' = Version(OfKey(k))
          /\ Version(Active(k))' = Version(Active(k))
  BY SameVersions
<1>2. Newest' = [k \in ConfigKeys |-> IF k \in shared THEN 0 ELSE Version(OfKey(k))']
  BY DEF Newest
<1>3. VersionInForce' = [k \in ConfigKeys |-> IF k \in shared THEN 0 ELSE Version(Active(k))']
  BY DEF VersionInForce
<1> QED BY <1>1, <1>2, <1>3 DEF Newest, VersionInForce

\* A step that changes none.
LEMMA NoKey ==
    ASSUME Inv, shared' = shared, \A key \in ConfigKeys \ shared : SameKey(key)
    PROVE  UNCHANGED Versions!vars
<1>1. \A k \in ConfigKeys \ shared :
          /\ Version(OfKey(k))' = Version(OfKey(k))
          /\ Version(Active(k))' = Version(Active(k))
  BY SameVersions
<1>2. Newest' = [k \in ConfigKeys |-> IF k \in shared THEN 0 ELSE Version(OfKey(k))']
  BY DEF Newest
<1>3. VersionInForce' = [k \in ConfigKeys |-> IF k \in shared THEN 0 ELSE Version(Active(k))']
  BY DEF VersionInForce
<1>4. Newest' = Newest /\ VersionInForce' = VersionInForce
  BY <1>1, <1>2, <1>3 DEF Newest, VersionInForce
<1> QED BY <1>4 DEF Versions!vars, Newest, VersionInForce

\* At the start no key has a version.
LEMMA RefineInit == Init => Versions!Init
<1> SUFFICES ASSUME Init PROVE Versions!Init
  OBVIOUS
<1>1. \A key : OfKey(key) = {} /\ Active(key) = {}
  BY DEF Init, OfKey, Active
<1>2. \A key : Version(OfKey(key)) = 0 /\ Version(Active(key)) = 0
  BY <1>1 DEF Version
<1> QED BY <1>2 DEF Versions!Init, Newest, VersionInForce

\* The commits of creates and rollbacks are the steps of the abstract keys;
\* everything else, and everything about shared keys, is invisible there.
LEMMA RefineStep ==
    ASSUME SerialInv, [Next]_vars
    PROVE  [Versions!Next]_Versions!vars
<1>1. ASSUME UNCHANGED <<shared, config>> PROVE UNCHANGED Versions!vars
  BY <1>1, NoKey DEF SameKey, OfKey, SerialInv
<1>2. ASSUME NEW w \in Workers, RolloutCommit(w) PROVE UNCHANGED Versions!vars
  <2>1. shared' = shared
    BY <1>2 DEF RolloutCommit, Finish
  <2> QED BY <1>2, <2>1, OtherKeys, NoKey DEF SerialInv
<1>3. ASSUME NEW w \in Workers, CreateCommit(w) \/ RollbackCommit(w)
      PROVE  [Versions!Next]_Versions!vars
  <2>1. PICK key : key = session[w].key
    OBVIOUS
  <2>2. shared' = shared /\ key \in ConfigKeys
    <3>1. session[w].step \in {"create", "rollback"} /\ Finish(w)
      BY <1>3, Zenon DEF CreateCommit, RollbackCommit
    <3>2. session[w] \in Session
      BY DEF SerialInv, Inv, TypeOK
    <3> QED BY <2>1, <3>1, <3>2 DEF Finish, Session, Idle
  <2>3. \A k \in ConfigKeys \ {key} : SameKey(k)
    BY <1>3, <2>1, OtherKeys DEF SerialInv
  <2>4. CASE key \in shared
    BY <2>2, <2>3, <2>4, NoKey DEF SerialInv
  <2>5. CASE key \notin shared /\ CreateCommit(w)
    <3>1. /\ Version(OfKey(key))' = Version(OfKey(key)) + 1
          /\ Version(Active(key))' = Version(OfKey(key)) + 1
      BY <2>1, <2>5, CreateVersions
    <3>2. /\ Newest' = [Newest EXCEPT ![key] = Newest[key] + 1]
          /\ VersionInForce' = [VersionInForce EXCEPT ![key] = Newest[key] + 1]
      BY <2>2, <2>3, <2>5, <3>1, OneKey DEF SerialInv
    <3>3. Versions!Create(key)
      BY <3>2 DEF Versions!Create, Newest, VersionInForce
    <3> QED BY <2>2, <3>3 DEF Versions!Next
  <2>6. CASE key \notin shared /\ RollbackCommit(w)
    <3>1. /\ Version(OfKey(key))' = Version(OfKey(key))
          /\ Version(Active(key))' = Version(Active(key)) - 1
          /\ Version(Active(key)) > 1
      BY <2>1, <2>6, RollbackVersions
    <3>2. /\ Newest' = [Newest EXCEPT ![key] = Newest[key]]
          /\ VersionInForce' = [VersionInForce EXCEPT ![key] = VersionInForce[key] - 1]
          /\ VersionInForce[key] > 1
      BY <2>2, <2>3, <2>6, <3>1, OneKey DEF SerialInv
    <3>3. Newest' = Newest
      BY <2>2, <3>2 DEF Newest
    <3>4. Versions!Rollback(key)
      BY <3>2, <3>3 DEF Versions!Rollback, Newest, VersionInForce
    <3> QED BY <2>2, <3>4 DEF Versions!Next
  <2> QED BY <1>3, <2>4, <2>5, <2>6
<1>4. CASE UNCHANGED vars
  BY <1>1, <1>4 DEF vars
<1>5. CASE Next
  <2>1. \/ UNCHANGED <<shared, config>>
        \/ \E w \in Workers : CreateCommit(w) \/ RolloutCommit(w) \/ RollbackCommit(w)
    BY <1>5 DEF Next, CreateLoad, RolloutLoad, RollbackLoad, Load, RollbackLoadPrevious, Abort, Finish
  <2> QED BY <1>1, <1>2, <1>3, <2>1
<1> QED BY <1>4, <1>5

\* About a key that is not shared a create gives the next version number and
\* puts it in force, and a rollback goes down by one, whatever else is in flight.
THEOREM VersionsHold == Spec => ImplementsVersions
<1>1. Init => Versions!Init
  BY RefineInit
<1>2. Spec => []SerialInv
  BY SerialInit, SerialStep, PTL DEF Spec
<1>3. SerialInv /\ [Next]_vars => [Versions!Next]_Versions!vars
  BY RefineStep
<1> QED BY <1>1, <1>2, <1>3, PTL DEF Spec, ImplementsVersions, Versions!Spec

-----------------------------------------------------------------------------
\* The feature store

\* A feature that is written has a time to live, and keeps it.
Defined ==
    /\ \A w \in Workers : upsert[w] # NoUpsert => ttl[upsert[w].feature] # Null
    /\ \A v \in DOMAIN values :
          /\ ttl[values[v].feature] # Null
          /\ values[v].expires_at = values[v].window_end + ttl[values[v].feature]

\* The times of a value.
Timed ==
    /\ \A w \in Workers : upsert[w] # NoUpsert => upsert[w].started <= now
    /\ \A v \in DOMAIN values :
          /\ values[v].created_at <= values[v].window_end
          /\ values[v].window_end <= now

\* What was stored as cold had expired.
Layered ==
    \A v \in DOMAIN values : values[v].storage_layer = "cold" => values[v].expires_at <= now

\* An object that is not contended has one upsert in flight.
Exclusive ==
    \A v, w \in Workers :
        /\ upsert[v] # NoUpsert
        /\ upsert[w] # NoUpsert
        /\ upsert[v].object = upsert[w].object
        /\ upsert[v].object \notin contended
        => v = w

\* It started after everything that is stored about its object.
Behind ==
    \A w \in Workers :
        upsert[w] # NoUpsert /\ upsert[w].object \notin contended =>
            \A v \in DOMAIN values :
                values[v].object = upsert[w].object =>
                    /\ values[v].created_at < upsert[w].started
                    /\ values[v].window_end <= upsert[w].started

\* Both times order the values of an object that is not contended alike.
Ordered ==
    \A u, v \in DOMAIN values :
        /\ u < v
        /\ values[u].object = values[v].object
        /\ values[u].object \notin contended
        => /\ values[u].created_at < values[v].created_at
           /\ values[u].window_end <= values[v].window_end

FeatureInv ==
    /\ FeatureTypeOK
    /\ Defined
    /\ Timed
    /\ Layered
    /\ Exclusive
    /\ Behind
    /\ Ordered

-----------------------------------------------------------------------------
\* What the types say

LEMMA ValueTypes ==
    ASSUME FeatureTypeOK, NEW v \in DOMAIN values
    PROVE  /\ v \in Nat
           /\ values[v] \in Value
           /\ values[v].feature \in Features
           /\ values[v].object \in Objects
           /\ values[v].created_at \in Nat
           /\ values[v].window_end \in Nat
           /\ values[v].expires_at \in Nat
           /\ values[v].storage_layer \in Layers
<1>1. v \in Nat /\ values[v] \in Value
  BY DEF FeatureTypeOK
<1>2. QED
  BY <1>1 DEF Value

LEMMA UpsertTypes ==
    ASSUME FeatureTypeOK, NEW w \in Workers
    PROVE  /\ upsert[w] # NoUpsert <=> upsert[w].step = "upsert"
           /\ upsert[w] # NoUpsert =>
                 /\ upsert[w].feature \in Features
                 /\ upsert[w].object \in Objects
                 /\ upsert[w].started \in Nat
                 /\ upsert[w].origin \in Origins
BY DEF FeatureTypeOK, Upsert, NoUpsert

LEMMA ClockTypes ==
    ASSUME FeatureTypeOK
    PROVE  /\ now \in Nat
           /\ \A f \in Features : ttl[f] # Null => ttl[f] \in Nat
           /\ MaxClock \in Nat
<1>1. MaxClock \in Nat /\ now \in 0..MaxClock
  BY FeatureAssumption DEF FeatureTypeOK
<1>2. ASSUME NEW f \in Features, ttl[f] # Null
      PROVE  ttl[f] \in Nat
  <2>1. ttl[f] \in Ttls \union {Null}
    BY DEF FeatureTypeOK
  <2>2. QED
    BY <1>2, <2>1, FeatureAssumption
<1>3. QED
  BY <1>1, <1>2

\* An upsert appends one value, whose times lie between the start of the
\* request and now, and whose layer was decided no later.
LEMMA UpsertCommitChanges ==
    ASSUME FeatureInv, NEW w \in Workers, UpsertCommit(w)
    PROVE  \E m, x :
              /\ upsert[w] # NoUpsert
              /\ m \in Nat /\ m \notin DOMAIN values
              /\ DOMAIN values' = DOMAIN values \union {m}
              /\ \A v \in DOMAIN values : v \in Nat /\ v < m /\ values'[v] = values[v]
              /\ values'[m] = x
              /\ values' \in Seq(Value)
              /\ x \in Value
              /\ x.feature = upsert[w].feature
              /\ x.object = upsert[w].object
              /\ x.created_at = upsert[w].started
              /\ x.created_at <= x.window_end
              /\ x.window_end <= now
              /\ x.expires_at = x.window_end + ttl[x.feature]
              /\ x.storage_layer = "cold" => x.expires_at <= now
<1> USE DEF FeatureInv
<1> DEFINE s == upsert[w]
<1>1. /\ s # NoUpsert
      /\ s.feature \in Features /\ s.object \in Objects
      /\ s.started \in Nat /\ s.origin \in Origins
      /\ now \in Nat
      /\ ttl[s.feature] \in Nat
      /\ values \in Seq(Value)
  BY UpsertTypes, ClockTypes DEF UpsertCommit, NoUpsert, FeatureTypeOK, Defined
<1>2. PICK stamp \in s.started..now :
         \E decided \in stamp..now : values' = Append(values, NewValue(s, stamp, decided))
  BY DEF UpsertCommit
<1>3. PICK decided \in stamp..now : values' = Append(values, NewValue(s, stamp, decided))
  BY <1>2
<1> DEFINE x == NewValue(s, stamp, decided)
<1>4. /\ stamp \in Nat /\ decided \in Nat
      /\ s.started <= stamp /\ stamp <= decided /\ decided <= now
  BY <1>1, <1>2, <1>3
<1>5. /\ x \in Value
      /\ x.feature = s.feature
      /\ x.object = s.object
      /\ x.created_at = s.started
      /\ x.window_end = stamp
      /\ x.expires_at = stamp + ttl[s.feature]
      /\ x.storage_layer = StorageLayer(stamp + ttl[s.feature], decided)
  BY <1>1, <1>4 DEF NewValue, Value, StorageLayer, Layers
<1>6. x.storage_layer = "cold" => x.expires_at <= now
  BY <1>1, <1>4, <1>5 DEF StorageLayer
<1> HIDE DEF x
<1>7. /\ Len(values) + 1 \in Nat /\ Len(values) + 1 \notin DOMAIN values
      /\ DOMAIN values' = DOMAIN values \union {Len(values) + 1}
      /\ \A v \in DOMAIN values : v \in Nat /\ v < Len(values) + 1 /\ values'[v] = values[v]
      /\ values'[Len(values) + 1] = x
      /\ values' \in Seq(Value)
  BY <1>1, <1>3, <1>5 DEF x
<1>8. QED
  BY <1>1, <1>4, <1>5, <1>6, <1>7

-----------------------------------------------------------------------------
\* One lemma per operation

LEMMA FeatureInitInv == FeatureInit => FeatureInv
<1> SUFFICES ASSUME FeatureInit PROVE FeatureInv
  OBVIOUS
<1>1. FeatureTypeOK
  BY FeatureAssumption DEF FeatureInit, FeatureTypeOK, Upsert
<1>2. DOMAIN values = {} /\ \A w \in Workers : upsert[w] = NoUpsert
  BY DEF FeatureInit
<1>3. QED
  BY <1>1, <1>2 DEF FeatureInv, Defined, Timed, Layered, Exclusive, Behind, Ordered

LEMMA DefineStep ==
    ASSUME FeatureInv, NEW f \in Features, NEW seconds \in Ttls, CreateFeatureDefinition(f, seconds)
    PROVE  FeatureInv'
<1> USE DEF FeatureInv
<1>1. /\ ttl' = [ttl EXCEPT ![f] = seconds]
      /\ ttl[f] = Null /\ seconds # Null
      /\ UNCHANGED <<contended, values, lineage, metrics, upsert, now>>
  BY FeatureAssumption DEF CreateFeatureDefinition
<1>2. FeatureTypeOK'
  BY <1>1 DEF FeatureTypeOK
<1>3. \A g \in Features : ttl[g] # Null => ttl'[g] = ttl[g]
  BY <1>1 DEF FeatureTypeOK
<1>4. Defined'
  BY <1>1, <1>3, UpsertTypes, ValueTypes DEF Defined
<1>5. QED
  BY <1>1, <1>2, <1>4 DEF Timed, Layered, Exclusive, Behind, Ordered

LEMMA UpsertLoadStep ==
    ASSUME FeatureInv, NEW w \in Workers, NEW f \in Features, NEW o \in Objects, NEW origin \in Origins,
           UpsertLoad(w, f, o, origin)
    PROVE  FeatureInv'
<1> USE DEF FeatureInv
<1> DEFINE x == [step |-> "upsert", feature |-> f, object |-> o, started |-> now, origin |-> origin]
<1>1. /\ upsert' = [upsert EXCEPT ![w] = x]
      /\ UNCHANGED <<contended, ttl, values, lineage, metrics, now>>
      /\ ttl[f] # Null
      /\ o \notin contended =>
            /\ \A v \in Workers \ {w} : upsert[v] # NoUpsert => upsert[v].object # o
            /\ \A v \in DOMAIN values : values[v].object = o => values[v].created_at < now
  BY DEF UpsertLoad, CanUpsert
<1>2. x \in Upsert /\ x.feature = f /\ x.object = o /\ x.started = now
  BY ClockTypes DEF Upsert
<1> HIDE DEF x
<1>3. /\ upsert \in [Workers -> Upsert]
      /\ upsert'[w] = x
      /\ \A v \in Workers \ {w} : upsert'[v] = upsert[v]
  BY <1>1 DEF FeatureTypeOK
<1>4. FeatureTypeOK'
  BY <1>1, <1>2 DEF FeatureTypeOK
<1>5. Defined'
  BY <1>1, <1>2, <1>3 DEF Defined
<1>6. Timed'
  BY <1>1, <1>2, <1>3, ClockTypes DEF Timed
<1>7. Layered' /\ Ordered'
  BY <1>1 DEF Layered, Ordered
<1>8. Exclusive'
  BY <1>1, <1>2, <1>3 DEF Exclusive
<1>9. Behind'
  BY <1>1, <1>2, <1>3 DEF Behind, Timed
<1>10. QED
  BY <1>4, <1>5, <1>6, <1>7, <1>8, <1>9

\* A session that ends takes nothing with it.
LEMMA AbortUpsertStep ==
    ASSUME FeatureInv, NEW w \in Workers, AbortUpsert(w)
    PROVE  FeatureInv'
<1> USE DEF FeatureInv
<1>1. /\ upsert' = [upsert EXCEPT ![w] = NoUpsert]
      /\ UNCHANGED <<contended, ttl, values, lineage, metrics, now>>
      /\ NoUpsert \in Upsert
  BY DEF AbortUpsert, Upsert
<1>2. /\ upsert'[w] = NoUpsert
      /\ \A v \in Workers \ {w} : upsert'[v] = upsert[v]
  BY <1>1 DEF FeatureTypeOK
<1>3. FeatureTypeOK'
  BY <1>1 DEF FeatureTypeOK
<1>4. QED
  BY <1>1, <1>2, <1>3 DEF Defined, Timed, Layered, Exclusive, Behind, Ordered

LEMMA UpsertCommitStep ==
    ASSUME FeatureInv, NEW w \in Workers, UpsertCommit(w)
    PROVE  FeatureInv'
<1> USE DEF FeatureInv
<1>1. PICK m, x :
         /\ upsert[w] # NoUpsert
         /\ m \in Nat /\ m \notin DOMAIN values
         /\ DOMAIN values' = DOMAIN values \union {m}
         /\ \A v \in DOMAIN values : v \in Nat /\ v < m /\ values'[v] = values[v]
         /\ values'[m] = x
         /\ values' \in Seq(Value)
         /\ x \in Value
         /\ x.feature = upsert[w].feature
         /\ x.object = upsert[w].object
         /\ x.created_at = upsert[w].started
         /\ x.created_at <= x.window_end
         /\ x.window_end <= now
         /\ x.expires_at = x.window_end + ttl[x.feature]
         /\ x.storage_layer = "cold" => x.expires_at <= now
  BY UpsertCommitChanges
<1>2. /\ upsert' = [upsert EXCEPT ![w] = NoUpsert]
      /\ UNCHANGED <<contended, ttl, metrics, now>>
      /\ lineage' \in Seq({0, 1})
      /\ NoUpsert \in Upsert
  BY DEF UpsertCommit, FeatureTypeOK, Upsert
<1>3. /\ upsert'[w] = NoUpsert
      /\ \A v \in Workers \ {w} : upsert'[v] = upsert[v]
  BY <1>2 DEF FeatureTypeOK
<1>4. FeatureTypeOK'
  BY <1>1, <1>2 DEF FeatureTypeOK
<1>5. Defined'
  BY <1>1, <1>2, <1>3 DEF Defined
<1>6. Timed'
  BY <1>1, <1>2, <1>3 DEF Timed
<1>7. Layered'
  BY <1>1, <1>2 DEF Layered
<1>8. Exclusive'
  BY <1>2, <1>3 DEF Exclusive
<1>9. Behind'
  <2> SUFFICES ASSUME NEW u \in Workers, upsert'[u] # NoUpsert, upsert'[u].object \notin contended,
                      NEW v \in DOMAIN values', values'[v].object = upsert'[u].object
               PROVE  /\ values'[v].created_at < upsert'[u].started
                      /\ values'[v].window_end <= upsert'[u].started
    BY <1>2 DEF Behind
  <2>1. u # w /\ upsert'[u] = upsert[u]
    BY <1>3
  <2>2. x.object # upsert[u].object
    BY <1>1, <2>1 DEF Exclusive
  <2>3. QED
    BY <1>1, <2>1, <2>2 DEF Behind
<1>10. Ordered'
  <2> SUFFICES ASSUME NEW u \in DOMAIN values', NEW v \in DOMAIN values', u < v,
                      values'[u].object = values'[v].object, values'[u].object \notin contended
               PROVE  /\ values'[u].created_at < values'[v].created_at
                      /\ values'[u].window_end <= values'[v].window_end
    BY <1>2 DEF Ordered
  <2>1. CASE v \in DOMAIN values
    <3>1. u \in DOMAIN values
      BY <1>1, <2>1
    <3>2. QED
      BY <1>1, <2>1, <3>1 DEF Ordered
  <2>2. CASE v = m
    <3>1. u \in DOMAIN values /\ values'[u] = values[u]
      BY <1>1, <2>2
    <3>2. /\ values[u].created_at < upsert[w].started
          /\ values[u].window_end <= upsert[w].started
      BY <1>1, <2>2, <3>1 DEF Behind
    <3>3. values[u].window_end \in Nat /\ x.created_at \in Nat /\ x.window_end \in Nat
      BY <1>1, <3>1, ValueTypes DEF Value
    <3>4. QED
      BY <1>1, <2>2, <3>1, <3>2, <3>3
  <2>3. QED
    BY <1>1, <2>1, <2>2
<1>11. QED
  BY <1>4, <1>5, <1>6, <1>7, <1>8, <1>9, <1>10

\* Time passes, or the metrics of a day are built.
LEMMA TimeStep ==
    ASSUME FeatureInv, UNCHANGED <<contended, ttl, values, lineage, upsert>>, metrics' \subseteq Days,
           now' \in 0..MaxClock, now <= now'
    PROVE  FeatureInv'
<1> USE DEF FeatureInv
<1>1. now \in Nat /\ now' \in Nat /\ MaxClock \in Nat
  BY ClockTypes
<1>2. FeatureTypeOK'
  BY DEF FeatureTypeOK
<1>3. Timed'
  <2>1. \A w \in Workers : upsert[w] # NoUpsert => upsert[w].started \in Nat
    BY UpsertTypes
  <2>2. QED
    BY <1>1, <2>1, ValueTypes DEF Timed
<1>4. Layered'
  BY <1>1, ValueTypes DEF Layered
<1>5. QED
  BY <1>2, <1>3, <1>4 DEF Defined, Exclusive, Behind, Ordered

LEMMA FeatureStep == FeatureInv /\ [FeatureNext]_featureVars => FeatureInv'
<1> SUFFICES ASSUME FeatureInv, [FeatureNext]_featureVars PROVE FeatureInv'
  OBVIOUS
<1>1. now \in 0..MaxClock /\ now \in Nat /\ MaxClock \in Nat /\ metrics \subseteq Days
  BY ClockTypes DEF FeatureInv, FeatureTypeOK
<1>2. ASSUME NEW day \in Days, BuildDailyAnalytics(day)
      PROVE  FeatureInv'
  BY <1>1, <1>2, TimeStep DEF BuildDailyAnalytics
<1>3. CASE Tick
  BY <1>1, <1>3, TimeStep DEF Tick
<1>4. CASE UNCHANGED featureVars
  BY <1>1, <1>4, TimeStep DEF featureVars
<1>5. QED
  BY <1>2, <1>3, <1>4, DefineStep, UpsertLoadStep, AbortUpsertStep, UpsertCommitStep DEF FeatureNext

-----------------------------------------------------------------------------
\* The theorems

\* The conjunction every step keeps: the times of values and of requests, and
\* the order of what is stored about an object that is not contended.
THEOREM FeatureInvariance == FeatureSpec => []FeatureInv
<1>1. QED
  BY FeatureInitInv, FeatureStep, PTL DEF FeatureSpec

\* The tables, the sessions and the clock keep their types.
THEOREM FeatureTypeCorrect == FeatureSpec => []FeatureTypeOK
<1>1. FeatureInv => FeatureTypeOK
  BY DEF FeatureInv
<1>2. QED
  BY <1>1, FeatureInvariance, PTL

\* A value that is counted in a span is averaged in it: its transaction started
\* before its window ended.
THEOREM CountedIsWindowedHolds == FeatureSpec => []CountedIsWindowed
<1>1. FeatureInv => CountedIsWindowed
  <2> SUFFICES ASSUME FeatureInv, NEW f \in Features, NEW o \in Objects, NEW minutes \in 0..MaxClock,
                      NEW v \in Counted(f, o, minutes)
               PROVE  v \in Windowed(f, o, minutes)
    BY DEF CountedIsWindowed
  <2>1. /\ v \in Rows(f, o) /\ v \in DOMAIN values
        /\ values[v].created_at >= now - minutes
    BY DEF Counted, Rows
  <2>2. /\ values[v].created_at \in Nat /\ values[v].window_end \in Nat
        /\ now \in Nat /\ minutes \in Nat
        /\ values[v].created_at <= values[v].window_end
    BY <2>1, ValueTypes, ClockTypes DEF FeatureInv, Timed
  <2>3. QED
    BY <2>1, <2>2 DEF Windowed
<1>2. QED
  BY <1>1, FeatureInvariance, PTL

\* The latest value of an object that is not contended expires last, so when its
\* layer does not match its age nothing stored about the object is fresh.
THEOREM MismatchMeansExpiredHolds == FeatureSpec => []MismatchMeansExpired
<1>1. FeatureInv => MismatchMeansExpired
  <2> SUFFICES ASSUME FeatureInv, NEW f \in Features, NEW o \in Objects \ contended,
                      NEW v \in Latest(f, o), ~Consistent(v), NEW u \in Rows(f, o)
               PROVE  values[u].expires_at <= now
    BY DEF MismatchMeansExpired
  <2>1. /\ u \in DOMAIN values /\ v \in DOMAIN values
        /\ values[u].feature = f /\ values[v].feature = f
        /\ values[u].object = o /\ values[v].object = o
        /\ values[u].created_at <= values[v].created_at
    BY DEF Latest, Rows
  <2>2. /\ u \in Nat /\ v \in Nat
        /\ values[u].created_at \in Nat /\ values[v].created_at \in Nat
        /\ values[u].window_end \in Nat /\ values[v].window_end \in Nat
        /\ values[u].expires_at \in Nat /\ values[v].expires_at \in Nat
        /\ values[v].storage_layer \in Layers
    BY <2>1, ValueTypes DEF FeatureInv
  <2>3. /\ now \in Nat /\ ttl[f] \in Nat
        /\ values[u].expires_at = values[u].window_end + ttl[f]
        /\ values[v].expires_at = values[v].window_end + ttl[f]
    BY <2>1, ClockTypes DEF FeatureInv, Defined
  <2>4. values[u].window_end <= values[v].window_end
    <3>1. CASE v < u
      BY <2>1, <2>2, <3>1 DEF FeatureInv, Ordered
    <3>2. CASE u < v
      BY <2>1, <3>2 DEF FeatureInv, Ordered
    <3>3. QED
      BY <2>2, <3>1, <3>2
  <2>5. values[v].expires_at <= now
    BY <2>1, <2>2, <2>3 DEF Consistent, StorageLayer, Layers, FeatureInv, Layered
  <2>6. QED
    BY <2>2, <2>3, <2>4, <2>5
<1>2. QED
  BY <1>1, FeatureInvariance, PTL
=============================================================================
