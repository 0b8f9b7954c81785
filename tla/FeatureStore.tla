---------------------------- MODULE FeatureStore ----------------------------
(***************************************************************************)
(* The feature store of the operations service: definitions with a time to *)
(* live, the values jobs write for an object, where they came from, the    *)
(* questions asked of them, and the metrics built once a day.              *)
(*                                                                         *)
(* A value has two times: created_at is filled in by the database with     *)
(* now(), the start of the transaction, and window_end by the service with *)
(* utcnow(), some time later.  A value is never updated: each upsert       *)
(* inserts a row, and its layer is decided then and not again.             *)
(***************************************************************************)
EXTENDS Integers, Sequences, FiniteSets, UnitOfWork

CONSTANTS
    Features,    \* feature codes
    Ttls,        \* ttl_seconds of the definitions, in clock ticks
    Objects,     \* object type and id
    Origins,     \* bound: which of lineage_source and lineage_run_id are given
    Days,        \* days of the metrics
    MaxClock,    \* bound: the clock stops here
    MaxValues    \* bound: no more values are written

ASSUME FeatureAssumption ==
    /\ Ttls \subseteq Nat \ {0}
    /\ Origins \subseteq [source : BOOLEAN, run : BOOLEAN]
    /\ Null \notin Nat
    /\ MaxClock \in Nat

VARIABLES
    contended,   \* the objects about which several upserts may be in flight, fixed
    ttl,         \* feature_definitions: the time to live by code
    values,      \* feature_values, by id
    lineage,     \* feature_lineage: the rows by value id
    metrics,     \* daily_operation_metrics: the days built
    upsert,      \* the upsert a worker is about to commit
    now          \* utcnow()

featureVars == <<contended, ttl, values, lineage, metrics, upsert, now>>

Layers == {"hot", "cold"}

Value ==
    [feature : Features, object : Objects, created_at : Nat, window_end : Nat,
     expires_at : Nat, storage_layer : Layers, origin : Origins]

NoUpsert == [step |-> "idle"]
Upsert ==
    {NoUpsert}
    \union [step : {"upsert"}, feature : Features, object : Objects, started : Nat,
            origin : Origins]

FeatureInit ==
    /\ contended \in SUBSET Objects
    /\ ttl = [f \in Features |-> Null]
    /\ values = <<>>
    /\ lineage = <<>>
    /\ metrics = {}
    /\ upsert = [w \in Workers |-> NoUpsert]
    /\ now = 0

-----------------------------------------------------------------------------
\* Definitions and values

\* A code that exists is refused, by the lookup or by the unique index.
CreateFeatureDefinition(f, seconds) ==
    /\ ttl[f] = Null
    /\ ttl' = [ttl EXCEPT ![f] = seconds]
    /\ UNCHANGED <<contended, values, lineage, metrics, upsert, now>>

\* The environment: only for a contended object do upserts overlap, or start in
\* the instant an earlier one did.  The code does not enforce it.
CanUpsert(w, o) ==
    /\ upsert[w] = NoUpsert
    /\ \/ o \in contended
       \/ /\ \A v \in Workers \ {w} : upsert[v] # NoUpsert => upsert[v].object # o
          /\ \A v \in DOMAIN values : values[v].object = o => values[v].created_at < now

\* The first query of the request starts its transaction.
UpsertLoad(w, f, o, origin) ==
    /\ ttl[f] # Null
    /\ CanUpsert(w, o)
    /\ upsert' = [upsert EXCEPT ![w] =
          [step |-> "upsert", feature |-> f, object |-> o, started |-> now,
           origin |-> origin]]
    /\ UNCHANGED <<contended, ttl, values, lineage, metrics, now>>

\* Lineage is stored when the source and the run are both known.
Traced(origin) == origin.source /\ origin.run

StorageLayer(expires_at, at) == IF expires_at > at THEN "hot" ELSE "cold"

\* Mutant: the window ends where it should begin.
NewValueWindowStart(s, stamp, decided) ==
    [feature |-> s.feature, object |-> s.object, created_at |-> s.started,
     window_end |-> stamp - ttl[s.feature], expires_at |-> stamp + ttl[s.feature],
     storage_layer |-> StorageLayer(stamp + ttl[s.feature], decided),
     origin |-> s.origin]

\* The row a request writes that took the time of its window at stamp and
\* decided on the layer at decided.
NewValue(s, stamp, decided) ==
    [feature |-> s.feature, object |-> s.object, created_at |-> s.started, window_end |-> stamp,
     expires_at |-> stamp + ttl[s.feature],
     storage_layer |-> StorageLayer(stamp + ttl[s.feature], decided),
     origin |-> s.origin]

\* The value and its lineage.
UpsertCommit(w) ==
    LET s == upsert[w]
    IN  /\ s.step = "upsert"
        /\ Len(values) < MaxValues
        /\ \E stamp \in s.started..now : \E decided \in stamp..now :
              values' = Append(values, NewValue(s, stamp, decided))
        /\ lineage' = Append(lineage, IF Traced(s.origin) THEN 1 ELSE 0)
        /\ upsert' = [upsert EXCEPT ![w] = NoUpsert]
        /\ UNCHANGED <<contended, ttl, metrics, now>>

\* The worker dies or its transaction fails before the commit.
AbortUpsert(w) ==
    /\ upsert[w] # NoUpsert
    /\ upsert' = [upsert EXCEPT ![w] = NoUpsert]
    /\ UNCHANGED <<contended, ttl, values, lineage, metrics, now>>

-----------------------------------------------------------------------------
\* Metrics

\* The unique day refuses a second build, which nobody catches.
BuildDailyAnalytics(day) ==
    /\ day \notin metrics
    /\ metrics' = metrics \union {day}
    /\ UNCHANGED <<contended, ttl, values, lineage, upsert, now>>

Tick ==
    /\ now < MaxClock
    /\ now' = now + 1
    /\ UNCHANGED <<contended, ttl, values, lineage, metrics, upsert>>

FeatureNext ==
    \/ \E f \in Features, seconds \in Ttls : CreateFeatureDefinition(f, seconds)
    \/ \E w \in Workers :
          \/ \E f \in Features, o \in Objects, origin \in Origins :
                UpsertLoad(w, f, o, origin)
          \/ UpsertCommit(w)
          \/ AbortUpsert(w)
    \/ \E day \in Days : BuildDailyAnalytics(day)
    \/ Tick

FeatureSpec == FeatureInit /\ [][FeatureNext]_featureVars

-----------------------------------------------------------------------------
\* The questions

Rows(f, o) == {v \in DOMAIN values : values[v].feature = f /\ values[v].object = o}

\* The rows sliding_window_average takes the numbers of.
Windowed(f, o, minutes) == {v \in Rows(f, o) : values[v].window_end >= now - minutes}

\* The rows frequency_per_minute counts.
Counted(f, o, minutes) == {v \in Rows(f, o) : values[v].created_at >= now - minutes}

\* Mutant: sorted the other way round.
Oldest(f, o) ==
    {v \in Rows(f, o) : \A u \in Rows(f, o) : values[v].created_at <= values[u].created_at}

\* What sorted()[0] may come to: rows of one instant keep the order the database
\* gave them in.
Latest(f, o) ==
    {v \in Rows(f, o) : \A u \in Rows(f, o) : values[u].created_at <= values[v].created_at}

\* is_consistent of verify_feature_consistency, if v is taken for the latest.
Consistent(v) == values[v].storage_layer = StorageLayer(values[v].expires_at, now)

-----------------------------------------------------------------------------
\* Properties

\* The type of the tables, the sessions and the clock.
FeatureTypeOK ==
    /\ contended \subseteq Objects
    /\ ttl \in [Features -> Ttls \union {Null}]
    /\ values \in Seq(Value)
    /\ lineage \in Seq({0, 1})
    /\ metrics \subseteq Days
    /\ upsert \in [Workers -> Upsert]
    /\ now \in 0..MaxClock

\* The check picks a row by one time and judges it by another.  As long as
\* upserts of an object do not overlap, a mismatch means that nothing stored
\* about the object is fresh, however long a request hung between the two
\* (verify_feature_consistency).
MismatchMeansExpired ==
    \A f \in Features, o \in Objects \ contended : \A v \in Latest(f, o) :
        ~Consistent(v) => \A u \in Rows(f, o) : values[u].expires_at <= now

\* What is counted in a span is averaged in that span, however long a request
\* hung between the two times it is stamped with (frequency_per_minute,
\* sliding_window_average).
CountedIsWindowed ==
    \A f \in Features, o \in Objects : \A minutes \in 0..MaxClock :
        Counted(f, o, minutes) \subseteq Windowed(f, o, minutes)
=============================================================================
