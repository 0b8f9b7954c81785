---------------------------- MODULE Notifications ----------------------------
(***************************************************************************)
(* Event notifications: users subscribe to events, other services and      *)
(* people trigger them, throttled per recipient, event and object for ten  *)
(* minutes, and the recipient marks them read.                             *)
(* As in UnitOfWork a request reads rows without locks and writes the      *)
(* columns it changed in one transaction at the end.                       *)
(*                                                                         *)
(* created_at is filled in by the database with now(), which in PostgreSQL *)
(* is the start of the transaction: the first query of the request.        *)
(***************************************************************************)
EXTENDS Integers, Sequences, FiniteSets, UnitOfWork

CONSTANTS
    Users,             \* accounts
    Superusers,        \* those with is_superuser
    Events,            \* event types
    Types,             \* object types
    Ids,               \* object ids
    Window,            \* THROTTLE_MINUTES, in clock ticks
    MaxClock,          \* bound: the clock stops here
    MaxTriggers,       \* bound: no more notifications are sent
    MaxMarked,         \* bound: of the notifications only the first ones are marked
    MaxSubscriptions   \* bound: no more subscriptions are stored

ASSUME NotificationAssumption ==
    /\ Superusers \subseteq Users
    /\ IsFiniteSet(Workers)
    /\ Window \in Nat
    /\ Null \notin Nat \union Types \union [is_read : BOOLEAN, read_at : Nat \union {Null}]

VARIABLES
    contended,     \* the users about whom several requests may be in flight, fixed
    subscription,  \* notification_subscriptions, by id
    notification,  \* notifications: the rows one trigger left, by time of commit
    session,       \* what a worker has loaded and is about to do
    now            \* utcnow()

vars == <<contended, subscription, notification, session, now>>

Channels == {"in_site", "in_process"}

\* What the throttle looks for.
Subject == [user : Users, event : Events, type : Types, id : Ids]

\* No handler takes is_active back, so it is not kept.
Subscription == [user : Users, event : Events, type : Types \union {Null}, channel : Channels]

\* The rows of one trigger differ in their channel and their receipt: there is
\* none for a channel nobody asked for.
Receipt == [is_read : BOOLEAN, read_at : Nat \union {Null}]
Notification ==
    [subject : Subject, created : Nat, delivered : Nat,
     receipt : [Channels -> Receipt \union {Null}]]

\* started is when the transaction of the request began, loaded the receipt
\* that was read.
Idle == [step |-> "idle"]
Session ==
    {Idle}
    \union [step : {"subscribe"}, user : Users, wanted : Subscription]
    \union [step : {"trigger", "passed"}, user : Users, subject : Subject, started : Nat]
    \union [step : {"notify"}, user : Users, subject : Subject, started : Nat,
            channels : SUBSET Channels]
    \union [step : {"mark"}, user : Users, trigger : Nat, channel : Channels,
            loaded : Receipt, is_read : BOOLEAN]

Init ==
    /\ contended \in SUBSET Users
    /\ subscription = <<>>
    /\ notification = <<>>
    /\ session = [w \in Workers |-> Idle]
    /\ now = 0

-----------------------------------------------------------------------------
\* Sessions of the database

\* The environment: only about a contended user are two requests in flight.
\* The code does not enforce it.
CanStart(w, u) ==
    /\ session[w] = Idle
    /\ \/ u \in contended
       \/ \A v \in Workers \ {w} : session[v] # Idle => session[v].user # u

Load(w, request) ==
    /\ CanStart(w, request.user)
    /\ session' = [session EXCEPT ![w] = request]
    /\ UNCHANGED <<contended, subscription, notification, now>>

Finish(w) == session' = [session EXCEPT ![w] = Idle]

-----------------------------------------------------------------------------
\* Subscriptions

\* A subscription that is found is left as it is.  Nothing in the schema keeps
\* a second row out.
SubscribeLoad(w, wanted) ==
    /\ \A i \in DOMAIN subscription : subscription[i] # wanted
    /\ Load(w, [step |-> "subscribe", user |-> wanted.user, wanted |-> wanted])

SubscribeCommit(w) ==
    /\ session[w].step = "subscribe"
    /\ Len(subscription) < MaxSubscriptions
    /\ subscription' = Append(subscription, session[w].wanted)
    /\ Finish(w)
    /\ UNCHANGED <<contended, notification, now>>

-----------------------------------------------------------------------------
\* Triggers

\* The first query of the request starts its transaction.
TriggerLoad(w, subject) ==
    Load(w, [step |-> "trigger", user |-> subject.user, subject |-> subject, started |-> now])

\* The channels the trigger n left a row for.
Sent(n) == {c \in Channels : notification[n].receipt[c] # Null}

\* Mutant: a notification the recipient has read does not count.
ThrottledUnread(subject) ==
    \E n \in DOMAIN notification :
        /\ notification[n].subject = subject
        /\ \E c \in Sent(n) : ~notification[n].receipt[c].is_read
        /\ notification[n].created >= now - Window

Throttled(subject) ==
    \E n \in DOMAIN notification :
        /\ notification[n].subject = subject
        /\ notification[n].created >= now - Window

\* A throttled request is answered and leaves nothing.
CheckThrottle(w) ==
    LET s == session[w]
    IN  /\ s.step = "trigger"
        /\ IF Throttled(s.subject) THEN Finish(w)
           ELSE session' = [session EXCEPT ![w].step = "passed"]
        /\ UNCHANGED <<contended, subscription, notification, now>>

\* A subscription without an object type is for objects of every type.
Subscribed(subject) ==
    {i \in DOMAIN subscription :
        /\ subscription[i].user = subject.user
        /\ subscription[i].event = subject.event
        /\ subscription[i].type \in {Null, subject.type}}

LoadSubscriptions(w) ==
    LET s == session[w]
    IN  /\ s.step = "passed"
        /\ session' = [session EXCEPT ![w] =
              [step |-> "notify", user |-> s.user, subject |-> s.subject, started |-> s.started,
               channels |-> {"in_site"} \union
                            {subscription[i].channel : i \in Subscribed(s.subject)}]]
        /\ UNCHANGED <<contended, subscription, notification, now>>

Unread(channels) ==
    [c \in Channels |-> IF c \in channels THEN [is_read |-> FALSE, read_at |-> Null] ELSE Null]

NotifyCommit(w) ==
    LET s == session[w]
    IN  /\ s.step = "notify"
        /\ Len(notification) < MaxTriggers
        /\ notification' = Append(notification,
              [subject |-> s.subject, created |-> s.started, delivered |-> now,
               receipt |-> Unread(s.channels)])
        /\ Finish(w)
        /\ UNCHANGED <<contended, subscription, now>>

-----------------------------------------------------------------------------
\* Read receipts

MarkLoad(w, u, n, c, is_read) ==
    /\ n \in DOMAIN notification
    /\ c \in Sent(n)
    /\ u = notification[n].subject.user \/ u \in Superusers
    /\ Load(w, [step |-> "mark", user |-> notification[n].subject.user, trigger |-> n,
                channel |-> c, loaded |-> notification[n].receipt[c], is_read |-> is_read])

\* Mutant: marking a notification unread keeps the time it was read.
MarkCommitKeepsTime(w) ==
    LET s == session[w]
    IN  /\ s.step = "mark"
        /\ notification' = [notification EXCEPT ![s.trigger].receipt[s.channel] =
              [is_read |-> Written(s.loaded.is_read, s.is_read, @.is_read),
               read_at |-> IF s.is_read THEN now ELSE @.read_at]]
        /\ Finish(w)
        /\ UNCHANGED <<contended, subscription, now>>

\* A fresh timestamp differs from any that was loaded.
MarkCommit(w) ==
    LET s == session[w]
    IN  /\ s.step = "mark"
        /\ notification' = [notification EXCEPT ![s.trigger].receipt[s.channel] =
              [is_read |-> Written(s.loaded.is_read, s.is_read, @.is_read),
               read_at |-> IF s.is_read THEN now ELSE Written(s.loaded.read_at, Null, @.read_at)]]
        /\ Finish(w)
        /\ UNCHANGED <<contended, subscription, now>>

-----------------------------------------------------------------------------

\* The worker dies or its transaction fails before the commit.
Abort(w) ==
    /\ session[w] # Idle
    /\ Finish(w)
    /\ UNCHANGED <<contended, subscription, notification, now>>

Tick ==
    /\ now < MaxClock
    /\ now' = now + 1
    /\ UNCHANGED <<contended, subscription, notification, session>>

Next ==
    \/ \E w \in Workers :
          \/ \E wanted \in Subscription : SubscribeLoad(w, wanted)
          \/ \E subject \in Subject : TriggerLoad(w, subject)
          \/ \E u \in Users, n \in 1..MaxMarked, c \in Channels, is_read \in BOOLEAN :
                MarkLoad(w, u, n, c, is_read)
          \/ SubscribeCommit(w)
          \/ CheckThrottle(w)
          \/ LoadSubscriptions(w)
          \/ NotifyCommit(w)
          \/ MarkCommit(w)
          \/ Abort(w)
    \/ Tick

Spec == Init /\ [][Next]_vars

-----------------------------------------------------------------------------
\* Properties

\* The type of the tables and of the sessions.
TypeOK ==
    /\ contended \subseteq Users
    /\ subscription \in Seq(Subscription)
    /\ notification \in Seq(Notification)
    /\ session \in [Workers -> Session]
    /\ now \in Nat

\* The triggers delivered about the subject of n from n on, before the window
\* that n opened has passed.
Burst(n) ==
    {m \in DOMAIN notification :
        /\ n <= m
        /\ notification[m].subject = notification[n].subject
        /\ notification[m].delivered <= notification[n].created + Window}

\* For a recipient whose triggers do not overlap the throttle lets one through
\* per window.  When they overlap it does not (OncePerWindow in
\* NotificationClaims); all that remains then is that the window a
\* notification opened is not reopened by repeating the trigger: what it holds
\* passed the throttle together, one per worker thread (_is_throttled).
BurstBounded ==
    \A n \in DOMAIN notification :
        IF notification[n].subject.user \in contended
        THEN Cardinality(Burst(n)) <= Cardinality(Workers)
        ELSE Burst(n) \subseteq {n}

\* A notification says it was read exactly when it says at what time, which is
\* not before it was delivered, as long as requests about its recipient do not
\* overlap.
ReceiptMatches ==
    \A n \in DOMAIN notification :
        notification[n].subject.user \notin contended =>
            \A c \in Sent(n) :
                LET r == notification[n].receipt[c]
                IN  /\ r.is_read <=> r.read_at # Null
                    /\ r.is_read => notification[n].delivered <= r.read_at
=============================================================================
