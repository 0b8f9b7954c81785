------------------------- MODULE NotificationProofs -------------------------
(***************************************************************************)
(* What holds of notifications for any number of users, events, objects    *)
(* and workers, and for any window.                                        *)
(*                                                                         *)
(* The argument for the throttle: while the window of a notification is    *)
(* open it throttles every check, so only requests that passed theirs      *)
(* before can still deliver.  A worker holds one of these, and gives it up *)
(* when it delivers: what was delivered in the window and what may be add  *)
(* up to the number of workers at most.                                    *)
(***************************************************************************)
EXTENDS Notifications, FiniteSetTheorems, TLAPS

\* A user who is not contended has one request in flight.
Exclusive ==
    \A v, w \in Workers :
        /\ session[v] # Idle
        /\ session[w] # Idle
        /\ session[v].user = session[w].user
        /\ session[v].user \notin contended
        => v = w

\* A session about to mark a row has found one, and knows it if it is alone.
Marking ==
    \A w \in Workers : session[w].step = "mark" =>
        /\ session[w].trigger \in DOMAIN notification
        /\ session[w].user = notification[session[w].trigger].subject.user
        /\ session[w].channel \in Sent(session[w].trigger)
        /\ session[w].user \notin contended =>
              session[w].loaded = notification[session[w].trigger].receipt[session[w].channel]

\* A session that passed the throttle alone is past every window.
Passed ==
    \A w \in Workers : session[w].step \in {"trigger", "passed", "notify"} =>
        LET s == session[w]
        IN  /\ s.subject.user = s.user
            /\ s.step # "trigger" /\ s.user \notin contended =>
                  \A n \in DOMAIN notification :
                      notification[n].subject = s.subject => notification[n].created + Window < now

Delivered == \A n \in DOMAIN notification : notification[n].delivered <= now

Open(n) == now <= notification[n].created + Window

\* The sessions that may still deliver about the subject of n.
Pending(n) ==
    {w \in Workers :
        /\ session[w].step \in {"passed", "notify"}
        /\ session[w].subject = notification[n].subject}

\* What was delivered in the window of n and what may be.
Crowd ==
    \A n \in DOMAIN notification :
        /\ Cardinality(Burst(n)) <= Cardinality(Workers)
        /\ Open(n) => Cardinality(Burst(n)) + Cardinality(Pending(n)) <= Cardinality(Workers)

Alone ==
    \A n \in DOMAIN notification :
        notification[n].subject.user \notin contended => Burst(n) \subseteq {n}

Inv ==
    /\ TypeOK
    /\ Exclusive
    /\ Marking
    /\ Passed
    /\ Delivered
    /\ Crowd
    /\ Alone
    /\ ReceiptMatches

-----------------------------------------------------------------------------
\* What the types say

LEMMA RowTypes ==
    ASSUME TypeOK, NEW n \in DOMAIN notification
    PROVE  /\ n \in Nat
           /\ notification[n] \in Notification
           /\ notification[n].created \in Nat
           /\ notification[n].delivered \in Nat
           /\ notification[n].subject \in Subject
           /\ notification[n].subject.user \in Users
           /\ \A c \in Channels : notification[n].receipt[c] \in Receipt \union {Null}
<1>1. n \in Nat /\ notification[n] \in Notification
  BY DEF TypeOK
<1>2. QED
  BY <1>1 DEF Notification, Subject

LEMMA SessionTypes ==
    ASSUME TypeOK, NEW w \in Workers
    PROVE  /\ session[w].step \in {"idle", "subscribe", "trigger", "passed", "notify", "mark"}
           /\ session[w] = Idle <=> session[w].step = "idle"
           /\ session[w].step = "subscribe" =>
                 session[w] \in [step : {"subscribe"}, user : Users, wanted : Subscription]
           /\ session[w].step \in {"trigger", "passed"} =>
                 session[w] \in [step : {"trigger", "passed"}, user : Users, subject : Subject,
                                 started : Nat]
           /\ session[w].step = "notify" =>
                 session[w] \in [step : {"notify"}, user : Users, subject : Subject, started : Nat,
                                 channels : SUBSET Channels]
           /\ session[w].step = "mark" =>
                 session[w] \in [step : {"mark"}, user : Users, trigger : Nat, channel : Channels,
                                 loaded : Receipt, is_read : BOOLEAN]
BY DEF TypeOK, Session, Idle

\* The receipt a mark leaves, when it finds the one called current.
NewReceipt(s, current) ==
    [is_read |-> Written(s.loaded.is_read, s.is_read, current.is_read),
     read_at |-> IF s.is_read THEN now ELSE Written(s.loaded.read_at, Null, current.read_at)]

LEMMA ReceiptTypes ==
    ASSUME TypeOK, NEW w \in Workers, session[w].step = "mark", NEW current \in Receipt
    PROVE  NewReceipt(session[w], current) \in Receipt
<1> DEFINE s == session[w]
<1>1. s.loaded \in Receipt /\ s.is_read \in BOOLEAN
  BY SessionTypes
<1>2. /\ s.loaded.is_read \in BOOLEAN /\ current.is_read \in BOOLEAN
      /\ s.loaded.read_at \in Nat \union {Null} /\ current.read_at \in Nat \union {Null}
  BY <1>1 DEF Receipt
<1>3. Written(s.loaded.is_read, s.is_read, current.is_read) \in BOOLEAN
  BY <1>1, <1>2 DEF Written
<1>4. (IF s.is_read THEN now ELSE Written(s.loaded.read_at, Null, current.read_at)) \in Nat \union {Null}
  BY <1>2 DEF Written, TypeOK
<1>5. QED
  BY <1>3, <1>4 DEF NewReceipt, Receipt

\* A mark changes one receipt that exists, and nothing else of any row.
LEMMA MarkChanges ==
    ASSUME TypeOK, Marking, NEW w \in Workers, MarkCommit(w)
    PROVE  LET s == session[w]
               old == notification[s.trigger].receipt[s.channel]
           IN  /\ s.step = "mark"
               /\ s.trigger \in DOMAIN notification
               /\ s.channel \in Channels
               /\ old \in Receipt
               /\ DOMAIN notification' = DOMAIN notification
               /\ notification' \in Seq(Notification)
               /\ \A n \in DOMAIN notification :
                     /\ notification'[n].subject = notification[n].subject
                     /\ notification'[n].created = notification[n].created
                     /\ notification'[n].delivered = notification[n].delivered
                     /\ \A c \in Channels :
                           notification'[n].receipt[c] =
                               IF n = s.trigger /\ c = s.channel THEN NewReceipt(s, old)
                               ELSE notification[n].receipt[c]
<1> DEFINE s == session[w]
           t == s.trigger
           old == notification[t].receipt[s.channel]
           row == [notification[t] EXCEPT !.receipt = [@ EXCEPT ![s.channel] = NewReceipt(s, old)]]
<1>1. /\ s.step = "mark"
      /\ t \in DOMAIN notification
      /\ s.channel \in Sent(t)
  BY DEF MarkCommit, Marking
<1>2. s.channel \in Channels /\ old \in Receipt
  BY <1>1, RowTypes DEF Sent
<1>3. notification' = [notification EXCEPT ![t] = row]
  BY <1>1 DEF MarkCommit, NewReceipt
<1>4. NewReceipt(s, old) \in Receipt
  BY <1>1, <1>2, ReceiptTypes
<1>5. /\ notification[t] \in Notification
      /\ notification \in Seq(Notification)
  BY <1>1 DEF TypeOK
<1>6. /\ row \in Notification
      /\ row.subject = notification[t].subject
      /\ row.created = notification[t].created
      /\ row.delivered = notification[t].delivered
      /\ row.receipt = [notification[t].receipt EXCEPT ![s.channel] = NewReceipt(s, old)]
  BY <1>2, <1>4, <1>5 DEF Notification
<1>7. \A c \in Channels : row.receipt[c] =
          IF c = s.channel THEN NewReceipt(s, old) ELSE notification[t].receipt[c]
  BY <1>2, <1>5, <1>6 DEF Notification
<1> HIDE DEF row
<1>8. /\ DOMAIN notification' = DOMAIN notification
      /\ notification' \in Seq(Notification)
      /\ \A n \in DOMAIN notification :
            notification'[n] = IF n = t THEN row ELSE notification[n]
  BY <1>1, <1>3, <1>5, <1>6
<1>9. QED
  BY <1>1, <1>2, <1>6, <1>7, <1>8

\* A trigger appends one row.
LEMMA NotifyChanges ==
    ASSUME TypeOK, NEW w \in Workers, NotifyCommit(w)
    PROVE  LET s == session[w]
               m == Len(notification) + 1
           IN  /\ s.step = "notify"
               /\ m \in Nat /\ m \notin DOMAIN notification
               /\ DOMAIN notification' = DOMAIN notification \union {m}
               /\ \A n \in DOMAIN notification : n < m
               /\ \A n \in DOMAIN notification : notification'[n] = notification[n]
               /\ notification' \in Seq(Notification)
               /\ notification'[m].subject = s.subject
               /\ notification'[m].created = s.started
               /\ notification'[m].delivered = now
               /\ notification'[m].receipt = Unread(s.channels)
<1> DEFINE s == session[w]
           row == [subject |-> s.subject, created |-> s.started, delivered |-> now,
                   receipt |-> Unread(s.channels)]
<1>1. /\ s.step = "notify"
      /\ notification' = Append(notification, row)
      /\ notification \in Seq(Notification)
  BY DEF NotifyCommit, TypeOK
<1>2. s.subject \in Subject /\ s.started \in Nat /\ now \in Nat
  BY <1>1, SessionTypes DEF TypeOK
<1>3. Unread(s.channels) \in [Channels -> Receipt \union {Null}]
  BY DEF Unread, Receipt
<1>4. row \in Notification
  BY <1>2, <1>3 DEF Notification
<1>5. QED
  BY <1>1, <1>4

-----------------------------------------------------------------------------
\* Types

LEMMA TypeStep ==
    ASSUME Inv, [Next]_vars
    PROVE  TypeOK'
<1> USE DEF Inv
<1>1. ASSUME NEW w \in Workers, NEW x \in Session, session' = [session EXCEPT ![w] = x],
             UNCHANGED <<contended, notification, now>>, subscription' \in Seq(Subscription)
      PROVE  TypeOK'
  BY <1>1 DEF TypeOK
<1>2. Idle \in Session
  BY DEF Session
<1>3. ASSUME NEW w \in Workers, Finish(w), UNCHANGED <<contended, now>>,
             subscription' \in Seq(Subscription), notification' \in Seq(Notification)
      PROVE  TypeOK'
  BY <1>2, <1>3 DEF Finish, TypeOK
<1>4. subscription \in Seq(Subscription) /\ notification \in Seq(Notification)
  BY DEF TypeOK
<1>5. ASSUME NEW w \in Workers, NEW wanted \in Subscription, SubscribeLoad(w, wanted)
      PROVE  TypeOK'
  <2>1. [step |-> "subscribe", user |-> wanted.user, wanted |-> wanted] \in Session
    BY DEF Subscription, Session
  <2>2. QED
    BY <1>1, <1>4, <1>5, <2>1 DEF SubscribeLoad, Load
<1>6. ASSUME NEW w \in Workers, NEW subject \in Subject, TriggerLoad(w, subject)
      PROVE  TypeOK'
  <2>1. [step |-> "trigger", user |-> subject.user, subject |-> subject, started |-> now] \in Session
    BY DEF Subject, Session, TypeOK
  <2>2. QED
    BY <1>1, <1>4, <1>6, <2>1 DEF TriggerLoad, Load
<1>7. ASSUME NEW w \in Workers, NEW u \in Users, NEW n \in 1..MaxMarked, NEW c \in Channels,
             NEW is_read \in BOOLEAN, MarkLoad(w, u, n, c, is_read)
      PROVE  TypeOK'
  <2>1. /\ n \in DOMAIN notification
        /\ notification[n].receipt[c] # Null
    BY <1>7 DEF MarkLoad, Sent
  <2>2. [step |-> "mark", user |-> notification[n].subject.user, trigger |-> n, channel |-> c,
         loaded |-> notification[n].receipt[c], is_read |-> is_read] \in Session
    BY <2>1, RowTypes DEF Session
  <2>3. QED
    BY <1>1, <1>4, <1>7, <2>2 DEF MarkLoad, Load
<1>8. ASSUME NEW w \in Workers, SubscribeCommit(w)
      PROVE  TypeOK'
  <2>1. session[w].wanted \in Subscription
    BY <1>8, SessionTypes DEF SubscribeCommit
  <2>2. QED
    BY <1>3, <1>4, <1>8, <2>1 DEF SubscribeCommit
<1>9. ASSUME NEW w \in Workers, CheckThrottle(w)
      PROVE  TypeOK'
  <2>1. CASE Finish(w)
    BY <1>3, <1>4, <1>9, <2>1 DEF CheckThrottle
  <2>2. CASE session' = [session EXCEPT ![w].step = "passed"]
    <3>1. session[w] \in [step : {"trigger", "passed"}, user : Users, subject : Subject, started : Nat]
      BY <1>9, SessionTypes DEF CheckThrottle
    <3>2. [session[w] EXCEPT !.step = "passed"] \in Session
      BY <3>1 DEF Session
    <3>3. QED
      BY <1>1, <1>4, <1>9, <2>2, <3>2 DEF CheckThrottle
  <2>3. QED
    BY <1>9, <2>1, <2>2 DEF CheckThrottle
<1>10. ASSUME NEW w \in Workers, LoadSubscriptions(w)
       PROVE  TypeOK'
  <2> DEFINE s == session[w]
             channels == {"in_site"} \union {subscription[i].channel : i \in Subscribed(s.subject)}
  <2>1. s \in [step : {"trigger", "passed"}, user : Users, subject : Subject, started : Nat]
    BY <1>10, SessionTypes DEF LoadSubscriptions
  <2>2. channels \in SUBSET Channels
    <3>1. \A i \in DOMAIN subscription : subscription[i].channel \in Channels
      <4>1. \A i \in DOMAIN subscription : subscription[i] \in Subscription
        BY <1>4
      <4>2. QED
        BY <4>1 DEF Subscription
    <3>2. QED
      BY <3>1 DEF Subscribed, Channels
  <2>3. [step |-> "notify", user |-> s.user, subject |-> s.subject, started |-> s.started,
         channels |-> channels] \in Session
    BY <2>1, <2>2 DEF Session
  <2>4. QED
    BY <1>1, <1>4, <1>10, <2>3 DEF LoadSubscriptions
<1>11. ASSUME NEW w \in Workers, NotifyCommit(w)
       PROVE  TypeOK'
  BY <1>3, <1>4, <1>11, NotifyChanges DEF NotifyCommit
<1>12. ASSUME NEW w \in Workers, MarkCommit(w)
       PROVE  TypeOK'
  BY <1>3, <1>4, <1>12, MarkChanges DEF MarkCommit
<1>13. ASSUME NEW w \in Workers, Abort(w)
       PROVE  TypeOK'
  BY <1>3, <1>4, <1>13 DEF Abort
<1>14. CASE Tick \/ UNCHANGED vars
  BY <1>14 DEF Tick, vars, TypeOK
<1>15. QED
  BY <1>5, <1>6, <1>7, <1>8, <1>9, <1>10, <1>11, <1>12, <1>13, <1>14 DEF Next

-----------------------------------------------------------------------------
\* One request at a time

LEMMA ExclusiveStep ==
    ASSUME Inv, [Next]_vars
    PROVE  Exclusive'
<1> USE DEF Inv
<1>1. session \in [Workers -> Session]
  BY DEF TypeOK
<1>2. ASSUME NEW w \in Workers, NEW request, Load(w, request)
      PROVE  Exclusive'
  <2>1. /\ session' = [session EXCEPT ![w] = request]
        /\ contended' = contended
        /\ \/ request.user \in contended
           \/ \A v \in Workers \ {w} : session[v] # Idle => session[v].user # request.user
    BY <1>2 DEF Load, CanStart
  <2>2. QED
    BY <1>1, <2>1 DEF Exclusive
<1>3. ASSUME NEW w \in Workers, Finish(w), contended' = contended
      PROVE  Exclusive'
  BY <1>1, <1>3 DEF Finish, Exclusive
<1>4. ASSUME NEW w \in Workers, NEW x, session[w] # Idle, session' = [session EXCEPT ![w] = x],
             x.user = session[w].user, contended' = contended
      PROVE  Exclusive'
  BY <1>1, <1>4 DEF Exclusive
<1>5. ASSUME NEW w \in Workers, CheckThrottle(w) \/ LoadSubscriptions(w)
      PROVE  Exclusive'
  <2>1. /\ session[w] # Idle
        /\ session[w] \in [step : {"trigger", "passed"}, user : Users, subject : Subject, started : Nat]
    BY <1>5, SessionTypes DEF CheckThrottle, LoadSubscriptions
  <2>2. [session[w] EXCEPT !.step = "passed"].user = session[w].user
    BY <2>1
  <2>3. CASE CheckThrottle(w)
    BY <1>3, <1>4, <2>1, <2>2, <2>3 DEF CheckThrottle
  <2>4. CASE LoadSubscriptions(w)
    BY <1>4, <2>1, <2>4 DEF LoadSubscriptions
  <2>5. QED
    BY <1>5, <2>3, <2>4
<1>6. ASSUME NEW w \in Workers,
             SubscribeCommit(w) \/ NotifyCommit(w) \/ MarkCommit(w) \/ Abort(w)
      PROVE  Exclusive'
  BY <1>3, <1>6 DEF SubscribeCommit, NotifyCommit, MarkCommit, Abort
<1>7. CASE Tick \/ UNCHANGED vars
  BY <1>7 DEF Tick, vars, Exclusive
<1>8. QED
  BY <1>2, <1>5, <1>6, <1>7 DEF Next, SubscribeLoad, TriggerLoad, MarkLoad

-----------------------------------------------------------------------------
\* What changes

\* A step moves one session at most; what is stored changes with a session that
\* finishes.  The cases the remaining conjuncts are proved by.
LEMMA Steps ==
    ASSUME Inv, [Next]_vars
    PROVE  \/ \E w \in Workers, wanted \in Subscription : SubscribeLoad(w, wanted)
           \/ \E w \in Workers, subject \in Subject : TriggerLoad(w, subject)
           \/ \E w \in Workers, u \in Users, n \in 1..MaxMarked, c \in Channels, is_read \in BOOLEAN :
                 MarkLoad(w, u, n, c, is_read)
           \/ \E w \in Workers : CheckThrottle(w) /\ ~Finish(w)
           \/ \E w \in Workers : LoadSubscriptions(w)
           \/ \E w \in Workers : NotifyCommit(w)
           \/ \E w \in Workers : MarkCommit(w)
           \/ \E w \in Workers : Finish(w) /\ UNCHANGED <<contended, notification, now>>
           \/ UNCHANGED <<contended, notification, session>> /\ now <= now' /\ now' \in Nat
<1>1. CASE Tick \/ UNCHANGED vars
  BY <1>1 DEF Tick, vars, Inv, TypeOK
<1>2. ASSUME NEW w \in Workers, SubscribeCommit(w) \/ Abort(w) \/ (CheckThrottle(w) /\ Finish(w))
      PROVE  Finish(w) /\ UNCHANGED <<contended, notification, now>>
  BY <1>2 DEF SubscribeCommit, Abort, CheckThrottle
<1>3. QED
  BY <1>1, <1>2 DEF Next

-----------------------------------------------------------------------------
\* Read receipts

\* The load of a mark is what is stored, and stays so while it is alone.
LEMMA MarkingStep ==
    ASSUME Inv, [Next]_vars
    PROVE  Marking'
<1> USE DEF Inv
<1>1. /\ session \in [Workers -> Session]
      /\ \A w \in Workers : session[w].step = "mark" => session[w] # Idle
  BY DEF TypeOK, Idle
\* Nothing stored changes, and only w moves.
<1>2. ASSUME NEW w \in Workers, NEW x, session' = [session EXCEPT ![w] = x],
             x.step # "mark", UNCHANGED <<contended, notification>>
      PROVE  Marking'
  BY <1>1, <1>2 DEF Marking, Sent
<1>3. Idle.step # "mark"
  BY DEF Idle
<1>4. ASSUME NEW w \in Workers, NEW u \in Users, NEW n \in 1..MaxMarked, NEW c \in Channels,
             NEW is_read \in BOOLEAN, MarkLoad(w, u, n, c, is_read)
      PROVE  Marking'
  BY <1>1, <1>4 DEF MarkLoad, Load, Marking, Sent
<1>5. ASSUME NEW w \in Workers, NEW wanted \in Subscription, SubscribeLoad(w, wanted)
      PROVE  Marking'
  <2> DEFINE x == [step |-> "subscribe", user |-> wanted.user, wanted |-> wanted]
  <2>1. x.step # "mark"
    OBVIOUS
  <2>2. session' = [session EXCEPT ![w] = x] /\ UNCHANGED <<contended, notification>>
    BY <1>5 DEF SubscribeLoad, Load
  <2> HIDE DEF x
  <2>3. QED
    BY <1>2, <2>1, <2>2
<1>6. ASSUME NEW w \in Workers, NEW subject \in Subject, TriggerLoad(w, subject)
      PROVE  Marking'
  <2> DEFINE x == [step |-> "trigger", user |-> subject.user, subject |-> subject, started |-> now]
  <2>1. x.step # "mark"
    OBVIOUS
  <2>2. session' = [session EXCEPT ![w] = x] /\ UNCHANGED <<contended, notification>>
    BY <1>6 DEF TriggerLoad, Load
  <2> HIDE DEF x
  <2>3. QED
    BY <1>2, <2>1, <2>2
<1>7. ASSUME NEW w \in Workers, CheckThrottle(w), ~Finish(w)
       PROVE  Marking'
  <2>1. session[w] \in [step : {"trigger", "passed"}, user : Users, subject : Subject, started : Nat]
    BY <1>7, SessionTypes DEF CheckThrottle
  <2>2. [session[w] EXCEPT !.step = "passed"].step # "mark"
    BY <2>1
  <2>3. QED
    BY <1>1, <1>2, <1>7, <2>2 DEF CheckThrottle
<1>8. ASSUME NEW w \in Workers, LoadSubscriptions(w)
       PROVE  Marking'
  <2> DEFINE r == session[w]
             x == [step |-> "notify", user |-> r.user, subject |-> r.subject, started |-> r.started,
                   channels |-> {"in_site"} \union
                                {subscription[i].channel : i \in Subscribed(r.subject)}]
  <2>1. x.step # "mark"
    OBVIOUS
  <2>2. session' = [session EXCEPT ![w] = x] /\ UNCHANGED <<contended, notification>>
    BY <1>8 DEF LoadSubscriptions
  <2> HIDE DEF x
  <2>3. QED
    BY <1>2, <2>1, <2>2
<1>9. ASSUME NEW w \in Workers, NotifyCommit(w)
      PROVE  Marking'
  <2>1. /\ session' = [session EXCEPT ![w] = Idle]
        /\ contended' = contended
    BY <1>9 DEF NotifyCommit, Finish
  <2>2. /\ DOMAIN notification \subseteq DOMAIN notification'
        /\ \A n \in DOMAIN notification : notification'[n] = notification[n]
    BY <1>9, NotifyChanges
  <2>3. QED
    BY <1>1, <1>3, <2>1, <2>2 DEF Marking, Sent
<1>10. ASSUME NEW w \in Workers, MarkCommit(w)
      PROVE  Marking'
  <2> DEFINE s == session[w]
  <2>1. /\ session' = [session EXCEPT ![w] = Idle]
        /\ contended' = contended
        /\ s.step = "mark"
    BY <1>10 DEF MarkCommit, Finish
  <2>2. NewReceipt(s, notification[s.trigger].receipt[s.channel]) # Null
    BY <1>10, MarkChanges, ReceiptTypes, NotificationAssumption DEF Receipt
  <2> SUFFICES ASSUME NEW v \in Workers, session'[v].step = "mark"
               PROVE  /\ session'[v].trigger \in DOMAIN notification'
                      /\ session'[v].user = notification'[session'[v].trigger].subject.user
                      /\ session'[v].channel \in Channels
                      /\ notification'[session'[v].trigger].receipt[session'[v].channel] # Null
                      /\ session'[v].user \notin contended' =>
                            session'[v].loaded =
                                notification'[session'[v].trigger].receipt[session'[v].channel]
    BY DEF Marking, Sent
  <2> DEFINE r == session[v]
  <2>3. v # w /\ session'[v] = r /\ r.step = "mark"
    BY <1>1, <1>3, <2>1
  <2>4. /\ r.trigger \in DOMAIN notification
        /\ r.user = notification[r.trigger].subject.user
        /\ r.channel \in Sent(r.trigger)
        /\ r.user \notin contended => r.loaded = notification[r.trigger].receipt[r.channel]
    BY <2>3 DEF Marking
  <2>5. /\ r.trigger \in DOMAIN notification'
        /\ notification'[r.trigger].subject = notification[r.trigger].subject
        /\ notification'[r.trigger].receipt[r.channel] # Null
    BY <1>10, <2>2, <2>4, MarkChanges DEF Sent
  <2>6. r.user \notin contended => r.user # s.user
    BY <1>1, <2>1, <2>3 DEF Exclusive
  <2>7. s.user = notification[s.trigger].subject.user
    BY <2>1 DEF Marking
  <2>8. r.user \notin contended =>
            notification'[r.trigger].receipt[r.channel] = notification[r.trigger].receipt[r.channel]
    BY <1>10, <2>4, <2>6, <2>7, MarkChanges DEF Sent
  <2>9. r.channel \in Channels
    BY <2>4 DEF Sent
  <2>10. QED
    BY <2>1, <2>3, <2>4, <2>5, <2>8, <2>9
<1>11. ASSUME NEW w \in Workers, Finish(w), UNCHANGED <<contended, notification>>
      PROVE  Marking'
  BY <1>2, <1>3, <1>11 DEF Finish
<1>12. CASE UNCHANGED <<contended, notification, session>>
  BY <1>12 DEF Marking, Sent
<1>13. QED
  BY <1>4, <1>5, <1>6, <1>9, <1>10, <1>11, <1>12, <1>7, <1>8, Steps

\* A mark replaces the receipt it knows, and a new row is unread.
LEMMA ReceiptStep ==
    ASSUME Inv, [Next]_vars
    PROVE  ReceiptMatches' /\ Delivered'
<1> USE DEF Inv
<1> DEFINE Matches(r, delivered) ==
              /\ r.is_read <=> r.read_at # Null
              /\ r.is_read => delivered <= r.read_at
<1>1. ASSUME UNCHANGED <<contended, notification>>, now <= now', now' \in Nat
      PROVE  ReceiptMatches' /\ Delivered'
  <2>1. \A n \in DOMAIN notification : notification[n].delivered <= now'
    BY <1>1, RowTypes DEF Delivered, TypeOK
  <2>2. QED
    BY <1>1, <2>1 DEF ReceiptMatches, Delivered, Sent
<1>2. now \in Nat /\ now <= now
  BY DEF TypeOK
<1>3. ASSUME NEW w \in Workers, NotifyCommit(w)
      PROVE  ReceiptMatches' /\ Delivered'
  <2> DEFINE m == Len(notification) + 1
  <2>1. /\ DOMAIN notification' = DOMAIN notification \union {m}
        /\ \A n \in DOMAIN notification : notification'[n] = notification[n]
        /\ notification'[m].delivered = now
        /\ notification'[m].receipt = Unread(session[w].channels)
        /\ contended' = contended /\ now' = now
    BY <1>3, NotifyChanges DEF NotifyCommit
  <2>2. Delivered'
    BY <1>2, <2>1 DEF Delivered
  <2>3. \A c \in Channels : Unread(session[w].channels)[c] # Null =>
            Unread(session[w].channels)[c] = [is_read |-> FALSE, read_at |-> Null]
    BY DEF Unread
  <2>4. \A n \in DOMAIN notification' : notification'[n].subject.user \notin contended =>
           \A c \in Channels : notification'[n].receipt[c] # Null =>
               Matches(notification'[n].receipt[c], notification'[n].delivered)
    BY <2>1, <2>3 DEF ReceiptMatches, Sent
  <2>5. QED
    BY <2>1, <2>2, <2>4 DEF ReceiptMatches, Sent
<1>4. ASSUME NEW w \in Workers, MarkCommit(w)
      PROVE  ReceiptMatches' /\ Delivered'
  <2> DEFINE s == session[w]
             old == notification[s.trigger].receipt[s.channel]
  <2>1. /\ s.step = "mark"
        /\ s.trigger \in DOMAIN notification
        /\ DOMAIN notification' = DOMAIN notification
        /\ contended' = contended /\ now' = now
        /\ \A n \in DOMAIN notification :
              /\ notification'[n].subject = notification[n].subject
              /\ notification'[n].delivered = notification[n].delivered
              /\ \A c \in Channels :
                    notification'[n].receipt[c] =
                        IF n = s.trigger /\ c = s.channel THEN NewReceipt(s, old)
                        ELSE notification[n].receipt[c]
    BY <1>4, MarkChanges DEF MarkCommit
  <2>2. Delivered'
    BY <2>1 DEF Delivered
  <2>3. ASSUME s.user \notin contended
        PROVE  Matches(NewReceipt(s, old), notification[s.trigger].delivered)
    <3>1. s.loaded = old /\ s.channel \in Sent(s.trigger) /\ s.user = notification[s.trigger].subject.user
      BY <2>1, <2>3 DEF Marking
    <3>2. /\ old.is_read <=> old.read_at # Null
          /\ old.is_read => notification[s.trigger].delivered <= old.read_at
      BY <2>1, <2>3, <3>1 DEF ReceiptMatches
    <3>3. /\ s.is_read \in BOOLEAN /\ old.is_read \in BOOLEAN
      BY <2>1, <3>1, SessionTypes DEF Receipt
    <3>4. NewReceipt(s, old) =
              [is_read |-> s.is_read,
               read_at |-> IF s.is_read THEN now ELSE Null]
      BY <3>1, <3>3 DEF NewReceipt, Written
    <3>5. now # Null
      BY <1>2, NotificationAssumption
    <3>6. notification[s.trigger].delivered <= now
      BY <2>1 DEF Delivered
    <3>7. QED
      BY <3>3, <3>4, <3>5, <3>6
  <2>4. s.user = notification[s.trigger].subject.user
    BY <2>1 DEF Marking
  <2>5. \A n \in DOMAIN notification : notification[n].subject.user \notin contended =>
           \A c \in Channels : notification'[n].receipt[c] # Null =>
               Matches(notification'[n].receipt[c], notification[n].delivered)
    BY <2>1, <2>3, <2>4 DEF ReceiptMatches, Sent
  <2>6. QED
    BY <2>1, <2>2, <2>5 DEF ReceiptMatches, Sent
<1>5. QED
  BY <1>1, <1>2, <1>3, <1>4, Steps
  DEF SubscribeLoad, TriggerLoad, MarkLoad, Load, CheckThrottle, LoadSubscriptions

-----------------------------------------------------------------------------
\* The throttle

\* The rows every property of the throttle looks at stay as they are, except
\* that a trigger appends one.
SameRows ==
    /\ DOMAIN notification' = DOMAIN notification
    /\ \A n \in DOMAIN notification :
          /\ notification'[n].subject = notification[n].subject
          /\ notification'[n].created = notification[n].created
          /\ notification'[n].delivered = notification[n].delivered

\* What a step does to the sessions that may deliver: it starts or ends one, or
\* takes it past the throttle, or lets it load whom to tell.
Passes(w) ==
    /\ session[w].step = "trigger"
    /\ ~Throttled(session[w].subject)

Moves(w) ==
    /\ \A v \in Workers \ {w} : session'[v] = session[v]
    /\ \/ session'[w].step \in {"idle", "subscribe", "mark"}
       \/ /\ session'[w].step = "trigger"
          /\ session'[w].subject.user = session'[w].user
       \/ /\ session'[w].step \in {"passed", "notify"}
          /\ session[w].step = "passed" \/ Passes(w)
          /\ session'[w].subject = session[w].subject
          /\ session'[w].user = session[w].user

LEMMA Kinds ==
    ASSUME Inv, [Next]_vars
    PROVE  /\ contended' = contended
           /\ \/ \E w \in Workers : NotifyCommit(w) /\ now' = now
              \/ \E w \in Workers : SameRows /\ Moves(w) /\ now' = now
              \/ SameRows /\ session' = session /\ now <= now' /\ now' \in Nat
<1> USE DEF Inv
<1>1. session \in [Workers -> Session]
  BY DEF TypeOK
<1>2. notification' = notification => SameRows
  BY DEF SameRows
<1>3. ASSUME NEW w \in Workers, NEW x, session' = [session EXCEPT ![w] = x],
             x.step \in {"idle", "subscribe", "mark"}
      PROVE  Moves(w)
  BY <1>1, <1>3 DEF Moves
<1>4. ASSUME NEW w \in Workers, Finish(w)
      PROVE  Moves(w)
  <2>1. Idle.step = "idle"
    BY DEF Idle
  <2>2. QED
    BY <1>3, <1>4, <2>1 DEF Finish
<1>5. ASSUME NEW w \in Workers, NEW wanted \in Subscription, SubscribeLoad(w, wanted)
      PROVE  Moves(w) /\ UNCHANGED <<contended, notification, now>>
  <2> DEFINE x == [step |-> "subscribe", user |-> wanted.user, wanted |-> wanted]
  <2>1. x.step = "subscribe"
    OBVIOUS
  <2>2. session' = [session EXCEPT ![w] = x] /\ UNCHANGED <<contended, notification, now>>
    BY <1>5 DEF SubscribeLoad, Load
  <2> HIDE DEF x
  <2>3. QED
    BY <1>3, <2>1, <2>2
<1>6. ASSUME NEW w \in Workers, NEW u \in Users, NEW n \in 1..MaxMarked, NEW c \in Channels,
             NEW is_read \in BOOLEAN, MarkLoad(w, u, n, c, is_read)
      PROVE  Moves(w) /\ UNCHANGED <<contended, notification, now>>
  <2> DEFINE x == [step |-> "mark", user |-> notification[n].subject.user, trigger |-> n,
                   channel |-> c, loaded |-> notification[n].receipt[c], is_read |-> is_read]
  <2>1. x.step = "mark"
    OBVIOUS
  <2>2. session' = [session EXCEPT ![w] = x] /\ UNCHANGED <<contended, notification, now>>
    BY <1>6 DEF MarkLoad, Load
  <2> HIDE DEF x
  <2>3. QED
    BY <1>3, <2>1, <2>2
<1>7. ASSUME NEW w \in Workers, NEW subject \in Subject, TriggerLoad(w, subject)
      PROVE  Moves(w) /\ UNCHANGED <<contended, notification, now>>
  <2>1. /\ session' = [session EXCEPT ![w] =
              [step |-> "trigger", user |-> subject.user, subject |-> subject, started |-> now]]
        /\ UNCHANGED <<contended, notification, now>>
    BY <1>7 DEF TriggerLoad, Load
  <2>2. QED
    BY <1>1, <2>1 DEF Moves
<1>8. ASSUME NEW w \in Workers, CheckThrottle(w), ~Finish(w)
      PROVE  Moves(w) /\ UNCHANGED <<contended, notification, now>>
  <2> DEFINE r == session[w]
             x == [r EXCEPT !.step = "passed"]
  <2>1. r \in [step : {"trigger", "passed"}, user : Users, subject : Subject, started : Nat]
    BY <1>8, SessionTypes DEF CheckThrottle
  <2>2. x.step = "passed" /\ x.subject = r.subject /\ x.user = r.user
    BY <2>1
  <2>3. /\ Passes(w)
        /\ session' = [session EXCEPT ![w] = x]
        /\ UNCHANGED <<contended, notification, now>>
    BY <1>8 DEF CheckThrottle, Passes
  <2> HIDE DEF x
  <2>4. QED
    BY <1>1, <2>2, <2>3 DEF Moves
<1>9. ASSUME NEW w \in Workers, LoadSubscriptions(w)
      PROVE  Moves(w) /\ UNCHANGED <<contended, notification, now>>
  <2> DEFINE r == session[w]
             x == [step |-> "notify", user |-> r.user, subject |-> r.subject, started |-> r.started,
                   channels |-> {"in_site"} \union
                                {subscription[i].channel : i \in Subscribed(r.subject)}]
  <2>1. x.step = "notify" /\ x.subject = r.subject /\ x.user = r.user
    OBVIOUS
  <2>2. /\ r.step = "passed"
        /\ session' = [session EXCEPT ![w] = x]
        /\ UNCHANGED <<contended, notification, now>>
    BY <1>9 DEF LoadSubscriptions
  <2> HIDE DEF x
  <2>3. QED
    BY <1>1, <2>1, <2>2 DEF Moves
<1>10. ASSUME NEW w \in Workers, MarkCommit(w)
       PROVE  Moves(w) /\ SameRows /\ UNCHANGED <<contended, now>>
  BY <1>4, <1>10, MarkChanges DEF MarkCommit, SameRows
<1>11. ASSUME NEW w \in Workers, NotifyCommit(w)
       PROVE  UNCHANGED <<contended, now>>
  BY <1>11 DEF NotifyCommit
<1>12. QED
  BY <1>2, <1>4, <1>5, <1>6, <1>7, <1>8, <1>9, <1>10, <1>11, Steps

\* A session on its own that passed finds every window closed.
LEMMA PassedStep ==
    ASSUME Inv, [Next]_vars
    PROVE  Passed'
<1> USE DEF Inv
<1> DEFINE Closed(s, t) == \A n \in DOMAIN notification :
                 notification[n].subject = s => notification[n].created + Window < t
<1>1. /\ session \in [Workers -> Session] /\ now \in Nat /\ Window \in Nat
      /\ \A w \in Workers : session[w].step \in {"trigger", "passed", "notify"} => session[w] # Idle
      /\ contended' = contended
  BY Kinds, NotificationAssumption DEF TypeOK, Idle
<1>2. ASSUME NEW v \in Workers, session[v].step \in {"trigger", "passed", "notify"}
      PROVE  /\ session[v].subject.user = session[v].user
             /\ session[v].step # "trigger" /\ session[v].user \notin contended =>
                   Closed(session[v].subject, now)
  BY <1>2 DEF Passed
<1>3. ASSUME NEW w \in Workers, Passes(w)
      PROVE  Closed(session[w].subject, now)
  BY <1>1, <1>3, RowTypes DEF Passes, Throttled
<1>4. ASSUME NEW w \in Workers, SameRows, Moves(w), now' = now
      PROVE  Passed'
  <2> SUFFICES ASSUME NEW v \in Workers, session'[v].step \in {"trigger", "passed", "notify"}
               PROVE  /\ session'[v].subject.user = session'[v].user
                      /\ session'[v].step # "trigger" /\ session'[v].user \notin contended =>
                            Closed(session'[v].subject, now)
    BY <1>1, <1>4 DEF Passed, SameRows
  <2>1. CASE v # w
    BY <1>2, <1>4, <2>1 DEF Moves
  <2>2. CASE v = w
    BY <1>2, <1>3, <1>4, <2>2 DEF Moves, Passes
  <2>3. QED
    BY <2>1, <2>2
<1>5. ASSUME NEW w \in Workers, NotifyCommit(w), now' = now
      PROVE  Passed'
  <2> DEFINE m == Len(notification) + 1
  <2>1. /\ session' = [session EXCEPT ![w] = Idle]
        /\ session[w].step = "notify"
        /\ DOMAIN notification' = DOMAIN notification \union {m}
        /\ \A n \in DOMAIN notification : notification'[n] = notification[n]
        /\ notification'[m].subject = session[w].subject
    BY <1>5, NotifyChanges DEF NotifyCommit, Finish
  <2> SUFFICES ASSUME NEW v \in Workers, session'[v].step \in {"trigger", "passed", "notify"}
               PROVE  /\ session'[v].subject.user = session'[v].user
                      /\ session'[v].step # "trigger" /\ session'[v].user \notin contended =>
                            \A n \in DOMAIN notification' :
                               notification'[n].subject = session'[v].subject =>
                                   notification'[n].created + Window < now
    BY <1>1, <1>5 DEF Passed
  <2>2. v # w /\ session'[v] = session[v]
    BY <1>1, <2>1 DEF Idle
  <2>3. session[v].user \notin contended => session[v].subject # session[w].subject
    BY <1>1, <1>2, <2>1, <2>2 DEF Exclusive
  <2>4. QED
    BY <1>2, <2>1, <2>2, <2>3
<1>6. ASSUME SameRows, session' = session, now <= now', now' \in Nat
      PROVE  Passed'
  <2> SUFFICES ASSUME NEW v \in Workers, session[v].step \in {"trigger", "passed", "notify"}
               PROVE  /\ session[v].subject.user = session[v].user
                      /\ session[v].step # "trigger" /\ session[v].user \notin contended =>
                            Closed(session[v].subject, now')
    BY <1>1, <1>6 DEF Passed, SameRows
  <2>1. \A s : Closed(s, now) => Closed(s, now')
    BY <1>1, <1>6, RowTypes
  <2>2. QED
    BY <1>2, <2>1
<1>7. QED
  BY <1>4, <1>5, <1>6, Kinds

\* What a trigger adds to what the window of an earlier notification holds.
LEMMA BurstGrows ==
    ASSUME Inv, NEW w \in Workers, NotifyCommit(w), now' = now,
           NEW m, m = Len(notification) + 1
    PROVE  /\ \A n \in DOMAIN notification :
                 /\ Burst(n)' \subseteq Burst(n) \union {m}
                 /\ m \in Burst(n)' =>
                       /\ session[w].subject = notification[n].subject
                       /\ Open(n)
                 /\ Open(n)' => Open(n)
                 /\ Pending(n)' \subseteq Pending(n) \ {w}
           /\ Burst(m)' \subseteq {m}
           /\ Pending(m)' \subseteq Workers \ {w}
<1> USE DEF Inv
<1>1. /\ m \in Nat /\ m \notin DOMAIN notification
      /\ DOMAIN notification' = DOMAIN notification \union {m}
      /\ \A n \in DOMAIN notification : n < m
      /\ \A n \in DOMAIN notification : notification'[n] = notification[n]
      /\ notification'[m].subject = session[w].subject
      /\ notification'[m].delivered = now
  BY NotifyChanges
<1>2. session \in [Workers -> Session] /\ session' = [session EXCEPT ![w] = Idle]
  BY DEF TypeOK, NotifyCommit, Finish
<1>3. \A n \in DOMAIN notification : n \in Nat
  BY RowTypes
<1>4. ASSUME NEW n
      PROVE  w \notin Pending(n)'
  BY <1>2 DEF Pending, Idle
<1>5. Burst(m)' \subseteq {m}
  BY <1>1, <1>3 DEF Burst
<1>6. Pending(m)' \subseteq Workers \ {w}
  BY <1>4 DEF Pending
<1>7. ASSUME NEW n \in DOMAIN notification
      PROVE  /\ Burst(n)' \subseteq Burst(n) \union {m}
             /\ m \in Burst(n)' =>
                   /\ session[w].subject = notification[n].subject
                   /\ Open(n)
             /\ Open(n)' => Open(n)
             /\ Pending(n)' \subseteq Pending(n) \ {w}
  <2>1. notification'[n] = notification[n]
    BY <1>1
  <2>2. Burst(n)' \subseteq Burst(n) \union {m}
    BY <1>1, <2>1 DEF Burst
  <2>3. m \in Burst(n)' => session[w].subject = notification[n].subject /\ Open(n)
    BY <1>1, <2>1 DEF Burst, Open
  <2>4. Open(n)' => Open(n)
    BY <2>1 DEF Open
  <2>5. Pending(n)' \subseteq Pending(n)
    BY <1>2, <1>4, <2>1 DEF Pending
  <2>6. QED
    BY <1>4, <2>2, <2>3, <2>4, <2>5
<1>8. QED
  BY <1>5, <1>6, <1>7

\* Any other step leaves the windows as they are, and while one is open no
\* session joins those that may deliver in it.
LEMMA BurstKept ==
    ASSUME Inv, SameRows,
           \/ session' = session /\ now <= now' /\ now' \in Nat
           \/ now' = now /\ \E w \in Workers : Moves(w),
           NEW n \in DOMAIN notification
    PROVE  /\ Burst(n)' = Burst(n)
           /\ Open(n)' => Open(n) /\ Pending(n)' \subseteq Pending(n)
<1> USE DEF Inv
<1>1. Burst(n)' = Burst(n)
  BY DEF SameRows, Burst
<1>2. /\ now \in Nat /\ now' \in Nat /\ now <= now' /\ Window \in Nat
      /\ notification[n].created \in Nat
      /\ notification'[n].created = notification[n].created
      /\ notification'[n].subject = notification[n].subject
  BY RowTypes, NotificationAssumption DEF TypeOK, SameRows
<1>3. Open(n)' => Open(n)
  BY <1>2 DEF Open
<1>4. CASE session' = session
  BY <1>1, <1>2, <1>3, <1>4 DEF Pending
<1>5. ASSUME NEW w \in Workers, Moves(w), now' = now, Open(n)'
      PROVE  Pending(n)' \subseteq Pending(n)
  <2>1. Passes(w) => session[w].subject # notification[n].subject
    BY <1>2, <1>3, <1>5 DEF Passes, Throttled, Open
  <2>2. ASSUME NEW v \in Pending(n)'
        PROVE  v \in Pending(n)
    <3>1. /\ v \in Workers
          /\ session'[v].step \in {"passed", "notify"}
          /\ session'[v].subject = notification[n].subject
      BY <1>2, <2>2 DEF Pending
    <3>2. QED
      BY <1>5, <2>1, <3>1 DEF Pending, Moves
  <2>3. QED
    BY <2>2
<1>6. QED
  BY <1>1, <1>3, <1>4, <1>5

\* A session on its own delivers only past the windows of what it found.
LEMMA AloneStep ==
    ASSUME Inv, [Next]_vars
    PROVE  Alone'
<1> USE DEF Inv
<1>1. contended' = contended
  BY Kinds
<1>2. ASSUME NEW w \in Workers, NotifyCommit(w), now' = now
      PROVE  Alone'
  <2>0. PICK m : m = Len(notification) + 1
    OBVIOUS
  <2>1. /\ DOMAIN notification' = DOMAIN notification \union {m}
        /\ \A n \in DOMAIN notification : notification'[n] = notification[n]
        /\ session[w].step = "notify"
    BY <1>2, <2>0, NotifyChanges
  <2>2. ASSUME NEW n \in DOMAIN notification, notification[n].subject.user \notin contended
        PROVE  m \notin Burst(n)'
    <3>1. SUFFICES ASSUME session[w].subject = notification[n].subject, Open(n)
                   PROVE  FALSE
      BY <1>2, <2>0, BurstGrows
    <3>2. /\ session[w].subject.user = session[w].user
          /\ notification[n].created + Window < now
      BY <2>1, <2>2, <3>1 DEF Passed
    <3>3. notification[n].created \in Nat /\ now \in Nat /\ Window \in Nat
      BY RowTypes, NotificationAssumption DEF TypeOK
    <3>4. QED
      BY <3>1, <3>2, <3>3 DEF Open
  <2>3. \A n \in DOMAIN notification : Burst(n)' \subseteq Burst(n) \union {m}
    BY <1>2, <2>0, BurstGrows
  <2>4. Burst(m)' \subseteq {m}
    BY <1>2, <2>0, BurstGrows
  <2>5. ASSUME NEW n \in DOMAIN notification', notification'[n].subject.user \notin contended
        PROVE  Burst(n)' \subseteq {n}
    BY <2>1, <2>2, <2>3, <2>4, <2>5 DEF Alone
  <2>6. QED
    BY <1>1, <2>5 DEF Alone
<1>3. ASSUME SameRows, \A n \in DOMAIN notification : Burst(n)' = Burst(n)
      PROVE  Alone'
  BY <1>1, <1>3 DEF Alone, SameRows
<1>4. QED
  BY <1>2, <1>3, BurstKept, Kinds

\* The sets that are counted are finite.
LEMMA Counted ==
    ASSUME TypeOK, NEW n
    PROVE  /\ IsFiniteSet(Burst(n)) /\ Cardinality(Burst(n)) \in Nat
           /\ IsFiniteSet(Pending(n)) /\ Cardinality(Pending(n)) \in Nat
           /\ IsFiniteSet(Workers) /\ Cardinality(Workers) \in Nat
<1>1. IsFiniteSet(DOMAIN notification)
  <2>1. DOMAIN notification = 1..Len(notification) /\ Len(notification) \in Nat
    BY DEF TypeOK
  <2>2. QED
    BY <2>1, FS_Interval
<1>2. Burst(n) \subseteq DOMAIN notification /\ Pending(n) \subseteq Workers
  BY DEF Burst, Pending
<1>3. IsFiniteSet(Workers)
  BY NotificationAssumption
<1>4. QED
  BY <1>1, <1>2, <1>3, FS_Subset, FS_CardinalityType

\* A delivery in an open window takes its session out of those that may still
\* deliver; the first of a window has at most the other workers behind it.
LEMMA CrowdStep ==
    ASSUME Inv, [Next]_vars
    PROVE  Crowd'
<1> USE DEF Inv
<1>1. TypeOK'
  BY TypeStep
<1>2. ASSUME NEW w \in Workers, NotifyCommit(w), now' = now
      PROVE  Crowd'
  <2> DEFINE W == Cardinality(Workers)
  <2>0. PICK m : m = Len(notification) + 1
    OBVIOUS
  <2>1. /\ DOMAIN notification' = DOMAIN notification \union {m}
        /\ session[w].step = "notify"
    BY <1>2, <2>0, NotifyChanges
  <2>2. /\ IsFiniteSet(Workers) /\ W \in Nat
        /\ Cardinality(Workers \ {w}) = W - 1
        /\ IsFiniteSet(Workers \ {w})
    BY Counted, FS_RemoveElement
  <2>3. /\ Cardinality(Burst(m)') <= W
        /\ Cardinality(Burst(m)') + Cardinality(Pending(m)') <= W
    <3>1. Burst(m)' \subseteq {m} /\ Pending(m)' \subseteq Workers \ {w}
      BY <1>2, <2>0, BurstGrows
    <3>2. Cardinality(Burst(m)') <= 1 /\ Cardinality(Burst(m)') \in Nat
      <4>1. IsFiniteSet({m}) /\ Cardinality({m}) = 1
        BY FS_Singleton
      <4> DEFINE S == Burst(m)'
      <4>2. S \in SUBSET {m}
        BY <3>1
      <4> HIDE DEF S
      <4>3. IsFiniteSet(S) /\ Cardinality(S) <= Cardinality({m})
        BY <4>1, <4>2, FS_Subset
      <4>4. QED
        BY <4>1, <4>3, FS_CardinalityType DEF S
    <3>3. Cardinality(Pending(m)') <= W - 1 /\ Cardinality(Pending(m)') \in Nat
      BY <2>2, <3>1, FS_Subset, FS_CardinalityType
    <3>4. QED
      BY <2>2, <3>2, <3>3
  <2>4. ASSUME NEW n \in DOMAIN notification
        PROVE  /\ Cardinality(Burst(n)') <= W
               /\ Open(n)' => Cardinality(Burst(n)') + Cardinality(Pending(n)') <= W
    <3> DEFINE B == Burst(n)  B1 == Burst(n)'
               P == Pending(n)  P1 == Pending(n)'
    <3>1. /\ B1 \subseteq B \union {m}
          /\ m \in B1 => session[w].subject = notification[n].subject /\ Open(n)
          /\ Open(n)' => Open(n)
          /\ P1 \subseteq P \ {w}
      BY <1>2, <2>0, BurstGrows
    <3>2. /\ Cardinality(B) <= W
          /\ Open(n) => Cardinality(B) + Cardinality(P) <= W
      BY DEF Crowd
    <3>3. /\ IsFiniteSet(B) /\ Cardinality(B) \in Nat
          /\ IsFiniteSet(P) /\ Cardinality(P) \in Nat
      BY Counted
    <3>4. m \in B1 => Open(n) /\ w \in P
      BY <2>1, <3>1 DEF Pending
    <3> HIDE DEF B, B1, P, P1
    <3>5. CASE m \in B1
      <4>1. Cardinality(B1) <= Cardinality(B) + 1 /\ Cardinality(B1) \in Nat
        <5> DEFINE S == B \union {m}
        <5>1. IsFiniteSet(S) /\ Cardinality(S) <= Cardinality(B) + 1 /\ Cardinality(S) \in Nat
          <6>1. IsFiniteSet(S) /\ Cardinality(S) = IF m \in B THEN Cardinality(B) ELSE Cardinality(B) + 1
            BY <3>3, FS_AddElement
          <6>2. QED
            BY <3>3, <6>1
        <5>2. B1 \in SUBSET S
          BY <3>1
        <5> HIDE DEF S
        <5>3. IsFiniteSet(B1) /\ Cardinality(B1) <= Cardinality(S)
          BY <5>1, <5>2, FS_Subset
        <5>4. QED
          BY <3>3, <5>1, <5>3, FS_CardinalityType
      <4>2. Cardinality(P1) <= Cardinality(P) - 1 /\ Cardinality(P1) \in Nat
        BY <3>1, <3>3, <3>4, <3>5, FS_RemoveElement, FS_Subset, FS_CardinalityType
      <4>3. QED
        BY <2>2, <3>2, <3>3, <3>4, <3>5, <4>1, <4>2 DEF B1, P1
    <3>6. CASE m \notin B1
      <4>1. B1 \subseteq B /\ P1 \subseteq P
        BY <3>1, <3>6
      <4>2. /\ Cardinality(B1) <= Cardinality(B) /\ Cardinality(B1) \in Nat
            /\ Cardinality(P1) <= Cardinality(P) /\ Cardinality(P1) \in Nat
        BY <3>3, <4>1, FS_Subset, FS_CardinalityType
      <4>3. QED
        BY <2>2, <3>1, <3>2, <3>3, <4>2 DEF B1, P1
    <3>7. QED
      BY <3>5, <3>6
  <2>5. QED
    BY <2>1, <2>3, <2>4 DEF Crowd
<1>3. ASSUME SameRows,
             \A n \in DOMAIN notification :
                 /\ Burst(n)' = Burst(n)
                 /\ Open(n)' => Open(n) /\ Pending(n)' \subseteq Pending(n)
      PROVE  Crowd'
  <2> SUFFICES ASSUME NEW n \in DOMAIN notification
               PROVE  /\ Cardinality(Burst(n)') <= Cardinality(Workers)
                      /\ Open(n)' => Cardinality(Burst(n)') + Cardinality(Pending(n)')
                                        <= Cardinality(Workers)
    BY <1>3 DEF Crowd, SameRows
  <2> DEFINE P == Pending(n)  P1 == Pending(n)'
  <2>1. /\ Cardinality(Burst(n)) <= Cardinality(Workers)
        /\ Open(n) => Cardinality(Burst(n)) + Cardinality(P) <= Cardinality(Workers)
    BY DEF Crowd
  <2>2. /\ Cardinality(Burst(n)) \in Nat /\ Cardinality(Workers) \in Nat
        /\ IsFiniteSet(P) /\ Cardinality(P) \in Nat
    BY Counted
  <2>3. Burst(n)' = Burst(n) /\ (Open(n)' => Open(n) /\ P1 \subseteq P)
    BY <1>3
  <2> HIDE DEF P, P1
  <2>4. P1 \subseteq P => Cardinality(P1) <= Cardinality(P) /\ Cardinality(P1) \in Nat
    BY <2>2, FS_Subset, FS_CardinalityType
  <2>5. QED
    BY <2>1, <2>2, <2>3, <2>4 DEF P1
<1>4. QED
  BY <1>2, <1>3, BurstKept, Kinds

-----------------------------------------------------------------------------
\* The invariant

LEMMA InitInv == Init => Inv
<1> SUFFICES ASSUME Init PROVE Inv
  OBVIOUS
<1>1. TypeOK
  BY DEF Init, TypeOK, Session
<1>2. \A w \in Workers : session[w] = Idle /\ session[w].step = "idle"
  BY DEF Init, Idle
<1>3. DOMAIN notification = {}
  BY DEF Init
<1>4. QED
  BY <1>1, <1>2, <1>3
  DEF Inv, Exclusive, Marking, Passed, Delivered, Crowd, Alone, ReceiptMatches

LEMMA Inductive == Inv /\ [Next]_vars => Inv'
<1> SUFFICES ASSUME Inv, [Next]_vars PROVE Inv'
  OBVIOUS
<1>1. QED
  BY TypeStep, ExclusiveStep, MarkingStep, PassedStep, ReceiptStep, CrowdStep, AloneStep DEF Inv

\* The conjunction that every step keeps: which sessions are alone, what they
\* know of the rows, and how many may still deliver while a window is open.
THEOREM Invariance == Spec => []Inv
<1>1. QED
  BY InitInv, Inductive, PTL DEF Spec

\* The tables and the sessions keep their types.
THEOREM TypeCorrect == Spec => []TypeOK
<1>1. Inv => TypeOK
  BY DEF Inv
<1>2. QED
  BY <1>1, Invariance, PTL

\* A receipt of a recipient whose requests do not overlap says it was read
\* exactly when it says at what time, and not before it was delivered.
THEOREM ReceiptMatchesHolds == Spec => []ReceiptMatches
<1>1. Inv => ReceiptMatches
  BY DEF Inv
<1>2. QED
  BY <1>1, Invariance, PTL

\* In the window a notification opens, one trigger per subject is delivered, and
\* under overlap no more than there are workers.
THEOREM BurstBoundedHolds == Spec => []BurstBounded
<1>1. Inv => BurstBounded
  <2> SUFFICES ASSUME Inv, NEW n \in DOMAIN notification
               PROVE  IF notification[n].subject.user \in contended
                      THEN Cardinality(Burst(n)) <= Cardinality(Workers)
                      ELSE Burst(n) \subseteq {n}
    BY DEF BurstBounded
  <2>1. Cardinality(Burst(n)) <= Cardinality(Workers)
    BY DEF Inv, Crowd
  <2>2. notification[n].subject.user \notin contended => Burst(n) \subseteq {n}
    BY DEF Inv, Alone
  <2> HIDE DEF Burst
  <2>3. QED
    BY <2>1, <2>2
<1>2. QED
  BY <1>1, Invariance, PTL
=============================================================================
