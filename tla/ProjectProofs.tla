---------------------------- MODULE ProjectProofs ----------------------------
(***************************************************************************)
(* What holds of the life of a project for any number of users, workers,   *)
(* projects and versions.                                                  *)
(*                                                                         *)
(* The argument for overlapping requests: a loaded version number is never *)
(* ahead of the stored one, so the unique constraint lets a submission     *)
(* through only if no other went before it, and then what it knew of the   *)
(* review still holds.  With one request at a time the loaded row is the   *)
(* stored row.                                                             *)
(***************************************************************************)
EXTENDS ProjectLifecycle, TLAPS

\* What row, versions and rejections of a project have to do with each other.
Consistent(row, history, seen) ==
    /\ row.current = Len(history)
    /\ \A i \in DOMAIN history :
          /\ history[i].number = i
          /\ i > 1 => history[i].changed = Diff(history[i - 1], history[i])
    /\ row.status = "draft" => row.current = 0
    /\ row.status = "rejected" => row.current \in seen
    /\ row.status \in {"draft", "submitted"} \/ row.current = 0 => row.reviewed_by = Null
    /\ row.status = "rejected" => row.reviewed_by # Null /\ CanReview(row.reviewed_by, row)
    /\ row.status \in {"submitted", "rejected"} => row.current > 0
    /\ \A n \in 1..row.current - 1 : n \in seen

Rows ==
    \A p \in Projects :
        IF Exists(p) THEN Consistent(project[p], version[p], rejected[p])
        ELSE version[p] = <<>> /\ rejected[p] = {}

\* A project that is not contended has one request in flight.
Exclusive ==
    \A v, w \in Workers :
        /\ session[v] # Idle
        /\ session[w] # Idle
        /\ session[v].project = session[w].project
        /\ session[v].project \notin contended
        => v = w

\* What a request knows of its project.
Informed(s, row, seen, alone) ==
    /\ s.row.applicant = row.applicant
    /\ s.row.reviewer = row.reviewer
    /\ s.row.current <= row.current
    /\ s.step \in {"edit", "submit"} => s.row.status \in {"draft", "rejected"}
    /\ s.step = "submit" =>
          /\ s.row.status = "draft" => s.row.current = 0
          /\ s.row.status = "rejected" => s.row.current \in seen /\ s.row.reviewed_by # Null
    /\ s.step = "reject" =>
          /\ s.row.status = "submitted"
          /\ s.row.current > 0
          /\ CanReview(s.actor, s.row)
    /\ s.step = "deactivate" => s.row.status # "deactivated"
    /\ alone => s.row = row

SessionsOK ==
    \A w \in Workers : session[w] # Idle =>
        LET p == session[w].project
        IN  /\ Exists(p)
            /\ Informed(session[w], project[p], rejected[p], p \notin contended)

Inv ==
    /\ TypeOK
    /\ Rows
    /\ SubmittedAsSeen
    /\ Exclusive
    /\ SessionsOK

-----------------------------------------------------------------------------
\* Types

\* What the types say of one project.
LEMMA RowTypes ==
    ASSUME TypeOK, NEW p \in Projects, Exists(p)
    PROVE  /\ project[p] \in Project
           /\ project[p].current \in Nat
           /\ project[p].content \in Content
           /\ project[p].status \in Status
           /\ version[p] \in Seq(Version) /\ Len(version[p]) \in Nat
           /\ DOMAIN version[p] = 1..Len(version[p])
           /\ rejected[p] \in SUBSET Nat
<1>1. project[p] \in Project
  BY DEF TypeOK, Exists
<1>2. version[p] \in Seq(Version) /\ rejected[p] \in SUBSET Nat
  BY DEF TypeOK
<1> QED BY <1>1, <1>2 DEF Project

\* What they say of a request.
LEMMA RequestTypes ==
    ASSUME NEW s \in Session, s # Idle
    PROVE  /\ s.project \in Projects
           /\ s.row \in Project /\ s.row.current \in Nat /\ s.row.content \in Content
           /\ s.step = "edit" => s.edit \in Edit
           /\ s.step # "edit" => s.actor \in Users
  BY DEF Session, Project, Idle

\* The latest version is the last one when the numbers are in order.
LEMMA PreviousIsLast ==
    ASSUME NEW p, version[p] \in Seq(Version), version[p] # <<>>,
           \A i \in DOMAIN version[p] : version[p][i].number = i
    PROVE  Previous(p) = version[p][Len(version[p])]
<1> DEFINE h == version[p]
           n == Len(h)
           Top(v) == \A i \in DOMAIN h : h[i].number <= v.number
<1>1. n \in Nat \ {0} /\ DOMAIN h = 1..n
  OBVIOUS
<1>2. Top(h[n]) /\ h[n] \in {h[i] : i \in DOMAIN h}
  BY <1>1
<1>3. ASSUME NEW j \in DOMAIN h, Top(h[j]) PROVE h[j] = h[n]
  <2>1. n <= j /\ j <= n
    BY <1>1, <1>3
  <2> QED BY <1>1, <2>1
<1>4. Previous(p) = CHOOSE v \in {h[i] : i \in DOMAIN h} : Top(v)
  BY DEF Previous
<1> HIDE DEF Top
<1> QED BY <1>2, <1>3, <1>4

-----------------------------------------------------------------------------
\* Steps

LEMMA Initial == Init => Inv
<1> SUFFICES ASSUME Init PROVE Inv
  OBVIOUS
<1>1. TypeOK
  BY DEF Init, TypeOK, Session
<1>2. Rows /\ SubmittedAsSeen
  BY DEF Init, Rows, SubmittedAsSeen, Exists
<1>3. Exclusive /\ SessionsOK
  BY DEF Init, Exclusive, SessionsOK
<1> QED BY <1>1, <1>2, <1>3 DEF Inv

LEMMA Created ==
    ASSUME Inv, NEW u \in Users, NEW p \in Projects, NEW reviewer \in Users \union {Null},
           NEW content \in Content, CreateProject(u, p, reviewer, content)
    PROVE  Inv'
<1> DEFINE row == [applicant |-> u, reviewer |-> reviewer, content |-> content,
                   status |-> "draft", active |-> TRUE, current |-> 0, reviewed_by |-> Null]
<1>1. /\ ~Exists(p) /\ project' = [project EXCEPT ![p] = row]
      /\ UNCHANGED <<contended, version, session, rejected>>
  BY DEF CreateProject
<1>2. row \in Project /\ row # Null
  <2>1. row \in Project
    BY DEF Project, Status
  <2>2. Null \notin Project
    BY ProjectAssumption
  <2> QED BY <2>1, <2>2
<1>3. /\ row.current = 0 /\ row.status = "draft" /\ row.reviewed_by = Null
  OBVIOUS
<1> HIDE DEF row
<1>4. TypeOK'
  BY <1>1, <1>2 DEF Inv, TypeOK
<1>5. /\ \A q \in Projects \ {p} : project'[q] = project[q]
      /\ project'[p] = row
  BY <1>1 DEF Inv, TypeOK
<1>6. Rows'
  <2>1. version[p] = <<>> /\ rejected[p] = {}
    BY <1>1 DEF Inv, Rows
  <2>2. Consistent(row, <<>>, {})
    BY <1>3 DEF Consistent
  <2>3. ASSUME NEW q \in Projects
        PROVE  IF Exists(q)' THEN Consistent(project'[q], version[q], rejected[q])
               ELSE version[q] = <<>> /\ rejected[q] = {}
    <3>1. CASE q = p
      BY <1>2, <1>5, <2>1, <2>2, <3>1 DEF Exists
    <3>2. CASE q # p
      BY <1>5, <3>2 DEF Inv, Rows, Exists
    <3> QED BY <3>1, <3>2
  <2> QED BY <1>1, <2>3 DEF Rows, Consistent, CanReview, Has
<1>7. SubmittedAsSeen'
  BY <1>1, <1>3, <1>5 DEF Inv, SubmittedAsSeen, Exists
<1>8. Exclusive'
  BY <1>1 DEF Inv, Exclusive
<1>9. SessionsOK'
  <2>1. \A w \in Workers : session[w] # Idle => session[w].project \in Projects \ {p}
    BY <1>1, RequestTypes DEF Inv, TypeOK, SessionsOK
  <2> QED BY <1>1, <1>5, <2>1 DEF Inv, SessionsOK, Informed, Exists, CanReview, Has
<1> QED BY <1>4, <1>6, <1>7, <1>8, <1>9 DEF Inv

\* A request that knows its project may be taken.
LEMMA Loaded ==
    ASSUME Inv, NEW w \in Workers, NEW s \in Session, s # Idle, Load(w, s),
           Exists(s.project),
           Informed(s, project[s.project], rejected[s.project], s.project \notin contended)
    PROVE  Inv'
<1>1. /\ session' = [session EXCEPT ![w] = s]
      /\ UNCHANGED <<contended, project, version, rejected>>
  BY DEF Load
<1>2. TypeOK'
  BY <1>1 DEF Inv, TypeOK
<1>3. (Rows /\ SubmittedAsSeen)'
  BY <1>1 DEF Inv, Rows, SubmittedAsSeen, Exists, Consistent, CanReview, Has
<1>4. Exclusive'
  BY <1>1 DEF Inv, TypeOK, Exclusive, Load, CanStart
<1>5. SessionsOK'
  BY <1>1 DEF Inv, TypeOK, SessionsOK, Informed, Exists, CanReview, Has
<1> QED BY <1>2, <1>3, <1>4, <1>5 DEF Inv

LEMMA Aborted ==
    ASSUME Inv, NEW w \in Workers, Abort(w)
    PROVE  Inv'
<1>1. /\ session' = [session EXCEPT ![w] = Idle]
      /\ UNCHANGED <<contended, project, version, rejected>>
  BY DEF Abort, Finish
<1>2. TypeOK'
  BY <1>1 DEF Inv, TypeOK, Session
<1>3. (Rows /\ SubmittedAsSeen)'
  BY <1>1 DEF Inv, Rows, SubmittedAsSeen, Exists, Consistent, CanReview, Has
<1>4. Exclusive'
  BY <1>1 DEF Inv, TypeOK, Exclusive
<1>5. SessionsOK'
  BY <1>1 DEF Inv, TypeOK, SessionsOK, Informed, Exists, CanReview, Has
<1> QED BY <1>2, <1>3, <1>4, <1>5 DEF Inv

-----------------------------------------------------------------------------
\* Commits

\* A commit that changes one project only, leaves it consistent and with the
\* same parties, and takes nothing back.
Sound(p) ==
    LET row == project'[p]
        history == version'[p]
        seen == rejected'[p]
    IN  /\ project' = [project EXCEPT ![p] = row]
        /\ version' = [version EXCEPT ![p] = history]
        /\ rejected' = [rejected EXCEPT ![p] = seen]
        /\ row \in Project /\ history \in Seq(Version) /\ seen \in SUBSET Nat
        /\ row.applicant = project[p].applicant /\ row.reviewer = project[p].reviewer
        /\ project[p].current <= row.current
        /\ rejected[p] \subseteq seen
        /\ Consistent(row, history, seen)
        /\ p \notin contended /\ row.status = "submitted" =>
               history[Len(history)].content = row.content

\* A request that ends with such a commit.
Ends(w) ==
    /\ session[w] # Idle
    /\ Finish(w)
    /\ contended' = contended
    /\ Sound(session[w].project)

\* It keeps every other request informed.
LEMMA Committed ==
    ASSUME Inv, NEW w \in Workers, Ends(w)
    PROVE  Inv'
<1> USE DEF Ends
<1> DEFINE p == session[w].project
           row == project'[p]
           history == version'[p]
           seen == rejected'[p]
<1>1. p \in Projects
  BY RequestTypes DEF Inv, TypeOK
<1>2. /\ project' = [project EXCEPT ![p] = row]
      /\ version' = [version EXCEPT ![p] = history]
      /\ rejected' = [rejected EXCEPT ![p] = seen]
      /\ row \in Project /\ history \in Seq(Version) /\ seen \in SUBSET Nat
      /\ row.applicant = project[p].applicant /\ row.reviewer = project[p].reviewer
      /\ project[p].current <= row.current
      /\ rejected[p] \subseteq seen
      /\ Consistent(row, history, seen)
      /\ p \notin contended /\ row.status = "submitted" =>
             history[Len(history)].content = row.content
  BY DEF Sound
<1>3. p = session[w].project
  OBVIOUS
<1> HIDE DEF p, row, history, seen
<1>4. row # Null
  BY <1>2, ProjectAssumption
<1>5. /\ project \in [Projects -> Project \union {Null}] /\ version \in [Projects -> Seq(Version)]
      /\ rejected \in [Projects -> SUBSET Nat] /\ session \in [Workers -> Session]
  BY DEF Inv, TypeOK
<1>6. /\ project'[p] = row /\ version'[p] = history /\ rejected'[p] = seen
      /\ \A q \in Projects \ {p} :
            project'[q] = project[q] /\ version'[q] = version[q] /\ rejected'[q] = rejected[q]
  BY <1>1, <1>2, <1>5
<1>7. /\ session'[w] = Idle
      /\ \A v \in Workers \ {w} : session'[v] = session[v]
  BY <1>5 DEF Finish
<1>8. TypeOK'
  <2>1. Idle \in Session
    BY DEF Session
  <2>2. session' \in [Workers -> Session]
    BY <1>5, <2>1 DEF Finish
  <2>3. project' \in [Projects -> Project \union {Null}]
    BY <1>2, <1>5
  <2>4. version' \in [Projects -> Seq(Version)] /\ rejected' \in [Projects -> SUBSET Nat]
    BY <1>2, <1>5
  <2> QED BY <2>2, <2>3, <2>4 DEF Inv, TypeOK
<1>9. Rows'
  <2> SUFFICES ASSUME NEW q \in Projects
               PROVE  IF project'[q] # Null
                      THEN Consistent(project'[q], version'[q], rejected'[q])
                      ELSE version'[q] = <<>> /\ rejected'[q] = {}
    BY DEF Rows, Exists, Consistent, CanReview, Has
  <2>1. CASE q = p
    BY <1>2, <1>4, <1>6, <2>1
  <2>2. CASE q # p
    BY <1>6, <2>2 DEF Inv, Rows, Exists
  <2> QED BY <2>1, <2>2
<1>10. SubmittedAsSeen'
  <2> SUFFICES ASSUME NEW q \in Projects \ contended, project'[q] # Null,
                      project'[q].status = "submitted"
               PROVE  version'[q][Len(version'[q])].content = project'[q].content
    BY DEF SubmittedAsSeen, Exists
  <2>1. CASE q = p
    BY <1>2, <1>6, <2>1
  <2>2. CASE q # p
    BY <1>6, <2>2 DEF Inv, SubmittedAsSeen, Exists
  <2> QED BY <2>1, <2>2
<1>11. Exclusive'
  BY <1>7 DEF Inv, Exclusive
<1>12. SessionsOK'
  <2> SUFFICES ASSUME NEW v \in Workers, session'[v] # Idle
               PROVE  /\ project'[session'[v].project] # Null
                      /\ Informed(session'[v], project'[session'[v].project],
                                  rejected'[session'[v].project],
                                  session'[v].project \notin contended)
    BY DEF SessionsOK, Exists, Informed, CanReview, Has
  <2> DEFINE s == session[v]
             q == s.project
  <2>1. v # w /\ session'[v] = s /\ s # Idle
    BY <1>7
  <2>2. s \in Session /\ q \in Projects /\ s.row.current \in Nat
    BY <1>5, <2>1, RequestTypes
  <2>3. /\ project[q] # Null
        /\ Informed(s, project[q], rejected[q], q \notin contended)
    BY <2>1 DEF Inv, SessionsOK, Exists
  <2>4. CASE q # p
    BY <1>6, <2>1, <2>2, <2>3, <2>4
  <2>5. CASE q = p
    <3>1. q \in contended
      BY <1>3, <2>1, <2>5 DEF Inv, Exclusive
    <3>2. project[p].current \in Nat /\ row.current \in Nat
      <4>1. project[p] \in Project
        BY <1>5, <2>3, <2>5, <2>2
      <4> QED BY <1>2, <4>1 DEF Project
    <3>3. Informed(s, row, seen, FALSE)
      BY <1>2, <2>2, <2>3, <2>5, <3>2 DEF Informed
    <3> HIDE DEF s
    <3>4. Informed(s, row, seen, q \notin contended)
      BY <3>1, <3>3 DEF Informed
    <3> QED BY <1>4, <1>6, <2>1, <2>5, <3>4
  <2> QED BY <2>4, <2>5
<1> QED BY <1>8, <1>9, <1>10, <1>11, <1>12 DEF Inv

\* What a request has loaded, and what holds of its project.
LEMMA AtCommit ==
    ASSUME Inv, NEW w \in Workers, session[w] # Idle
    PROVE  LET s == session[w]
               p == s.project
           IN  /\ s \in Session /\ p \in Projects /\ s.row \in Project
               /\ s.row.current \in Nat /\ s.row.content \in Content
               /\ s.step = "edit" => s.edit \in Edit
               /\ s.step # "edit" => s.actor \in Users
               /\ Exists(p)
               /\ Informed(s, project[p], rejected[p], p \notin contended)
               /\ Consistent(project[p], version[p], rejected[p])
               /\ project[p] \in Project
               /\ version[p] \in Seq(Version)
               /\ rejected[p] \in SUBSET Nat
<1> DEFINE s == session[w]
           p == s.project
<1>1. s \in Session
  BY DEF Inv, TypeOK
<1>2. /\ p \in Projects /\ s.row \in Project
      /\ s.row.current \in Nat /\ s.row.content \in Content
      /\ s.step = "edit" => s.edit \in Edit
      /\ s.step # "edit" => s.actor \in Users
  BY <1>1, RequestTypes
<1>3. Exists(p) /\ Informed(s, project[p], rejected[p], p \notin contended)
  BY DEF Inv, SessionsOK
<1>4. Consistent(project[p], version[p], rejected[p])
  BY <1>2, <1>3 DEF Inv, Rows
<1>5. project[p] \in Project /\ version[p] \in Seq(Version) /\ rejected[p] \in SUBSET Nat
  BY <1>2, <1>3, RowTypes DEF Inv
<1> QED BY <1>1, <1>2, <1>3, <1>4, <1>5

LEMMA Edited ==
    ASSUME Inv, NEW w \in Workers, EditCommit(w)
    PROVE  Ends(w)
<1> DEFINE s == session[w]
           p == s.project
           row == project'[p]
<1>1. s.step = "edit" /\ s # Idle /\ Finish(w)
  BY DEF EditCommit, Idle
<1>2. UNCHANGED <<contended, version, rejected>>
  BY DEF EditCommit
<1>3. /\ p \in Projects /\ s.row.content \in Content /\ s.edit \in Edit
      /\ project[p] \in Project /\ version[p] \in Seq(Version) /\ rejected[p] \in SUBSET Nat
      /\ s.row.status \in {"draft", "rejected"}
      /\ p \notin contended => s.row = project[p]
      /\ Consistent(project[p], version[p], rejected[p])
  BY <1>1, AtCommit DEF Informed
<1> DEFINE edited(f, current) ==
             IF s.edit[f] = Null THEN current ELSE Written(s.row.content[f], s.edit[f], current)
           content == [f \in Fields |-> edited(f, project[p].content[f])]
<1>4. /\ project \in [Projects -> Project \union {Null}]
      /\ project' = [project EXCEPT ![p].content = [f \in Fields |-> edited(f, @[f])]]
  BY Zenon DEF EditCommit, Inv, TypeOK
<1>5. project[p].content \in Content
  BY <1>3 DEF Project
<1>6. content \in Content
  BY <1>3, <1>5 DEF Content, Edit, Written
<1>7. project' = [project EXCEPT ![p] = [project[p] EXCEPT !.content = content]]
  BY <1>4
<1> HIDE DEF content
<1>8. row = [project[p] EXCEPT !.content = content] /\ project' = [project EXCEPT ![p] = row]
  BY <1>3, <1>4, <1>7
<1>9. /\ row \in Project
      /\ row.applicant = project[p].applicant /\ row.reviewer = project[p].reviewer
      /\ row.current = project[p].current /\ row.status = project[p].status
      /\ row.reviewed_by = project[p].reviewed_by
  BY <1>3, <1>6, <1>8 DEF Project
<1> HIDE DEF row
<1>10. Consistent(row, version[p], rejected[p])
  BY <1>3, <1>9 DEF Consistent, CanReview
<1>11. version' = [version EXCEPT ![p] = version[p]] /\ rejected' = [rejected EXCEPT ![p] = rejected[p]]
  BY <1>2, <1>3 DEF Inv, TypeOK
<1>12. project[p].current <= row.current
  BY <1>3, <1>9 DEF Project
<1>13. p \notin contended => row.status # "submitted"
  BY <1>3, <1>9
<1> HIDE DEF s, p
<1>14. Sound(p)
  <2>1. version'[p] = version[p] /\ rejected'[p] = rejected[p]
    BY <1>2
  <2> QED BY <1>3, <1>8, <1>9, <1>10, <1>11, <1>12, <1>13, <2>1 DEF Sound, row
<1> QED BY <1>1, <1>2, <1>14 DEF Ends, s, p

LEMMA Rejected ==
    ASSUME Inv, NEW w \in Workers, RejectCommit(w)
    PROVE  Ends(w)
<1> DEFINE s == session[w]
           p == s.project
           row == project'[p]
           seen == rejected[p] \union {project[p].current}
<1>1. s.step = "reject" /\ s # Idle /\ Finish(w)
  BY DEF RejectCommit, Idle
<1>2. UNCHANGED <<contended, version>>
  BY DEF RejectCommit
<1>3. /\ p \in Projects /\ s.row.current \in Nat /\ s.actor \in Users
      /\ project[p] \in Project /\ version[p] \in Seq(Version) /\ rejected[p] \in SUBSET Nat
      /\ s.row.current > 0 /\ s.row.current <= project[p].current
      /\ CanReview(s.actor, s.row)
      /\ s.row.applicant = project[p].applicant /\ s.row.reviewer = project[p].reviewer
      /\ Consistent(project[p], version[p], rejected[p])
  BY <1>1, AtCommit DEF Informed
<1>4. /\ project \in [Projects -> Project \union {Null}]
      /\ project' = [project EXCEPT ![p].status = "rejected", ![p].reviewed_by = s.actor]
      /\ rejected' = [rejected EXCEPT ![p] = seen]
  BY <1>3 DEF RejectCommit, Inv, TypeOK
<1>5. /\ row = [project[p] EXCEPT !.status = "rejected", !.reviewed_by = s.actor]
      /\ project' = [project EXCEPT ![p] = row]
  BY <1>3, <1>4
<1>6. /\ row \in Project
      /\ row.applicant = project[p].applicant /\ row.reviewer = project[p].reviewer
      /\ row.current = project[p].current /\ row.status = "rejected"
      /\ row.reviewed_by = s.actor
  BY <1>3, <1>5 DEF Project, Status
<1>7. project[p].current \in Nat /\ project[p].current > 0
  <2>1. project[p].current \in Nat
    BY <1>3 DEF Project
  <2> QED BY <1>3, <2>1
<1>8. s.actor # Null
  BY <1>3, ProjectAssumption
<1> HIDE DEF row
<1>9. Consistent(row, version[p], seen)
  BY <1>3, <1>6, <1>7, <1>8 DEF Consistent, CanReview
<1>10. version' = [version EXCEPT ![p] = version[p]]
  BY <1>2, <1>3 DEF Inv, TypeOK
<1>11. seen \in SUBSET Nat /\ rejected[p] \subseteq seen /\ project[p].current <= row.current
  BY <1>3, <1>6, <1>7
<1> HIDE DEF seen
<1>12. p \notin contended => row.status # "submitted"
  BY <1>6
<1> HIDE DEF s, p
<1>13. Sound(p)
  <2>1. version'[p] = version[p] /\ rejected'[p] = seen
    BY <1>2, <1>3, <1>4 DEF Inv, TypeOK
  <2> QED BY <1>3, <1>4, <1>5, <1>6, <1>9, <1>10, <1>11, <1>12, <2>1 DEF Sound, row
<1> QED BY <1>1, <1>2, <1>13 DEF Ends, s, p

LEMMA Deactivated ==
    ASSUME Inv, NEW w \in Workers, DeactivateCommit(w)
    PROVE  Ends(w)
<1> DEFINE s == session[w]
           p == s.project
           row == project'[p]
           active == Written(s.row.active, FALSE, project[p].active)
<1>1. s.step = "deactivate" /\ s # Idle /\ Finish(w)
  BY DEF DeactivateCommit, Idle
<1>2. UNCHANGED <<contended, version, rejected>>
  BY DEF DeactivateCommit
<1>3. /\ p \in Projects
      /\ project[p] \in Project /\ version[p] \in Seq(Version) /\ rejected[p] \in SUBSET Nat
      /\ Consistent(project[p], version[p], rejected[p])
  BY <1>1, AtCommit
<1>4. /\ project \in [Projects -> Project \union {Null}]
      /\ project' = [project EXCEPT ![p].status = "deactivated", ![p].active = active]
  BY <1>3 DEF DeactivateCommit, Inv, TypeOK
<1>5. active \in BOOLEAN
  BY <1>3 DEF Written, Project
<1> HIDE DEF active
<1>6. /\ row = [project[p] EXCEPT !.status = "deactivated", !.active = active]
      /\ project' = [project EXCEPT ![p] = row]
  BY <1>3, <1>4
<1>7. /\ row \in Project
      /\ row.applicant = project[p].applicant /\ row.reviewer = project[p].reviewer
      /\ row.current = project[p].current /\ row.status = "deactivated"
      /\ row.reviewed_by = project[p].reviewed_by
  BY <1>3, <1>5, <1>6 DEF Project, Status
<1> HIDE DEF row
<1>8. Consistent(row, version[p], rejected[p])
  BY <1>3, <1>7 DEF Consistent
<1>9. version' = [version EXCEPT ![p] = version[p]] /\ rejected' = [rejected EXCEPT ![p] = rejected[p]]
  BY <1>2, <1>3 DEF Inv, TypeOK
<1>10. project[p].current <= row.current
  BY <1>3, <1>7 DEF Project
<1>11. p \notin contended => row.status # "submitted"
  BY <1>7
<1> HIDE DEF s, p
<1>12. Sound(p)
  <2>1. version'[p] = version[p] /\ rejected'[p] = rejected[p]
    BY <1>2
  <2> QED BY <1>3, <1>6, <1>7, <1>8, <1>9, <1>10, <1>11, <2>1 DEF Sound, row
<1> QED BY <1>1, <1>2, <1>12 DEF Ends, s, p

LEMMA Submitted ==
    ASSUME Inv, NEW w \in Workers, SubmitCommit(w)
    PROVE  Ends(w)
<1> DEFINE s == session[w]
           p == s.project
           row == project'[p]
           number == s.row.current + 1
           new == NewVersion(p, number, s.row, s.actor)
           history == Append(version[p], new)
           review == Written(s.row.reviewed_by, Null, project[p].reviewed_by)
<1>1. s.step = "submit" /\ s # Idle /\ Finish(w) /\ Unique(p, number)
  BY DEF SubmitCommit, Idle
<1>2. UNCHANGED <<contended, rejected>>
  BY DEF SubmitCommit
<1>3. /\ p \in Projects /\ s.row \in Project /\ s.row.current \in Nat /\ s.actor \in Users
      /\ s.row.content \in Content
      /\ project[p] \in Project /\ version[p] \in Seq(Version) /\ rejected[p] \in SUBSET Nat
      /\ s.row.current <= project[p].current
      /\ s.row.status \in {"draft", "rejected"}
      /\ s.row.status = "draft" => s.row.current = 0
      /\ s.row.status = "rejected" => s.row.current \in rejected[p] /\ s.row.reviewed_by # Null
      /\ p \notin contended => s.row = project[p]
      /\ Consistent(project[p], version[p], rejected[p])
  BY <1>1, AtCommit DEF Informed
<1>4. /\ project[p].current \in Nat /\ Len(version[p]) = project[p].current
      /\ DOMAIN version[p] = 1..Len(version[p])
      /\ \A i \in DOMAIN version[p] : version[p][i].number = i
      /\ project[p].current = 0 => project[p].reviewed_by = Null
      /\ \A n \in 1..project[p].current - 1 : n \in rejected[p]
  BY <1>3 DEF Consistent, Project
\* Nobody submitted since the row was loaded.
<1>5. s.row.current = project[p].current /\ number = Len(version[p]) + 1
  <2>1. number \notin 1..Len(version[p])
    BY <1>1, <1>4 DEF Unique
  <2> QED BY <1>3, <1>4, <2>1
<1>6. review = Null
  BY <1>3, <1>4, <1>5 DEF Written
<1>7. /\ project \in [Projects -> Project \union {Null}] /\ version \in [Projects -> Seq(Version)]
      /\ project' = [project EXCEPT ![p].current = number,
                                    ![p].status = "submitted", ![p].reviewed_by = review]
      /\ version' = [version EXCEPT ![p] = history]
  BY <1>3 DEF SubmitCommit, Inv, TypeOK
<1>8. /\ row = [project[p] EXCEPT !.current = number,
                                 !.status = "submitted", !.reviewed_by = review]
      /\ project' = [project EXCEPT ![p] = row]
  <2> HIDE DEF review, number
  <2> QED BY <1>3, <1>7
<1>9. number \in Nat /\ number > 0
  BY <1>3
<1>10. /\ row \in Project
       /\ row.applicant = project[p].applicant /\ row.reviewer = project[p].reviewer
       /\ row.current = number /\ row.status = "submitted" /\ row.reviewed_by = Null
       /\ row.content = project[p].content
  <2> HIDE DEF review, number, row
  <2> QED BY <1>3, <1>6, <1>8, <1>9 DEF Project, Status
<1>11. /\ new \in Version /\ new.number = number /\ new.content = s.row.content
       /\ version[p] # <<>> => new.changed = Diff(version[p][Len(version[p])], new)
  <2>1. s.row.status \in Status
    BY <1>3 DEF Project
  <2>2. version[p] # <<>> => Previous(p) = version[p][Len(version[p])]
    BY <1>3, <1>4, PreviousIsLast
  <2> HIDE DEF s, number, p
  <2> QED BY <1>3, <1>9, <2>1, <2>2 DEF NewVersion, Version, Diff
<1> HIDE DEF new, row
<1>12. /\ history \in Seq(Version) /\ Len(history) = number
       /\ DOMAIN history = 1..number
       /\ \A i \in DOMAIN version[p] : history[i] = version[p][i]
       /\ history[number] = new
  BY <1>3, <1>4, <1>5, <1>11
<1> HIDE DEF history
<1>13. Consistent(row, history, rejected[p])
  <2>1. ASSUME NEW i \in DOMAIN history
        PROVE  /\ history[i].number = i
               /\ i > 1 => history[i].changed = Diff(history[i - 1], history[i])
    <3>1. CASE i = number
      <4>1. i > 1 => version[p] # <<>> /\ i - 1 = Len(version[p]) /\ i - 1 \in DOMAIN version[p]
        BY <1>4, <1>5, <3>1
      <4>2. history[i] = new
        BY <1>12, <3>1
      <4>3. i > 1 => history[i - 1] = version[p][Len(version[p])]
        BY <1>12, <4>1
      <4> QED BY <1>11, <3>1, <4>1, <4>2, <4>3
    <3>2. CASE i # number
      <4>1. i \in DOMAIN version[p] /\ (i > 1 => i - 1 \in DOMAIN version[p])
        BY <1>4, <1>5, <1>9, <1>12, <3>2
      <4> QED BY <1>3, <1>12, <4>1 DEF Consistent
    <3> QED BY <3>1, <3>2
  <2>2. \A n \in 1..row.current - 1 : n \in rejected[p]
    BY <1>3, <1>4, <1>5, <1>10
  <2> QED BY <1>9, <1>10, <1>12, <2>1, <2>2 DEF Consistent
<1>14. rejected' = [rejected EXCEPT ![p] = rejected[p]]
  BY <1>2, <1>3 DEF Inv, TypeOK
<1>15. project[p].current <= row.current
  BY <1>4, <1>5, <1>10
<1>16. p \notin contended => history[Len(history)].content = row.content
  BY <1>3, <1>10, <1>11, <1>12
<1> HIDE DEF s, number, p
<1>17. Sound(p)
  <2>1. version'[p] = history /\ rejected'[p] = rejected[p]
    BY <1>2, <1>3, <1>7
  <2> QED BY <1>3, <1>7, <1>8, <1>10, <1>12, <1>13, <1>14, <1>15, <1>16, <2>1 DEF Sound, row
<1> QED BY <1>1, <1>2, <1>17 DEF Ends, s, p

-----------------------------------------------------------------------------
\* The inductive invariant

LEMMA RequestLoaded ==
    ASSUME Inv, NEW w \in Workers, NEW u \in Users, NEW p \in Projects,
           SubmitLoad(w, u, p) \/ ResubmitLoad(w, u, p) \/ RejectLoad(w, u, p) \/ DeactivateLoad(w, u, p)
    PROVE  Inv'
<1>1. PICK step \in {"submit", "reject", "deactivate"} :
         /\ Exists(p) /\ Load(w, Request(step, p, u))
         /\ step = "submit" => project[p].status \in {"draft", "rejected"}
         /\ step = "reject" => project[p].status = "submitted" /\ CanReview(u, project[p])
         /\ step = "deactivate" => project[p].status # "deactivated"
  BY DEF SubmitLoad, ResubmitLoad, RejectLoad, DeactivateLoad
<1> DEFINE s == Request(step, p, u)
<1>2. project[p] \in Project /\ project[p].current \in Nat
  BY <1>1, RowTypes DEF Inv
<1>3. /\ s \in Session /\ s # Idle /\ s.project = p /\ s.row = project[p]
      /\ s.step = step /\ s.actor = u
  BY <1>1, <1>2 DEF Request, Session, Idle
<1>4. Consistent(project[p], version[p], rejected[p])
  BY <1>1 DEF Inv, Rows
<1> HIDE DEF s
<1>5. Informed(s, project[p], rejected[p], p \notin contended)
  BY <1>1, <1>2, <1>3, <1>4 DEF Informed, Consistent
<1> QED BY <1>1, <1>3, <1>5, Loaded DEF s

LEMMA EditLoaded ==
    ASSUME Inv, NEW w \in Workers, NEW u \in Users, NEW p \in Projects, NEW edit \in Edit,
           EditLoad(w, u, p, edit)
    PROVE  Inv'
<1> DEFINE s == [step |-> "edit", project |-> p, row |-> project[p], edit |-> edit]
<1>1. Exists(p) /\ Load(w, s) /\ project[p].status \in {"draft", "rejected"}
  BY DEF EditLoad
<1>2. project[p] \in Project /\ project[p].current \in Nat
  BY <1>1, RowTypes DEF Inv
<1>3. s \in Session /\ s # Idle /\ s.project = p /\ s.row = project[p] /\ s.step = "edit"
  BY <1>1, <1>2 DEF Session, Idle
<1> HIDE DEF s
<1>4. Informed(s, project[p], rejected[p], p \notin contended)
  BY <1>1, <1>2, <1>3 DEF Informed
<1> QED BY <1>1, <1>3, <1>4, Loaded

LEMMA Stuttered ==
    ASSUME Inv, UNCHANGED vars
    PROVE  Inv'
<1>1. (TypeOK /\ Rows /\ SubmittedAsSeen)'
  BY DEF vars, Inv, TypeOK, Rows, SubmittedAsSeen, Exists, Consistent, CanReview, Has
<1>2. (Exclusive /\ SessionsOK)'
  BY DEF vars, Inv, Exclusive, SessionsOK, Informed, Exists, CanReview, Has
<1> QED BY <1>1, <1>2 DEF Inv

LEMMA Invariance == Inv /\ [Next]_vars => Inv'
<1> SUFFICES ASSUME Inv, [Next]_vars PROVE Inv'
  OBVIOUS
<1>1. ASSUME NEW u \in Users, NEW p \in Projects, NEW reviewer \in Users \union {Null},
             NEW content \in Content, CreateProject(u, p, reviewer, content)
      PROVE  Inv'
  BY <1>1, Created
<1>2. ASSUME NEW w \in Workers, NEW u \in Users, NEW p \in Projects, NEW edit \in Edit,
             EditLoad(w, u, p, edit)
      PROVE  Inv'
  BY <1>2, EditLoaded
<1>3. ASSUME NEW w \in Workers, NEW u \in Users, NEW p \in Projects,
             SubmitLoad(w, u, p) \/ ResubmitLoad(w, u, p) \/ RejectLoad(w, u, p)
                 \/ DeactivateLoad(w, u, p)
      PROVE  Inv'
  BY <1>3, RequestLoaded
<1>4. ASSUME NEW w \in Workers, EditCommit(w) PROVE Inv'
  BY <1>4, Edited, Committed
<1>5. ASSUME NEW w \in Workers, SubmitCommit(w) PROVE Inv'
  BY <1>5, Submitted, Committed
<1>6. ASSUME NEW w \in Workers, RejectCommit(w) PROVE Inv'
  BY <1>6, Rejected, Committed
<1>7. ASSUME NEW w \in Workers, DeactivateCommit(w) PROVE Inv'
  BY <1>7, Deactivated, Committed
<1>8. ASSUME NEW w \in Workers, Abort(w) PROVE Inv'
  BY <1>8, Aborted
<1>9. CASE UNCHANGED vars
  BY <1>9, Stuttered
<1> QED BY <1>1, <1>2, <1>3, <1>4, <1>5, <1>6, <1>7, <1>8, <1>9 DEF Next

LEMMA Invariant == Spec => []Inv
  BY Initial, Invariance, PTL DEF Spec

-----------------------------------------------------------------------------
\* Theorems

\* The tables and the requests have their types.
THEOREM TypeCorrect == Spec => []TypeOK
<1>1. Inv => TypeOK
  BY DEF Inv
<1> QED BY <1>1, Invariant, PTL

\* Overlapping submissions cannot break the numbering of versions or make a
\* diff against the wrong one.
THEOREM HistoryChainedHolds == Spec => []HistoryChained
<1>1. Inv => HistoryChained
  <2> SUFFICES ASSUME Inv, NEW p \in Projects
               PROVE  /\ Exists(p) => project[p].current = Len(version[p])
                      /\ \A i \in DOMAIN version[p] :
                            /\ version[p][i].number = i
                            /\ i > 1 => version[p][i].changed = Diff(version[p][i - 1], version[p][i])
    BY DEF HistoryChained
  <2>1. CASE Exists(p)
    BY <2>1 DEF Inv, Rows, Consistent
  <2>2. CASE ~Exists(p)
    BY <2>2 DEF Inv, Rows
  <2> QED BY <2>1, <2>2
<1> QED BY <1>1, Invariant, PTL

\* Overlapping reviews and submissions never leave a rejection on a project
\* under review, or a rejected project without a reviewer who was entitled.
THEOREM ReviewRecordedHolds == Spec => []ReviewRecorded
<1>1. Inv => ReviewRecorded
  BY DEF Inv, Rows, Consistent, ReviewRecorded
<1> QED BY <1>1, Invariant, PTL

\* However requests overlap, no version follows another without a rejection.
THEOREM RevisedOnRejectionHolds == Spec => []RevisedOnRejection
<1>1. Inv => RevisedOnRejection
  BY DEF Inv, Rows, Consistent, RevisedOnRejection
<1> QED BY <1>1, Invariant, PTL

\* With one request at a time, a reviewer reads what was submitted.
THEOREM SubmittedAsSeenHolds == Spec => []SubmittedAsSeen
<1>1. Inv => SubmittedAsSeen
  BY DEF Inv
<1> QED BY <1>1, Invariant, PTL

\* What deactivation means for a project with one request at a time.
Over ==
    \A p \in Projects \ contended :
        Exists(p) /\ project[p].status = "deactivated" =>
            project'[p] = project[p] /\ version'[p] = version[p]

\* No request of a deactivated project is in flight.
LEMMA StaysOver == Inv /\ [Next]_vars => Over
<1> SUFFICES ASSUME Inv, [Next]_vars, NEW p \in Projects \ contended, Exists(p),
                    project[p].status = "deactivated"
             PROVE  project'[p] = project[p] /\ version'[p] = version[p]
  BY DEF Over
<1>1. \A w \in Workers : session[w] # Idle => session[w].project # p
  <2> SUFFICES ASSUME NEW w \in Workers, session[w] # Idle, session[w].project = p PROVE FALSE
    OBVIOUS
  <2>1. session[w] \in Session /\ Informed(session[w], project[p], rejected[p], TRUE)
    BY DEF Inv, TypeOK, SessionsOK
  <2> QED BY <2>1 DEF Session, Informed, Idle
<1>2. project \in [Projects -> Project \union {Null}] /\ version \in [Projects -> Seq(Version)]
  BY DEF Inv, TypeOK
<1>3. ASSUME NEW w \in Workers,
             EditCommit(w) \/ SubmitCommit(w) \/ RejectCommit(w) \/ DeactivateCommit(w)
      PROVE  project'[p] = project[p] /\ version'[p] = version[p]
  <2>1. session[w].project # p
    <3>1. session[w].step \in {"edit", "submit", "reject", "deactivate"}
      BY <1>3 DEF EditCommit, SubmitCommit, RejectCommit, DeactivateCommit
    <3> QED BY <1>1, <3>1 DEF Idle
  <2>2. CASE EditCommit(w)
    BY <1>2, <2>1, <2>2 DEF EditCommit
  <2>3. CASE SubmitCommit(w)
    BY <1>2, <2>1, <2>3 DEF SubmitCommit
  <2>4. CASE RejectCommit(w)
    BY <1>2, <2>1, <2>4 DEF RejectCommit
  <2>5. CASE DeactivateCommit(w)
    BY <1>2, <2>1, <2>5 DEF DeactivateCommit
  <2> QED BY <1>3, <2>2, <2>3, <2>4, <2>5
<1>4. ASSUME NEW u \in Users, NEW q \in Projects, NEW reviewer \in Users \union {Null},
             NEW content \in Content, CreateProject(u, q, reviewer, content)
      PROVE  project'[p] = project[p] /\ version'[p] = version[p]
  <2>1. q # p
    BY <1>4 DEF CreateProject
  <2> QED BY <1>2, <1>4, <2>1 DEF CreateProject
<1>5. CASE \E w \in Workers :
              \/ \E u \in Users, q \in Projects :
                    \/ \E edit \in Edit : EditLoad(w, u, q, edit)
                    \/ SubmitLoad(w, u, q)
                    \/ ResubmitLoad(w, u, q)
                    \/ RejectLoad(w, u, q)
                    \/ DeactivateLoad(w, u, q)
              \/ Abort(w)
  BY <1>5 DEF EditLoad, SubmitLoad, ResubmitLoad, RejectLoad, DeactivateLoad, Load, Abort
<1>6. CASE UNCHANGED vars
  BY <1>6 DEF vars
<1> QED BY <1>3, <1>4, <1>5, <1>6 DEF Next

\* A project with one request at a time is over once it is deactivated.
THEOREM DeactivatedStaysHolds == Spec => DeactivatedStays
<1>1. Inv /\ [Next]_vars => [Over]_vars
  BY StaysOver
<1>2. Spec => [][Over]_vars
  BY <1>1, Invariant, PTL DEF Spec
<1> QED BY <1>2 DEF DeactivatedStays, Over

-----------------------------------------------------------------------------
\* Refinement

\* What the process sees of the tables.
ProcessVars == <<Phase, Draft, Submissions, Verdict>>

ProcessStep == Process!Next \/ UNCHANGED ProcessVars

LEMMA NotShown ==
    ASSUME UNCHANGED <<contended, project, version>>
    PROVE  UNCHANGED ProcessVars
  BY DEF ProcessVars, Phase, Draft, Submissions, Verdict, Promised, Exists

\* What is shown of a project with one request at a time.
LEMMA Shown ==
    ASSUME NEW p \in Projects, Promised(p)
    PROVE  /\ Phase[p] = project[p].status
           /\ Draft[p] = project[p].content
           /\ Submissions[p] = Contents(version[p])
           /\ Verdict[p] = project[p].reviewed_by
  BY DEF Phase, Draft, Submissions, Verdict

\* A change of one project is shown of that project, or not at all.
LEMMA ChangeShown ==
    ASSUME NEW p \in Projects, contended' = contended, project'[p] # Null,
           \A q \in Projects \ {p} : project'[q] = project[q] /\ version'[q] = version[q]
    PROVE  /\ p \in contended => UNCHANGED ProcessVars
           /\ p \notin contended =>
                 /\ Phase' = [Phase EXCEPT ![p] = project'[p].status]
                 /\ Draft' = [Draft EXCEPT ![p] = project'[p].content]
                 /\ Submissions' = [Submissions EXCEPT ![p] = Contents(version'[p])]
                 /\ Verdict' = [Verdict EXCEPT ![p] = project'[p].reviewed_by]
<1>1. \A q \in Projects \ {p} :
         /\ Promised(q)' <=> Promised(q)
         /\ Contents(version'[q]) = Contents(version[q])
  BY DEF Promised, Exists
<1>2. CASE p \in contended
  <2>1. ~Promised(p) /\ ~Promised(p)'
    BY <1>2 DEF Promised
  <2>2. Phase' = Phase /\ Draft' = Draft
    BY <1>1, <2>1 DEF Phase, Draft
  <2>3. Submissions' = Submissions /\ Verdict' = Verdict
    BY <1>1, <2>1 DEF Submissions, Verdict, Contents
  <2> QED BY <1>2, <2>2, <2>3 DEF ProcessVars
<1>3. CASE p \notin contended
  <2>1. Promised(p)'
    BY <1>3 DEF Promised, Exists
  <2>2. Phase' = [Phase EXCEPT ![p] = project'[p].status]
    BY <1>1, <2>1 DEF Phase
  <2>3. Draft' = [Draft EXCEPT ![p] = project'[p].content]
    BY <1>1, <2>1 DEF Draft
  <2>4. Submissions' = [Submissions EXCEPT ![p] = Contents(version'[p])]
    BY <1>1, <2>1 DEF Submissions, Contents
  <2>5. Verdict' = [Verdict EXCEPT ![p] = project'[p].reviewed_by]
    BY <1>1, <2>1 DEF Verdict
  <2> QED BY <1>3, <2>2, <2>3, <2>4, <2>5
<1> QED BY <1>2, <1>3

\* What is shown of a commit, and what it knows of a project that is shown.
LEMMA CommitShown ==
    ASSUME Inv, NEW w \in Workers, Ends(w), NEW p, p = session[w].project
    PROVE  /\ p \in Projects
           /\ project[p] \in Project /\ version[p] \in Seq(Version) /\ project'[p] \in Project
           /\ p \in contended => UNCHANGED ProcessVars
           /\ p \notin contended =>
                 /\ Phase' = [Phase EXCEPT ![p] = project'[p].status]
                 /\ Draft' = [Draft EXCEPT ![p] = project'[p].content]
                 /\ Submissions' = [Submissions EXCEPT ![p] = Contents(version'[p])]
                 /\ Verdict' = [Verdict EXCEPT ![p] = project'[p].reviewed_by]
                 /\ Promised(p)
                 /\ session[w].row = project[p]
                 /\ Informed(session[w], project[p], rejected[p], TRUE)
<1>1. session[w] # Idle /\ contended' = contended /\ Sound(p)
  BY DEF Ends
<1>2. /\ p \in Projects /\ Exists(p)
      /\ project[p] \in Project /\ version[p] \in Seq(Version)
      /\ Informed(session[w], project[p], rejected[p], p \notin contended)
  BY <1>1, AtCommit
<1>3. project'[p] \in Project /\ project'[p] # Null
  BY <1>1, ProjectAssumption DEF Sound
<1>4. \A q \in Projects \ {p} : project'[q] = project[q] /\ version'[q] = version[q]
  BY <1>1 DEF Sound, Inv, TypeOK
<1>5. p \notin contended =>
         /\ Promised(p)
         /\ session[w].row = project[p]
         /\ Informed(session[w], project[p], rejected[p], TRUE)
  BY <1>2 DEF Informed, Promised
<1> QED BY <1>1, <1>2, <1>3, <1>4, <1>5, ChangeShown

\* The text of a new version follows those before it.
LEMMA ContentsAppended ==
    ASSUME NEW history \in Seq(Version), NEW new \in Version
    PROVE  Contents(Append(history, new)) = Append(Contents(history), new.content)
<1> DEFINE n == Len(history)
<1>1. n \in Nat /\ DOMAIN history = 1..n
  OBVIOUS
<1>2. \A i \in 1..n : history[i].content \in Content
  <2>1. \A i \in 1..n : history[i] \in Version
    BY <1>1
  <2> QED BY <2>1 DEF Version
<1>3. Contents(history) \in Seq(Content) /\ Len(Contents(history)) = n
  BY <1>1, <1>2 DEF Contents
<1>4. new.content \in Content
  BY DEF Version
<1>5. /\ DOMAIN Contents(Append(history, new)) = 1..n + 1
      /\ \A i \in 1..n : Contents(Append(history, new))[i] = history[i].content
      /\ Contents(Append(history, new))[n + 1] = new.content
  BY <1>1 DEF Contents
<1>6. \A i \in 1..n : Contents(history)[i] = history[i].content
  BY <1>1 DEF Contents
<1>7. Contents(Append(history, new)) = [i \in 1..n + 1 |-> Contents(Append(history, new))[i]]
  BY <1>1 DEF Contents
<1> HIDE DEF n
<1>8. /\ Append(Contents(history), new.content) = [i \in 1..n + 1 |-> Append(Contents(history), new.content)[i]]
      /\ \A i \in 1..n : Append(Contents(history), new.content)[i] = Contents(history)[i]
      /\ Append(Contents(history), new.content)[n + 1] = new.content
  BY <1>1, <1>3, <1>4
<1>9. \A i \in 1..n + 1 :
         Contents(Append(history, new))[i] = Append(Contents(history), new.content)[i]
  BY <1>1, <1>5, <1>6, <1>8
<1> QED BY <1>7, <1>8, <1>9

\* A new project is one Create, or not shown.
LEMMA CreatedAsPromised ==
    ASSUME Inv, NEW u \in Users, NEW p \in Projects, NEW reviewer \in Users \union {Null},
           NEW content \in Content, CreateProject(u, p, reviewer, content)
    PROVE  ProcessStep
<1> DEFINE row == [applicant |-> u, reviewer |-> reviewer, content |-> content,
                   status |-> "draft", active |-> TRUE, current |-> 0, reviewed_by |-> Null]
<1>1. /\ ~Exists(p) /\ project' = [project EXCEPT ![p] = row]
      /\ UNCHANGED <<contended, version>>
  BY DEF CreateProject
<1>2. row \in Project
  BY DEF Project, Status
<1>3. row.status = "draft" /\ row.content = content /\ row.reviewed_by = Null
  OBVIOUS
<1> HIDE DEF row
<1>4. row # Null
  BY <1>2, ProjectAssumption
<1>5. project'[p] = row /\ \A q \in Projects \ {p} : project'[q] = project[q]
  BY <1>1 DEF Inv, TypeOK
<1>6. CASE p \in contended
  BY <1>1, <1>4, <1>5, <1>6, ChangeShown DEF ProcessStep
<1>7. CASE p \notin contended
  <2>1. /\ Phase' = [Phase EXCEPT ![p] = "draft"]
        /\ Draft' = [Draft EXCEPT ![p] = content]
        /\ Submissions' = [Submissions EXCEPT ![p] = Contents(version[p])]
        /\ Verdict' = [Verdict EXCEPT ![p] = Null]
    BY <1>1, <1>3, <1>4, <1>5, <1>7, ChangeShown
  <2>2. Phase[p] = "none" /\ Submissions[p] = <<>> /\ Verdict[p] = Null
    BY <1>1 DEF Phase, Submissions, Verdict, Promised
  <2>3. Contents(version[p]) = <<>>
    BY <1>1 DEF Inv, Rows, Contents
  <2>4. Submissions' = Submissions
    BY <2>1, <2>2, <2>3 DEF Submissions
  <2>5. Verdict' = Verdict
    BY <2>1, <2>2 DEF Verdict
  <2>6. Process!Create(p, content)
    BY <2>1, <2>2, <2>4, <2>5 DEF Process!Create
  <2> QED BY <2>6 DEF ProcessStep, Process!Next
<1> QED BY <1>6, <1>7

\* An edit is one Edit.
LEMMA EditedAsPromised ==
    ASSUME Inv, NEW w \in Workers, EditCommit(w)
    PROVE  ProcessStep
<1>1. PICK p : p = session[w].project
  OBVIOUS
<1>2. Ends(w) /\ session[w].step = "edit" /\ version' = version
  BY Edited DEF EditCommit
<1>3. /\ project'[p].status = project[p].status
      /\ project'[p].reviewed_by = project[p].reviewed_by
      /\ project'[p].content \in Content
  <2>1. p \in Projects /\ project[p] \in Project /\ project'[p] \in Project
    BY <1>1, <1>2, CommitShown
  <2>2. PICK content : project' = [project EXCEPT ![p].content = content]
    BY <1>1 DEF EditCommit
  <2>3. project'[p] = [project[p] EXCEPT !.content = content]
    BY <2>1, <2>2 DEF Inv, TypeOK
  <2> QED BY <2>1, <2>3 DEF Project
<1>4. CASE p \in contended
  BY <1>1, <1>2, <1>4, CommitShown DEF ProcessStep
<1>5. CASE p \notin contended
  <2>1. /\ Phase' = [Phase EXCEPT ![p] = project[p].status]
        /\ Draft' = [Draft EXCEPT ![p] = project'[p].content]
        /\ Submissions' = [Submissions EXCEPT ![p] = Contents(version[p])]
        /\ Verdict' = [Verdict EXCEPT ![p] = project[p].reviewed_by]
        /\ p \in Projects /\ Promised(p)
        /\ project[p].status \in {"draft", "rejected"}
    BY <1>1, <1>2, <1>3, <1>5, CommitShown DEF Informed
  <2>2. UNCHANGED <<Phase, Submissions, Verdict>>
    <3>1. /\ Phase[p] = project[p].status
          /\ Submissions[p] = Contents(version[p])
          /\ Verdict[p] = project[p].reviewed_by
      BY <2>1, Shown
    <3>2. Phase' = Phase
      BY <2>1, <3>1 DEF Phase
    <3>3. Submissions' = Submissions
      BY <2>1, <3>1 DEF Submissions
    <3>4. Verdict' = Verdict
      BY <2>1, <3>1 DEF Verdict
    <3> QED BY <3>2, <3>3, <3>4
  <2>3. Phase[p] \in {"draft", "rejected"}
    BY <2>1, Shown
  <2>4. Process!Edit(p, project'[p].content)
    BY <2>1, <2>2, <2>3 DEF Process!Edit, Process!Open
  <2> QED BY <1>3, <2>1, <2>4 DEF ProcessStep, Process!Next
<1> QED BY <1>4, <1>5

\* A submission is one Submit of what the draft says.
LEMMA SubmittedAsPromised ==
    ASSUME Inv, NEW w \in Workers, SubmitCommit(w)
    PROVE  ProcessStep
<1> DEFINE s == session[w]
<1>1. PICK p : p = s.project
  OBVIOUS
<1>2. Ends(w) /\ s.step = "submit"
  BY Submitted DEF SubmitCommit
<1>3. CASE p \in contended
  BY <1>1, <1>2, <1>3, CommitShown DEF ProcessStep
<1>4. CASE p \notin contended
  <2>1. /\ p \in Projects /\ Promised(p)
        /\ project[p] \in Project /\ version[p] \in Seq(Version)
        /\ Phase' = [Phase EXCEPT ![p] = project'[p].status]
        /\ Draft' = [Draft EXCEPT ![p] = project'[p].content]
        /\ Submissions' = [Submissions EXCEPT ![p] = Contents(version'[p])]
        /\ Verdict' = [Verdict EXCEPT ![p] = project'[p].reviewed_by]
        /\ s.row = project[p]
        /\ project[p].status \in {"draft", "rejected"}
    BY <1>1, <1>2, <1>4, CommitShown DEF Informed
  <2>2. PICK number, new :
           /\ new = NewVersion(p, number, s.row, s.actor)
           /\ version' = [version EXCEPT ![p] = Append(@, new)]
           /\ project' = [project EXCEPT ![p].current = number,
                                         ![p].status = "submitted",
                                         ![p].reviewed_by = Written(s.row.reviewed_by, Null, @)]
    BY <1>1 DEF SubmitCommit
  <2>3. /\ project'[p].status = "submitted" /\ project'[p].content = project[p].content
        /\ project'[p].reviewed_by = Null
    BY <2>1, <2>2 DEF Inv, TypeOK, Project, Written
  <2>4. version'[p] = Append(version[p], new)
    BY <2>1, <2>2 DEF Inv, TypeOK
  <2>5. new.content = project[p].content
    BY <2>1, <2>2 DEF NewVersion
  <2>6. new \in Version
    <3>1. version'[p] \in Seq(Version)
      BY <1>1, <1>2 DEF Ends, Sound
    <3>2. version'[p][Len(version[p]) + 1] = new /\ Len(version[p]) + 1 \in DOMAIN version'[p]
      BY <2>1, <2>4
    <3> QED BY <3>1, <3>2
  <2>7. Contents(version'[p]) = Append(Submissions[p], Draft[p])
    BY <2>1, <2>4, <2>5, <2>6, Shown, ContentsAppended
  <2>8. Draft' = Draft
    BY <2>1, <2>3, Shown DEF Draft
  <2>9. Process!Submit(p)
    BY <2>1, <2>3, <2>7, <2>8, Shown DEF Process!Submit, Process!Open
  <2> QED BY <2>1, <2>9 DEF ProcessStep, Process!Next
<1> QED BY <1>3, <1>4

\* A rejection is one Reject.
LEMMA RejectedAsPromised ==
    ASSUME Inv, NEW w \in Workers, RejectCommit(w)
    PROVE  ProcessStep
<1> DEFINE s == session[w]
<1>1. PICK p : p = s.project
  OBVIOUS
<1>2. Ends(w) /\ s.step = "reject" /\ version' = version
  BY Rejected DEF RejectCommit
<1>3. CASE p \in contended
  BY <1>1, <1>2, <1>3, CommitShown DEF ProcessStep
<1>4. CASE p \notin contended
  <2>1. /\ p \in Projects /\ Promised(p) /\ project[p] \in Project
        /\ Phase' = [Phase EXCEPT ![p] = project'[p].status]
        /\ Draft' = [Draft EXCEPT ![p] = project'[p].content]
        /\ Submissions' = [Submissions EXCEPT ![p] = Contents(version[p])]
        /\ Verdict' = [Verdict EXCEPT ![p] = project'[p].reviewed_by]
        /\ project[p].status = "submitted"
    BY <1>1, <1>2, <1>4, CommitShown DEF Informed
  <2>2. /\ project'[p].status = "rejected" /\ project'[p].content = project[p].content
        /\ project'[p].reviewed_by = s.actor
    BY <1>1, <2>1 DEF RejectCommit, Inv, TypeOK, Project
  <2>3. s.actor \in Users
    BY <1>2, AtCommit DEF Ends
  <2>4. UNCHANGED <<Draft, Submissions>>
    BY <2>1, <2>2, Shown DEF Draft, Submissions
  <2>5. Process!Reject(p, s.actor)
    BY <2>1, <2>2, <2>4, Shown DEF Process!Reject
  <2> QED BY <2>1, <2>3, <2>5 DEF ProcessStep, Process!Next
<1> QED BY <1>3, <1>4

\* A deactivation is one Deactivate.
LEMMA DeactivatedAsPromised ==
    ASSUME Inv, NEW w \in Workers, DeactivateCommit(w)
    PROVE  ProcessStep
<1> DEFINE s == session[w]
<1>1. PICK p : p = s.project
  OBVIOUS
<1>2. Ends(w) /\ s.step = "deactivate" /\ version' = version
  BY Deactivated DEF DeactivateCommit
<1>3. CASE p \in contended
  BY <1>1, <1>2, <1>3, CommitShown DEF ProcessStep
<1>4. CASE p \notin contended
  <2>1. /\ p \in Projects /\ Promised(p) /\ project[p] \in Project
        /\ Phase' = [Phase EXCEPT ![p] = project'[p].status]
        /\ Draft' = [Draft EXCEPT ![p] = project'[p].content]
        /\ Submissions' = [Submissions EXCEPT ![p] = Contents(version[p])]
        /\ Verdict' = [Verdict EXCEPT ![p] = project'[p].reviewed_by]
        /\ project[p].status # "deactivated"
    BY <1>1, <1>2, <1>4, CommitShown DEF Informed
  <2>2. /\ project'[p].status = "deactivated" /\ project'[p].content = project[p].content
        /\ project'[p].reviewed_by = project[p].reviewed_by
    BY <1>1, <2>1 DEF DeactivateCommit, Inv, TypeOK, Project
  <2>3. UNCHANGED <<Draft, Submissions, Verdict>>
    <3>1. /\ Draft[p] = project[p].content
          /\ Submissions[p] = Contents(version[p])
          /\ Verdict[p] = project[p].reviewed_by
      BY <2>1, Shown
    <3>2. Draft' = Draft
      BY <2>1, <2>2, <3>1 DEF Draft
    <3>3. Submissions' = Submissions
      BY <2>1, <3>1 DEF Submissions
    <3>4. Verdict' = Verdict
      BY <2>1, <2>2, <3>1 DEF Verdict
    <3> QED BY <3>2, <3>3, <3>4
  <2>4. project[p].status # "none"
    BY <2>1 DEF Project, Status
  <2>5. Process!Deactivate(p)
    BY <2>1, <2>2, <2>3, <2>4, Shown DEF Process!Deactivate
  <2> QED BY <2>1, <2>5 DEF ProcessStep, Process!Next
<1> QED BY <1>3, <1>4

\* Every step is a step of the process or not to be seen.
LEMMA StepAsPromised == Inv /\ [Next]_vars => ProcessStep
<1> SUFFICES ASSUME Inv, [Next]_vars PROVE ProcessStep
  OBVIOUS
<1>1. ASSUME NEW u \in Users, NEW p \in Projects, NEW reviewer \in Users \union {Null},
             NEW content \in Content, CreateProject(u, p, reviewer, content)
      PROVE  ProcessStep
  BY <1>1, CreatedAsPromised
<1>2. ASSUME NEW w \in Workers, EditCommit(w) \/ SubmitCommit(w) PROVE ProcessStep
  BY <1>2, EditedAsPromised, SubmittedAsPromised
<1>3. ASSUME NEW w \in Workers, RejectCommit(w) \/ DeactivateCommit(w) PROVE ProcessStep
  BY <1>3, RejectedAsPromised, DeactivatedAsPromised
<1>4. CASE \E w \in Workers :
              \/ \E u \in Users, p \in Projects :
                    \/ \E edit \in Edit : EditLoad(w, u, p, edit)
                    \/ SubmitLoad(w, u, p)
                    \/ ResubmitLoad(w, u, p)
                    \/ RejectLoad(w, u, p)
                    \/ DeactivateLoad(w, u, p)
              \/ Abort(w)
  <2>1. UNCHANGED <<contended, project, version>>
    BY <1>4 DEF EditLoad, SubmitLoad, ResubmitLoad, RejectLoad, DeactivateLoad, Load, Abort
  <2> QED BY <2>1, NotShown DEF ProcessStep
<1>5. CASE UNCHANGED vars
  <2>1. UNCHANGED <<contended, project, version>>
    BY <1>5 DEF vars
  <2> QED BY <2>1, NotShown DEF ProcessStep
<1> QED BY <1>1, <1>2, <1>3, <1>4, <1>5 DEF Next

\* With one request at a time, drafting, submission, review and deactivation
\* are the atomic operations of the process, whatever was read when.
THEOREM Refinement == Spec => ImplementsProcess
<1>1. Init => Process!Init
  <2> SUFFICES ASSUME Init PROVE Process!Init
    OBVIOUS
  <2>1. \A p \in Projects : ~Promised(p)
    BY DEF Init, Promised, Exists
  <2> QED BY <2>1 DEF Process!Init, Phase, Draft, Submissions, Verdict
<1>2. Inv /\ [Next]_vars => [Process!Next]_(Process!vars)
  <2>1. ASSUME UNCHANGED ProcessVars PROVE UNCHANGED Process!vars
    BY <2>1 DEF ProcessVars, Process!vars
  <2> QED BY <2>1, StepAsPromised DEF ProcessStep
<1> QED BY <1>1, <1>2, Invariant, PTL DEF Spec, ImplementsProcess, Process!Spec
=============================================================================
