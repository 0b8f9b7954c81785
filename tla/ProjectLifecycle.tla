-------------------------- MODULE ProjectLifecycle --------------------------
(***************************************************************************)
(* The life of a project: an applicant drafts and submits it, a reviewer   *)
(* rejects it, the applicant revises and submits it again, until somebody  *)
(* deactivates it.  Each submission leaves a numbered version with a diff  *)
(* against the one before.                                                 *)
(*                                                                         *)
(* As in UnitOfWork a request reads rows without locks and writes          *)
(* the columns it changed in one transaction at the end.                   *)
(***************************************************************************)
EXTENDS Integers, Sequences, UnitOfWork

CONSTANTS
    Users,        \* accounts
    Superusers,   \* those with is_superuser
    Permissions,  \* the permission codes of every user
    Projects,     \* project ids
    Fields,       \* the columns an applicant edits
    Values,       \* what such a column may hold
    MaxVersions   \* bound: no more versions of a project

VARIABLES
    contended,  \* the projects that may have several requests in flight, fixed
    project,    \* projects, by id
    version,    \* project_versions of a project, in the order of insertion
    session,    \* what a worker has loaded and is about to do
    rejected    \* audit log: the versions that were current at a "project.reject"

vars == <<contended, project, version, session, rejected>>

Status == {"draft", "submitted", "rejected", "deactivated"}
Content == [Fields -> Values]

\* reviewed_by stands for the rejection reason and the time of review as well,
\* which are written together with it.
Project == [applicant : Users, reviewer : Users \union {Null}, content : Content,
            status : Status, active : BOOLEAN, current : Nat,
            reviewed_by : Users \union {Null}]

ASSUME ProjectAssumption ==
    /\ Superusers \subseteq Users
    /\ Permissions \in [Users -> SUBSET {"own", "review", "manage", "deactivate"}]
    /\ Null \notin Users \union Values \union Project
    /\ MaxVersions \in Nat

\* changed is the diff summary; status and content are the snapshot.
Version == [number : Nat, content : Content, status : Status,
            changed : SUBSET (Fields \union {"status"}), submitted_by : Users]

Edit == [Fields -> Values \union {Null}]

\* row is the projects row the request has loaded.
Idle == [step |-> "idle"]
Session ==
    {Idle}
    \union [step : {"edit"}, project : Projects, row : Project, edit : Edit]
    \union [step : {"submit", "reject", "deactivate"}, project : Projects, row : Project,
            actor : Users]

Init ==
    /\ contended \in SUBSET Projects
    /\ project = [p \in Projects |-> Null]
    /\ version = [p \in Projects |-> <<>>]
    /\ session = [w \in Workers |-> Idle]
    /\ rejected = [p \in Projects |-> {}]

Exists(p) == project[p] # Null

-----------------------------------------------------------------------------
\* Who may do what

Has(u, code) == u \in Superusers \/ code \in Permissions[u]

CanManageOwn(u, row) == u \in Superusers \/ u = row.applicant

MayApply(u, row) ==
    /\ Has(u, "own")
    /\ "manage" \in Permissions[u] \/ CanManageOwn(u, row)

CanReview(u, row) ==
    \/ Has(u, "manage")
    \/ /\ Has(u, "review")
       /\ u # row.applicant
       /\ row.reviewer \in {Null, u}

MayDeactivate(u, row) ==
    /\ Has(u, "deactivate") \/ Has(u, "manage")
    /\ "manage" \in Permissions[u] \/ CanManageOwn(u, row)

-----------------------------------------------------------------------------
\* Sessions of the database

\* The environment: only a contended project has two requests in flight.  The
\* code does not enforce it.
CanStart(w, p) ==
    /\ session[w] = Idle
    /\ \/ p \in contended
       \/ \A v \in Workers \ {w} : session[v] # Idle => session[v].project # p

Load(w, request) ==
    /\ CanStart(w, request.project)
    /\ session' = [session EXCEPT ![w] = request]
    /\ UNCHANGED <<contended, project, version, rejected>>

Finish(w) == session' = [session EXCEPT ![w] = Idle]

Request(step, p, u) == [step |-> step, project |-> p, row |-> project[p], actor |-> u]

-----------------------------------------------------------------------------
\* The applicant's requests

CreateProject(u, p, reviewer, content) ==
    /\ ~Exists(p)
    /\ Has(u, "own")
    /\ project' = [project EXCEPT ![p] =
          [applicant |-> u, reviewer |-> reviewer, content |-> content, status |-> "draft",
           active |-> TRUE, current |-> 0, reviewed_by |-> Null]]
    /\ UNCHANGED <<contended, version, session, rejected>>

\* Mutant: a project under review may be edited.
EditLoadUnderReview(w, u, p, edit) ==
    /\ Exists(p)
    /\ MayApply(u, project[p])
    /\ project[p].status # "deactivated"
    /\ Load(w, [step |-> "edit", project |-> p, row |-> project[p], edit |-> edit])

EditLoad(w, u, p, edit) ==
    /\ Exists(p)
    /\ MayApply(u, project[p])
    /\ project[p].status \in {"draft", "rejected"}
    /\ Load(w, [step |-> "edit", project |-> p, row |-> project[p], edit |-> edit])

EditCommit(w) ==
    LET s == session[w]
        edited(f, current) ==
            IF s.edit[f] = Null THEN current ELSE Written(s.row.content[f], s.edit[f], current)
    IN  /\ s.step = "edit"
        /\ project' = [project EXCEPT ![s.project].content = [f \in Fields |-> edited(f, @[f])]]
        /\ Finish(w)
        /\ UNCHANGED <<contended, version, rejected>>

SubmitLoad(w, u, p) ==
    /\ Exists(p)
    /\ MayApply(u, project[p])
    /\ project[p].status \in {"draft", "rejected"}
    /\ Load(w, Request("submit", p, u))

\* Mutant: a project with a review on it counts as rejected.
ResubmitLoadReviewed(w, u, p) ==
    /\ Exists(p)
    /\ MayApply(u, project[p])
    /\ project[p].reviewed_by # Null
    /\ Load(w, Request("submit", p, u))

ResubmitLoad(w, u, p) ==
    /\ Exists(p)
    /\ MayApply(u, project[p])
    /\ project[p].status = "rejected"
    /\ Load(w, Request("submit", p, u))

\* uq_project_versions_project_version
Unique(p, number) == \A i \in DOMAIN version[p] : version[p][i].number # number

\* The version with the highest number, while there is one.
Previous(p) ==
    CHOOSE v \in {version[p][i] : i \in DOMAIN version[p]} :
        \A i \in DOMAIN version[p] : version[p][i].number <= v.number

\* What differs between two snapshots.
Diff(before, after) ==
    {f \in Fields : before.content[f] # after.content[f]}
    \union {column \in {"status"} : before.status # after.status}

NewVersion(p, number, row, u) ==
    [number |-> number, content |-> row.content, status |-> row.status,
     changed |-> IF version[p] = <<>> THEN {}
                 ELSE Diff(Previous(p), row),
     submitted_by |-> u]

\* Mutant: the table has no unique constraint.
SubmitCommitUnchecked(w) ==
    LET s == session[w]
        p == s.project
    IN  /\ s.step = "submit"
        /\ Len(version[p]) < MaxVersions
        /\ version' = [version EXCEPT ![p] =
              Append(@, NewVersion(p, s.row.current + 1, s.row, s.actor))]
        /\ project' = [project EXCEPT ![p].current = s.row.current + 1,
                                      ![p].status = "submitted",
                                      ![p].reviewed_by = Written(s.row.reviewed_by, Null, @)]
        /\ Finish(w)
        /\ UNCHANGED <<contended, rejected>>

\* Mutant: the review of the version before is kept.
SubmitCommitKeepsReview(w) ==
    LET s == session[w]
        p == s.project
        number == s.row.current + 1
    IN  /\ s.step = "submit"
        /\ number <= MaxVersions
        /\ Unique(p, number)
        /\ version' = [version EXCEPT ![p] =
              Append(@, NewVersion(p, number, s.row, s.actor))]
        /\ project' = [project EXCEPT ![p].current = number, ![p].status = "submitted"]
        /\ Finish(w)
        /\ UNCHANGED <<contended, rejected>>

\* Mutant: the number follows the versions in the table, not the loaded row.
SubmitCommitRenumbered(w) ==
    LET s == session[w]
        p == s.project
        number == Len(version[p]) + 1
    IN  /\ s.step = "submit"
        /\ number <= MaxVersions
        /\ Unique(p, number)
        /\ version' = [version EXCEPT ![p] =
              Append(@, NewVersion(p, number, s.row, s.actor))]
        /\ project' = [project EXCEPT ![p].current = number,
                                      ![p].status = "submitted",
                                      ![p].reviewed_by = Written(s.row.reviewed_by, Null, @)]
        /\ Finish(w)
        /\ UNCHANGED <<contended, rejected>>

\* A number that is taken violates the constraint, and the request fails.
SubmitCommit(w) ==
    LET s == session[w]
        p == s.project
        number == s.row.current + 1
    IN  /\ s.step = "submit"
        /\ number <= MaxVersions
        /\ Unique(p, number)
        /\ version' = [version EXCEPT ![p] =
              Append(@, NewVersion(p, number, s.row, s.actor))]
        /\ project' = [project EXCEPT ![p].current = number,
                                      ![p].status = "submitted",
                                      ![p].reviewed_by = Written(s.row.reviewed_by, Null, @)]
        /\ Finish(w)
        /\ UNCHANGED <<contended, rejected>>

-----------------------------------------------------------------------------
\* Review and deactivation

RejectLoad(w, u, p) ==
    /\ Exists(p)
    /\ CanReview(u, project[p])
    /\ project[p].status = "submitted"
    /\ Load(w, Request("reject", p, u))

RejectCommit(w) ==
    LET s == session[w]
        p == s.project
    IN  /\ s.step = "reject"
        /\ project' = [project EXCEPT ![p].status = "rejected", ![p].reviewed_by = s.actor]
        /\ rejected' = [rejected EXCEPT ![p] = @ \union {project[p].current}]
        /\ Finish(w)
        /\ UNCHANGED <<contended, version>>

DeactivateLoad(w, u, p) ==
    /\ Exists(p)
    /\ MayDeactivate(u, project[p])
    /\ project[p].status # "deactivated"
    /\ Load(w, Request("deactivate", p, u))

DeactivateCommit(w) ==
    LET s == session[w]
    IN  /\ s.step = "deactivate"
        /\ project' = [project EXCEPT ![s.project].status = "deactivated",
                                      ![s.project].active = Written(s.row.active, FALSE, @)]
        /\ Finish(w)
        /\ UNCHANGED <<contended, version, rejected>>

\* The worker dies or its transaction fails before the commit.
Abort(w) ==
    /\ session[w] # Idle
    /\ Finish(w)
    /\ UNCHANGED <<contended, project, version, rejected>>

Next ==
    \/ \E u \in Users, p \in Projects, reviewer \in Users \union {Null}, content \in Content :
          CreateProject(u, p, reviewer, content)
    \/ \E w \in Workers :
          \/ \E u \in Users, p \in Projects :
                \/ \E edit \in Edit : EditLoad(w, u, p, edit)
                \/ SubmitLoad(w, u, p)
                \/ ResubmitLoad(w, u, p)
                \/ RejectLoad(w, u, p)
                \/ DeactivateLoad(w, u, p)
          \/ EditCommit(w)
          \/ SubmitCommit(w)
          \/ RejectCommit(w)
          \/ DeactivateCommit(w)
          \/ Abort(w)

Spec == Init /\ [][Next]_vars

-----------------------------------------------------------------------------
\* Properties

\* The type of the tables and of the sessions.
TypeOK ==
    /\ contended \subseteq Projects
    /\ project \in [Projects -> Project \union {Null}]
    /\ version \in [Projects -> Seq(Version)]
    /\ session \in [Workers -> Session]
    /\ rejected \in [Projects -> SUBSET Nat]

\* However submissions overlap, the versions of a project are numbered without
\* gap or repetition up to its current one, and each diff is against the
\* version one below.
HistoryChained ==
    \A p \in Projects :
        /\ Exists(p) => project[p].current = Len(version[p])
        /\ \A i \in DOMAIN version[p] :
              /\ version[p][i].number = i
              /\ i > 1 => version[p][i].changed = Diff(version[p][i - 1], version[p][i])

\* However reviews and submissions overlap, nothing is under review with an
\* earlier rejection still on it, and what is rejected says by whom: by nobody
\* who had to leave it to others.
ReviewRecorded ==
    \A p \in Projects : Exists(p) =>
        LET row == project[p]
        IN  /\ row.status \in {"draft", "submitted"} => row.reviewed_by = Null
            /\ row.status = "rejected" => row.reviewed_by # Null /\ CanReview(row.reviewed_by, row)

\* However requests overlap, a version is followed by another one only after it
\* was rejected.
RevisedOnRejection ==
    \A p \in Projects : Exists(p) =>
        \A n \in 1..project[p].current - 1 : n \in rejected[p]

\* A project under review that has one request at a time is the project its
\* latest version shows.
SubmittedAsSeen ==
    \A p \in Projects \ contended :
        Exists(p) /\ project[p].status = "submitted" =>
            version[p][Len(version[p])].content = project[p].content

\* Such a project is over when it is deactivated.
DeactivatedStays ==
    [][\A p \in Projects \ contended :
          Exists(p) /\ project[p].status = "deactivated" =>
              project'[p] = project[p] /\ version'[p] = version[p]]_vars

\* What is promised is promised to projects with one request at a time.
Promised(p) == Exists(p) /\ p \notin contended

Phase == [p \in Projects |-> IF Promised(p) THEN project[p].status ELSE "none"]
Draft == [p \in Projects |-> IF Promised(p) THEN project[p].content ELSE Null]
Verdict == [p \in Projects |-> IF Promised(p) THEN project[p].reviewed_by ELSE Null]

Contents(history) == [i \in DOMAIN history |-> history[i].content]
Submissions == [p \in Projects |-> IF Promised(p) THEN Contents(version[p]) ELSE <<>>]

Process == INSTANCE ReviewProcess WITH
    Texts <- Content,
    phase <- Phase, draft <- Draft, submitted <- Submissions, verdict <- Verdict

\* The requests for such a project implement the process, in which an edit, a
\* submission, a verdict and a deactivation happen at once.
ImplementsProcess == Process!Spec
=============================================================================
