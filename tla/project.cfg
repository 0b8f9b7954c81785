CONSTANTS
    applicant = applicant
    reviewer = reviewer
    manager = manager
    Users = {applicant, reviewer, manager}
    Superusers = {}
    Permissions <- MCPermissions
    Projects = {p}
    Workers = {w1, w2}
    Fields = {name}
    Values = {a, b}
    Null = Null
    MaxVersions = 3
SPECIFICATION Spec
SYMMETRY Symmetry
CHECK_DEADLOCK FALSE
INVARIANTS HistoryChained ReviewRecorded RevisedOnRejection SubmittedAsSeen
PROPERTIES DeactivatedStays ImplementsProcess
