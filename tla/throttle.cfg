CONSTANTS
    Users = {alice}
    Superusers = {}
    Workers = {w1, w2}
    Events = {alert}
    Types = {project}
    Ids = {i}
    Null = Null
    Window = 1
    MaxClock = 2
    MaxTriggers = 3
    MaxMarked = 1
    MaxSubscriptions = 1
SPECIFICATION Spec
SYMMETRY Symmetry
CHECK_DEADLOCK FALSE
INVARIANT OncePerWindow
