SPECIFICATION FairSpec
CONSTANTS
    r1 = r1
    r2 = r2
    r3 = r3
    ann = ann
    ben = ben
    Requests = {r1, r2, r3}
    Users = {ann, ben}
    Kinds <- MCKinds
    Task = Task
    Old = Old
    None = None
INVARIANTS
    TypeOK
    NothingDangles
    WorkOutlivesTask
    ShownIsCredited
PROPERTIES
    Answered
CHECK_DEADLOCK FALSE
