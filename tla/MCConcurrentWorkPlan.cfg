SPECIFICATION Spec
CONSTANTS
    r1 = r1
    r2 = r2
    r3 = r3
    ann = ann
    ben = ben
    Requests = {r1, r2}
    Users = {ann, ben}
    Kinds = {"schedule", "delete"}
    Task = Task
    Old = Old
    None = None
INVARIANTS
    DeletedTaskLeavesNoPlan
CHECK_DEADLOCK FALSE
