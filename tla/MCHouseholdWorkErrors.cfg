SPECIFICATION Spec
CONSTANTS
    ann = ann
    ben = ben
    guest = guest
    t1 = t1
    t2 = t2
    b1 = b1
    b2 = b2
    w1 = w1
    w2 = w2
    Users = {ann, ben, guest}
    Active = {ann, ben}
    TaskIds = {t1, t2}
    BlockIds = {b1, b2}
    WorkIds = {w1}
    Times = {0, 1, 2}
    Overrides = {5}
    Scopes = {"personal"}
    Flags = {TRUE}
    AskedRanges <- MCAskedRanges
    Lists = {{}, {ann}, {ben}, {guest}}
    Unset = Unset
    Null = Null
    NoId = NoId
    NullsSent = FALSE
    MaxFields = 1
    MaxWrites = 4
SYMMETRY MCSymmetry
INVARIANTS
    NoServerError
CHECK_DEADLOCK FALSE
