SPECIFICATION FairSpec
CONSTANTS
    Calls = {c1, c2}
    Users = {1, 2, 3}
    Actor = 1
    NameOf <- MCNameOf
    Asked <- MCAsked
    Threads = 1
    Connections = 1
    MaxLeavers = 2
INVARIANTS
    TypeOK
    AnswerTellsFate
    LeaversTakeNoPart
    NamedTookPart
PROPERTIES
    Drains
CHECK_DEADLOCK FALSE
