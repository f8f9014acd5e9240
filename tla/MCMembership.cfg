SPECIFICATION FairSpec
CONSTANTS
    Users = {ann, ben}
    Nobody = Nobody
    Households = {home, office}
    Invites = {i1, i2}
    Joins = {r1, r2}
    MaxRemovals = 1
INVARIANTS
    TypeOK
    EveryMemberWasInvited
    UsedInviteAdmits
    StaleInviteRefused
    FailsOnlyAgainstItself
PROPERTIES
    JoinIsAnswered
CHECK_DEADLOCK FALSE
