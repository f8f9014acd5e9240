SPECIFICATION Spec
CONSTANTS
    Users = {ann, ben, cem}
    Nobody = Nobody
    Households = {home}
    Invites = {i1, i2}
    Joins = {r1, r2}
    MaxRemovals = 1
SYMMETRY MCSymmetry
INVARIANTS
    SingleUse
CHECK_DEADLOCK FALSE
