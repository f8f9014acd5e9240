SPECIFICATION Spec
CONSTANTS
    i1 = i1
    i2 = i2
    n1 = n1
    n2 = n2
    k1 = k1
    k2 = k2
    Weeks = {wa, wb}
    Items = {i1, i2}
    Nothing = Nothing
    Loads = {n1, n2}
    Presses = {k1, k2}
SYMMETRY MCSymmetry
INVARIANTS
    SaveTellsFate
    GridShowsItsWeek
CHECK_DEADLOCK FALSE
