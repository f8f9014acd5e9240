SPECIFICATION Spec
CONSTANTS
    Second = 2
    Minute = 4
    Day = 16
    Zones <- MCZones
    LocalZones <- MCLocalZones
    Instants <- MCInstants
    Dates = {0, 1}
    Overrides = {5}
INVARIANTS
    StoredRangeForward
    ShownLengthsAgree
CHECK_DEADLOCK FALSE
