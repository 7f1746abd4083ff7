SPECIFICATION Spec
CONSTANTS
    Viewer = {v1, v2}
    Settings <- MCSettings
    Knowledge <- MCKnowledge
    NoEntry = NoEntry
    RefTime = 1
    MaxFailures = 2
    CountBound = 4
INVARIANTS
    AuthTypeOK
    ServedEntitled
    SidesAgree
PROPERTIES
    BlockEnds
CHECK_DEADLOCK FALSE
