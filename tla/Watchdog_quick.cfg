SPECIFICATION Spec
CONSTANTS
    Program = {p1, p2}
    Session = {s1, s2}
    NoSession = NoSession
    Never = Never
    NoProgram = NoProgram
    SlowStart = FALSE
    MovesPerTick = 1
INVARIANTS
    WatchdogTypeOK
    OneServing
PROPERTIES
    SessionFollowed
    StopEnds
