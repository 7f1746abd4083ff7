SPECIFICATION FairSpec
CONSTANT MaxKicks = 2
INVARIANTS TypeOK QuietWhileDisabled
PROPERTIES DisableReturns RequestServed KilledThreadEnds
CHECK_DEADLOCK FALSE
