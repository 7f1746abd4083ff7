SPECIFICATION FairSpec
CONSTANTS
  t1 = t1
  t2 = t2
  t3 = t3
  Null = Null
  Free = Free
  Threads <- ThreeThreads
  Kinds <- TimedKind
INVARIANTS TypeOK
PROPERTIES SignalWakesOne BroadcastEnds CondVarSpec
CHECK_DEADLOCK FALSE
