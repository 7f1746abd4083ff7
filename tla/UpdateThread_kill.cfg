SPECIFICATION Spec
CONSTANT MaxKicks = 2
INVARIANT SafeToKill
CHECK_DEADLOCK FALSE
