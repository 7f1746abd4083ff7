SPECIFICATION ShutdownSpec
CONSTANTS
  c1 = c1
  c2 = c2
  NoClient = NoClient
  Free = Free
  Desktop = Desktop
  Main = Main
  Jammed = Jammed
  Clients <- TwoClients
  MaxClients <- ThreeSlots
  Priorities <- OneSetting
  DesktopMayFail = FALSE
  UnlockOutcomes <- EveryOutcome
SYMMETRY Symmetric
INVARIANTS ShutdownTypeOK DeletedByOne
CHECK_DEADLOCK FALSE
