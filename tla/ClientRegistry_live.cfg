SPECIFICATION FairSpec
CONSTANTS
  c1 = c1
  c2 = c2
  c3 = c3
  NoClient = NoClient
  Free = Free
  Desktop = Desktop
  Clients <- TwoClients
  MaxClients <- ThreeSlots
  Priorities <- AllPriorities
  DesktopMayFail = FALSE
PROPERTIES KilledLeaves RemoveReturns SharedDesktopSpec
CHECK_DEADLOCK FALSE
