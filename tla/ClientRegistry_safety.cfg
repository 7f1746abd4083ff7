SPECIFICATION Spec
CONSTANTS
  c1 = c1
  c2 = c2
  c3 = c3
  NoClient = NoClient
  Free = Free
  Desktop = Desktop
  Clients <- ThreeClients
  MaxClients <- ThreeSlots
  Priorities <- AllPriorities
  DesktopMayFail = TRUE
SYMMETRY Symmetric
INVARIANTS TypeOK RegistryConsistent BufferLive DesktopIffAuthorised TellsLiveClients
CHECK_DEADLOCK FALSE
