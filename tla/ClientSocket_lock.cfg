SPECIFICATION Spec
CONSTANTS
    Sender <- MCSender
    Free = Free
    Message <- MCMessages
    Locked <- MCLocked
    Sends <- MCSends
    SendBuffer = 3
    Windows = {2}
    MaxMessages = 1
INVARIANTS
    SocketTypeOK
    WholeMessages
    RoomInBuffer
PROPERTIES
    PipeImplemented
CONSTRAINTS
    Followed
CHECK_DEADLOCK FALSE
