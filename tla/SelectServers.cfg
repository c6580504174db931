CONSTANTS
    MAXCLINE = 2
    sock_fd = 3
    MaxFd = 6
    Backlog = 1
    MaxClients = 5
SPECIFICATION ServersSpec
INVARIANTS
    ServersTypeOK
    SlotsCounted
    HeldOnce
    BlocksInSelect
PROPERTIES
    LeaversNoticed
CHECK_DEADLOCK FALSE
