\* One session, longer streams, heartbeats that keep coming.
CONSTANTS
    Fd = {fd1}
    MaxUid = 3
    HashSize = 2
    MaxClients = 1
    MaxIndex = 4
    MaxInFlight = 3
    CommandTypes = {"MOUSE_MOVE", "MOUSE_CLICK"}
    Versions = {0, 3}
SPECIFICATION FairSpec
CHECK_DEADLOCK FALSE
INVARIANTS
    IndexIsLastExecuted
    TcpLossless
PROPERTY BufferedCommandsHandled
