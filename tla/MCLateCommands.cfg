\* One session, one datagram repeated after it has ended.
CONSTANTS
    Fd = {fd1}
    MaxUid = 2
    HashSize = 2
    MaxClients = 1
    MaxIndex = 2
    MaxInFlight = 2
    CommandTypes = {"MOUSE_CLICK"}
    Versions = {3}
SPECIFICATION Spec
CHECK_DEADLOCK FALSE
INVARIANT LateCommandsDiscarded
