\* Two sessions, at the same time or one after the other on one descriptor.
CONSTANTS
    Fd = {fd1, fd2}
    MaxUid = 2
    HashSize = 3
    MaxClients = 2
    MaxIndex = 2
    MaxInFlight = 2
    CommandTypes = {"MOUSE_MOVE"}
    Versions = {3}
SPECIFICATION Spec
SYMMETRY Symmetry
CHECK_DEADLOCK FALSE
INVARIANTS
    AuthorizeAnswersOwnUid
PROPERTIES
    CommandsInOrder
    UsesManagerCorrectly
