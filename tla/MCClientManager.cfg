\* Four connections on two descriptors; the uid counter wraps after three.
CONSTANTS
    Fd = {fd1, fd2}
    MaxUid = 3
    HashSize = 2
    MaxClients = 4
    MaxHolds = 2
SPECIFICATION Spec
SYMMETRY Symmetry
CHECK_DEADLOCK FALSE
INVARIANTS
    NoDanglingClient
    ActiveFdUnique
    UidUniqueBeforeWrap
