\* Two phones of the old protocol and one of the new one.
CONSTANTS
    Phones = {1, 2, 3}
    Version <- TwoOldOneNew
    NoClient = NoClient
    Deltas <- SomeMoves
    Scales <- SomeScales
    kRecvScale = 2
    MaxPending = 1
SPECIFICATION Spec
INVARIANTS
    TracksFinger
    NoResidue
    ThrottleLosesNothing
    PendingHasMover
