SPECIFICATION Spec
CONSTANTS
    BufferSize = 32
    Packages <- MCControl
    Datagrams <- MCControl
    Searches <- MCSearches
    Strays <- NoStrays
    DatagramSize = 64
    SearchSize = 48
    ClientUid <- Uid
    SessionPort <- MCSessionPort
    CommandPort <- MCCommandPort
    Adapters <- MCAdapters
    Environment <- MCEnvironment
    Float <- MCFloat
    FirstCapacity = 20
    MaxFloat = 100
    Machines <- MCMachines
    Clipboard <- MCClipboard
    Pieces = {1, 9, 64}
    MaxPackages = 2
INVARIANTS ServerSurvives
CHECK_DEADLOCK FALSE
