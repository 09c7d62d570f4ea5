SPECIFICATION Spec
CONSTANTS
    BufferSize = 32
    Packages <- MCPackages
    Datagrams <- MCDatagrams
    Searches <- MCSearches
    Strays <- MCStrays
    DatagramSize = 64
    SearchSize = 48
    ClientUid <- Uid
    SessionPort <- MCSessionPort
    CommandPort <- MCCommandPort
    Adapters <- MCAdapters
    Environment <- MCEnvironment
    Float <- MCFloat
    FirstCapacity = 20
    MaxFloat = 100
    Machines <- MCMachines
    Clipboard <- MCClipboard
    Pieces = {1, 4, 64}
    MaxPackages = 3
INVARIANTS InStep ParsedAsMeant AnswersInStep DatagramWhole AdaptersTold PowerOnce
CHECK_DEADLOCK FALSE
