SPECIFICATION Spec
CONSTANTS
    BufferSize = 32
    LineLength = 14
    NameLength = 4
    ValueLength = 12
    Slack = 4
    Initial <- MCInitial
    Edits <- MCEdits
    Session <- MCSession
    Command <- MCCommand
    Http <- MCHttp
    Logger <- MCLogger
    Listener <- MCListener
    File <- MCFile
    SectionKey <- MCSectionKey
    KeyKey <- MCKeyKey
    ValueKey <- MCValueKey
    Addresses <- MCAddresses
    LogNames <- MCLogNames
    Posts <- MCPosts
    Garbage <- MCGarbage
    Hosts <- MCHosts
    LogPaths <- MCLogPaths
    ConfigPaths <- MCConfigPaths
    ExePaths <- MCExePaths
    ConfigName <- MCConfigName
    ExeSize = 9
    PathSize = 10
    Homes <- MCHomes
    Seconds <- MCSeconds
    DirSize = 6
    BlockSize = 13
    MaxSize = 1
    MaxBackups = 3
    MaxLines = 5
    MaxCalls = 3
INVARIANTS TypeOK FileAsSaved PostedTakesEffect GetPostAgree SameReading LogKeepsNewest RunningIsReachable AddressesTold SetupSound SegfaultDumped
CHECK_DEADLOCK FALSE
