\* Two processes, two stop or restart calls and two starts under way at once.
CONSTANTS
    Procs = {p1, p2}
    NoProcess = NoProcess
    Calls = {c1, c2}
    MaxStarts = 2
SPECIFICATION FairSpec
INVARIANTS
    HandleIsFresh
    SupervisionNeverLost
PROPERTIES
    ServerComesBack
    StopReturns
