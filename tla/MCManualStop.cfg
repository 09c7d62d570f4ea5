\* One start and one stop around a crash.
CONSTANTS
    Procs = {p1, p2}
    NoProcess = NoProcess
    Calls = {c1}
    MaxStarts = 1
SPECIFICATION FairSpec
INVARIANT ManualStopEndsSupervision
