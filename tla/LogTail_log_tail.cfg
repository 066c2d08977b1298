SPECIFICATION FairSpec
CONSTANTS
    WorkerStreams = {w1}
    SidecarStreams = {s1}
    MaxLines = 2
    MaxRestarts = 1
INVARIANTS
    LogTypeOK
    LinesOnceInOrder
    WorkerLinesKept
PROPERTIES
    TailEnds
\* a tailer comes to its end
CHECK_DEADLOCK FALSE
