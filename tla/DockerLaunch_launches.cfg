SPECIFICATION FairSpec
CONSTANT
    MaxLaunches = 2
INVARIANTS
    LaunchTypeOK
    HooksBeforeWorker
    FailedLaunchIsClean
    OwnContainers
PROPERTIES
    ForeignSpared
    LaunchEnds
\* the launches come to their end
CHECK_DEADLOCK FALSE
