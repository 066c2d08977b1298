SPECIFICATION FairSpec
CONSTANTS
    MaxLines = 2
    MaxCrashes = 1
INVARIANTS
    WorkerTypeOK
    EventsInOrder
    PanelComplete
    SuccessMeansStored
PROPERTIES
    WorkerEnds
\* a run comes to its end
CHECK_DEADLOCK FALSE
