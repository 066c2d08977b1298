SPECIFICATION FairRecoverySpec
CONSTANTS
    m1 = m1
    c1 = c1
    Inbounds = {m1}
    Continues = {c1}
    Stops = {}
    Closes = {}
    Results = {}
    Fatals = {}
    McpFailures = {}
    MaxExecs = 2
    Policy = "queue"
    Serial = FALSE
    LaunchFaults = FALSE
    TailFaults = FALSE
    DrainExpires = FALSE
    MaxExits = 1
INVARIANTS
    RecoveryTypeOK
    ExecutionsRecovered
    WorkersRecovered
    AcknowledgedInHand
PROPERTIES
    DeadWorkersRecovered
\* a session without open requests rests
CHECK_DEADLOCK FALSE
