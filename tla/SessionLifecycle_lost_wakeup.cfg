SPECIFICATION Spec
CONSTANTS
    m1 = m1
    m2 = m2
    Inbounds = {m1, m2}
    Continues = {}
    Stops = {}
    Closes = {}
    Results = {}
    Fatals = {}
    McpFailures = {}
    MaxExecs = 2
    Policy = "queue"
    Serial = TRUE
    LaunchFaults = FALSE
    TailFaults = FALSE
    DrainExpires = FALSE
SYMMETRY Symmetry
INVARIANTS
    FollowupsPickedUp
\* a session without open requests rests
CHECK_DEADLOCK FALSE
