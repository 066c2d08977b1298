SPECIFICATION Spec
CONSTANTS
    m1 = m1
    s1 = s1
    Inbounds = {m1}
    Continues = {}
    Stops = {s1}
    Closes = {}
    Results = {}
    Fatals = {}
    McpFailures = {}
    MaxExecs = 2
    Policy = "queue"
    Serial = FALSE
    LaunchFaults = FALSE
    TailFaults = FALSE
    DrainExpires = FALSE
SYMMETRY Symmetry
INVARIANTS
    StopStops
\* a session without open requests rests
CHECK_DEADLOCK FALSE
