SPECIFICATION Spec
CONSTANTS
    m1 = m1
    c1 = c1
    x1 = x1
    Inbounds = {m1}
    Continues = {c1}
    Stops = {}
    Closes = {x1}
    Results = {}
    Fatals = {}
    McpFailures = {}
    MaxExecs = 2
    Policy = "queue"
    Serial = FALSE
    LaunchFaults = FALSE
    TailFaults = FALSE
    DrainExpires = TRUE
INVARIANTS
    TypeOK
    ExecutionsOwned
PROPERTIES
    ClosedIsFinal
\* a session without open requests rests
CHECK_DEADLOCK FALSE
