SPECIFICATION FairSpec
CONSTANTS
    m1 = m1
    s1 = s1
    Inbounds = {m1}
    Continues = {}
    Stops = {s1}
    Closes = {}
    Results = {}
    Fatals = {}
    McpFailures = {}
    MaxExecs = 3
    Policy = "queue"
    Serial = FALSE
    LaunchFaults = TRUE
    TailFaults = FALSE
    DrainExpires = TRUE
PROPERTIES
    RequestsAnswered
    DeadWorkersHalted
\* a session without open requests rests
CHECK_DEADLOCK FALSE
