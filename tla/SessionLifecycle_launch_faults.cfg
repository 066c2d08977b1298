SPECIFICATION Spec
CONSTANTS
    m1 = m1
    c1 = c1
    t1 = t1
    Inbounds = {m1}
    Continues = {c1}
    Stops = {}
    Closes = {}
    Results = {}
    Fatals = {}
    McpFailures = {t1}
    MaxExecs = 2
    Policy = "queue"
    Serial = FALSE
    LaunchFaults = TRUE
    TailFaults = TRUE
    DrainExpires = FALSE
SYMMETRY Symmetry
INVARIANTS
    ExecutionsOwned
    AcknowledgedInHand
    PendingNotInPrompt
\* a session without open requests rests
CHECK_DEADLOCK FALSE
