SPECIFICATION Spec
CONSTANTS
    m1 = m1
    m2 = m2
    r1 = r1
    f1 = f1
    Inbounds = {m1, m2}
    Continues = {}
    Stops = {}
    Closes = {}
    Results = {r1}
    Fatals = {f1}
    McpFailures = {}
    MaxExecs = 2
    Policy = "interrupt_after_turn"
    Serial = FALSE
    LaunchFaults = FALSE
    TailFaults = FALSE
    DrainExpires = TRUE
SYMMETRY Symmetry
INVARIANTS
    ExecutionsOwned
    SoleOwner
    WorkersWatched
    AcknowledgedInHand
\* a session without open requests rests
CHECK_DEADLOCK FALSE
