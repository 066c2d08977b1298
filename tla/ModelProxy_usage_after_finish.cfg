SPECIFICATION Spec
CONSTANTS
    r1 = r1
    Requests = {r1}
    Streaming = {r1}
    Tools = {0}
    MaxExecs = 1
    MaxEvents = 3
    OpenRouter = FALSE
    Priced = FALSE
INVARIANTS
    UsageReported
\* every request comes to its end
CHECK_DEADLOCK FALSE
