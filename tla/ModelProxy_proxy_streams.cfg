SPECIFICATION Spec
CONSTANTS
    r1 = r1
    r2 = r2
    Requests = {r1, r2}
    Streaming = {r1}
    Tools = {0, 1}
    MaxExecs = 2
    MaxEvents = 2
    OpenRouter = TRUE
    Priced = TRUE
INVARIANTS
    ProxyTypeOK
    ChargesAddUp
    AnswersRecorded
PROPERTIES
    ClientProtocol
\* every request comes to its end
CHECK_DEADLOCK FALSE
