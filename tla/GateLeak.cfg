\* Two requests of one user: the second gives up while the first is served,
\* and the timer passes for no other reason.
CONSTANTS
    r1 = r1
    r2 = r2
    r3 = r3
    r4 = r4
    Requests <- TwoRequests
    NoRequest = NoRequest
    Burst = 1
SPECIFICATION PromptSpec
PROPERTIES
    IdleUserIsUnlocked
\* The user stops sending requests.
CHECK_DEADLOCK FALSE
