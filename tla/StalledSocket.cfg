\* Two sockets of two documents; one browser stops taking data.
CONSTANTS
    d1 = d1
    d2 = d2
    c1 = c1
    c2 = c2
    NoDoc = NoDoc
    NoSocket = NoSocket
    Docs <- TwoDocs
    Sockets <- TwoSockets
    MaxEvents = 1
SPECIFICATION FairSpec
PROPERTIES
    ReadersAreServed
\* Events and connections are bounded.
CHECK_DEADLOCK FALSE
