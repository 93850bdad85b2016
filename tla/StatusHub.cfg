\* One document, two sockets, three events.
CONSTANTS
    d1 = d1
    d2 = d2
    c1 = c1
    c2 = c2
    NoDoc = NoDoc
    NoSocket = NoSocket
    Docs <- OneDoc
    Sockets <- TwoSockets
    MaxEvents = 3
SPECIFICATION FairSpec
INVARIANTS
    TypeOK
    SeenInOrder
    SubscribersAreCurrent
    HubHoldsOpenSockets
PROPERTIES
    HubMovesOn
\* Events and connections are bounded.
CHECK_DEADLOCK FALSE
