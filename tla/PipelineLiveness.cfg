\* One delivery, every attempt may time out and leave its goroutine running.
CONSTANTS
    d1 = d1
    d2 = d2
    h1 = h1
    h2 = h2
    w1 = w1
    w2 = w2
    NoDoc = NoDoc
    Docs <- OneDoc
    CompletePayloads <- OneDoc
    Deliveries <- OneDelivery
    Workers <- TwoWorkers
    Faults <- TimeoutOnly
    MaxFaults = 3
    MaxRetry = 2
    MaxChunks = 2
SPECIFICATION FairSpec
INVARIANTS
    ProcessingIsOwned
PROPERTIES
    ProcessingSettles
\* The system rests once every delivery is answered and every task settled.
CHECK_DEADLOCK FALSE
