\* One delivery, no fault: the webhook may overtake SaveDocument.
CONSTANTS
    d1 = d1
    d2 = d2
    h1 = h1
    h2 = h2
    w1 = w1
    w2 = w2
    NoDoc = NoDoc
    Docs <- OneDoc
    CompletePayloads <- OneDoc
    Deliveries <- OneDelivery
    Workers <- TwoWorkers
    Faults <- NoFaults
    MaxFaults = 0
    MaxRetry = 1
    MaxChunks = 1
SPECIFICATION FairSpec
PROPERTIES
    UploadedIsPickedUp
\* The system rests once every delivery is answered and every task settled.
CHECK_DEADLOCK FALSE
