\* Two documents, the second with an incomplete payload; one delivery each,
\* statements that fail and parsers that panic, no lost attempt.
CONSTANTS
    d1 = d1
    d2 = d2
    h1 = h1
    h2 = h2
    w1 = w1
    w2 = w2
    NoDoc = NoDoc
    Docs <- TwoDocs
    CompletePayloads <- OneDoc
    Deliveries <- OneDelivery
    Workers <- TwoWorkers
    Faults <- StoreFaults
    MaxFaults = 2
    MaxRetry = 2
    MaxChunks = 2
SPECIFICATION Spec
SYMMETRY WorkerSymmetry
INVARIANTS
    FailedKeepsTask
    LastEventTellsOutcome
PROPERTIES
    ReadyIsFinal
\* The system rests once every delivery is answered and every task settled.
CHECK_DEADLOCK FALSE
