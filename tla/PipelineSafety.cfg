\* One document, a duplicated webhook, two attempts that may overlap, every
\* kind of fault.
CONSTANTS
    d1 = d1
    d2 = d2
    h1 = h1
    h2 = h2
    w1 = w1
    w2 = w2
    NoDoc = NoDoc
    Docs <- OneDoc
    CompletePayloads <- OneDoc
    Deliveries <- TwoDeliveries
    Workers <- TwoWorkers
    Faults <- AllFaults
    MaxFaults = 3
    MaxRetry = 2
    MaxChunks = 2
SPECIFICATION Spec
SYMMETRY Symmetry
INVARIANTS
    TypeOK
    ReadyIsSearchable
    OriginalNotLost
    ClaimsBounded
    WorkOnlyOnSaved
    CountAgrees
PROPERTIES
    DeletedStaysDeleted
    ImplementsLifecycle
\* The system rests once every delivery is answered and every task settled.
CHECK_DEADLOCK FALSE
