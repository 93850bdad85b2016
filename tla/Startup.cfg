\* Two API processes of which one runs jobs, a worker process and a session that
\* deletes and replaces chunks, on an empty database or on one with old chunks.
CONSTANTS
    d1 = d1
    r1 = r1
    r2 = r2
    a1 = a1
    a2 = a2
    b1 = b1
    w1 = w1
    NoRow = NoRow
    NoSession = NoSession
    Ghost = Ghost
    Docs <- OneDoc
    Rows <- TwoRows
    Owner <- OneOwner
    Sessions <- AllSessions
    Apis <- TwoApis
    JobApis <- OneApi
    Binaries <- OneBinary
    Writers <- OneWriter
    Faults <- AllFaults
    MaxFaults = 1
SPECIFICATION FairSpec
INVARIANTS
    TypeOK
    MigrationsExclude
    RunnersFindNoPlaintext
    ChunksReadable
PROPERTIES
    GoneStaysGone
    StartEnds
\* The system rests once nobody starts a process or changes a document.
CHECK_DEADLOCK FALSE
