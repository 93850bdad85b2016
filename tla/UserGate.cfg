\* Four requests of one user; the code's bucket of one token.
CONSTANTS
    r1 = r1
    r2 = r2
    r3 = r3
    r4 = r4
    Requests <- FourRequests
    NoRequest = NoRequest
    Burst = 1
SPECIFICATION FairSpec
INVARIANTS
    TypeOK
    OneAtATime
    AnsweredReleases
PROPERTIES
    NoOneGivesUpAllPass
\* The user stops sending requests.
CHECK_DEADLOCK FALSE
