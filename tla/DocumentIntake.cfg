\* One file of any suffix and type, any text of up to four bytes, two attempts.
CONSTANTS
    Nothing = Nothing
    Topics <- ThreeTopics
    Files <- SomeFiles
    Texts <- AllTexts
    Extracts <- SomeExtracts
    SummaryLimit = 3
    SummaryFloor = 1
    MaxChunks = 2
    MaxAttempts = 2
SPECIFICATION Spec
INVARIANTS
    TypeOK
    ReadyIsReadable
    SummaryFollowsText
    OnlyEllipsisSplits
    AttemptsAgree
    ClassIsEarned
\* A file that is refused, ready or failed stays so.
CHECK_DEADLOCK FALSE
