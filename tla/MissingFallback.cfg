\* The same files and texts: what TextParser makes of an image or an archive.
CONSTANTS
    Nothing = Nothing
    Topics <- ThreeTopics
    Files <- SomeFiles
    Texts <- AllTexts
    Extracts <- SomeExtracts
    SummaryLimit = 3
    SummaryFloor = 1
    MaxChunks = 2
    MaxAttempts = 2
SPECIFICATION Spec
INVARIANTS
    UnreadableFallsBack
\* A file that is refused, ready or failed stays so.
CHECK_DEADLOCK FALSE
