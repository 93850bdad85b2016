\* Two documents, two goroutines, the code's one upload and two questions.
CONSTANTS
    d1 = d1
    d2 = d2
    s1 = s1
    s2 = s2
    NoDoc = NoDoc
    Docs <- TwoDocs
    Slots <- TwoSlots
    UploadLimit = 1
    QuestionLimit = 2
SPECIFICATION Spec
SYMMETRY Symmetry
INVARIANTS
    TypeOK
    OneConversation
    AnswersFollowQuestions
    GuestLimits
    HistoryHasDocument
\* A guest whose documents are uploaded and deleted may stop.
CHECK_DEADLOCK FALSE
