CONSTANTS
    Submission <- MCSubmission
    Turn <- MCTurn
    ApiReply <- MCApiReply
    GateOutcome <- MCGateOutcome
    MaxIters = 2
    Other = Other
    NoAnswer = NoAnswer
SPECIFICATION PSpec
CHECK_DEADLOCK FALSE
INVARIANTS
    OrchestratorInv
    FirstCleanWins
    AnswerGrows
    AnswerIsSavable
    ConversationWellFormed
    BothWiresAccepted
    ResultIsAnswer
PROPERTIES
    OutageSurfaces
