CONSTANTS
    Sessions <- MCSessions
    Handles <- MCHandles
    Names <- MCNames
    Aspects <- MdocAspects
    Parts <- MCParts
SPECIFICATION FairSpec
INVARIANTS
    ChallengesBindTrace
    NothingReadEarly
    AcceptedIsIntended
PROPERTY
    OwnProofAccepted
CHECK_DEADLOCK FALSE
