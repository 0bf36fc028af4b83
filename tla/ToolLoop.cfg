SPECIFICATION FairSpec
CONSTANTS
    MaxIterations = 3
    MaxRetries = 1
    IntentCap = 1
    BlockCap = 1
    MaxEmpties = 1
    MaxTools = 2
    MaxFeedback = 2
INVARIANTS TypeOK ResultsFollowUses FeedbackInOrder NarrationIsBounded GuardIsIdle
PROPERTIES NoNativeCallOverFeedback TurnEnds
