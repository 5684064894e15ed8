CONSTANTS
    MaxClock = 3
SPECIFICATION FairSpec
INVARIANT ExpiredStands
INVARIANT AtMostOneLateReply
PROPERTY PauseHolds
PROPERTY AutoResume
PROPERTY AnswersAgain
