SPECIFICATION FairSpec
CONSTANTS
    HalfBuff = 2
    HttpHeadHigh = 4
    Requests <- MCRequests
    Answers <- MCAnswers
INVARIANTS
    RequestComplete
    ReplyFromALine
PROPERTIES
    AnswerEnds
CHECK_DEADLOCK FALSE
