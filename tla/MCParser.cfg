SPECIFICATION FairParserSpec
CONSTANTS
    InitialSize = 3
    MaxPieces = 4
    Sections <- MCSections
    Texts <- MCTexts
INVARIANTS
    LexAgrees
    VisitsAreNested
PROPERTIES
    Terminates
CHECK_DEADLOCK FALSE
