SPECIFICATION FairSpec
CONSTANTS
    q1 = q1  q2 = q2  q3 = q3
    a = a  b = b  relayName = relayName
    Queries <- MCQueries
    Names <- MCNames
    nameOf <- MCNameOf
    AppSpot <- MCAppSpot
    Workers = {w1, w2}
    NoName = NoName
    NoQuery = NoQuery
INVARIANTS
    OneFetchPerName
    AnswersTheQuestion
PROPERTIES
    AllResolved
CHECK_DEADLOCK FALSE
