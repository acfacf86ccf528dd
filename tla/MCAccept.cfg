SPECIFICATION FairAcceptSpec
CONSTANTS
    N = 2
    min_backoff = 100
    max_backoff = 60000
    FdLimit = 5
INVARIANTS
    AcceptTypeOK
    ListenXorBackoff
    BackoffInLimits
PROPERTIES
    BackoffGrows
    ListensAgain
