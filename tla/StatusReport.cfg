SPECIFICATION FairSpec
CONSTANTS
    MaxRetries = 3
    MaxConnects = 1
INVARIANT ConnectedReportsAreClean
PROPERTY StatusCatchesUp
