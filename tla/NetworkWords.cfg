\* Statements of comments and documents, each of them violated: one at a time.
SPECIFICATION FairSpec
CONSTANTS
    RetryCount = 3
    Backoff <- MCBackoff
    Debounce = 5
    MaxSaves = 2
INVARIANT RetryIndexInRange
\* PROPERTY ConnectedShown
\* PROPERTY OnlyLongDisconnects
\* PROPERTY AllBackoffsUsed
\* PROPERTY UnprovisionedStartsInApMode
