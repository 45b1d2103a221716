\* Statements of comments and documents, each of them violated: one at a time.
SPECIFICATION Spec
CONSTANTS
    Timeout = 2
    Period = 1
    Retries = 1
    MaxFaults = 1
PROPERTY SuspensionIsSafe
\* PROPERTY HealthFeedsForAll
\* INVARIANT WatchedBeforeLoop
\* INVARIANT NoCaptureWithoutCamera
