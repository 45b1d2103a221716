\* Statements of comments and documents, each of them violated: one at a time.
SPECIFICATION Spec
CONSTANTS
    MaxRetries = 2
    MaxConnects = 2
INVARIANT SignalOnlyIfConnected
\* INVARIANT UptimeIsATime
\* PROPERTY ServesReports
