SPECIFICATION FairSpec
CONSTANTS
    RetryCount = 3
    Backoff <- MCBackoff
    Debounce = 5
    MaxSaves = 1
INVARIANT TypeOK
INVARIANT PortalShown
INVARIANT ConnectedIsClean
PROPERTY NoFalseAlarm
PROPERTY LostLinkNoticed
PROPERTY FallsBackToPortal
PROPERTY ImplementsWifiView
