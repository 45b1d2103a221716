\* Statements of comments and documents, each of them violated: one at a time.
SPECIFICATION FairSpec
CONSTANTS
    Parts = 2
    MaxSaves = 2
    WiFiStates = {"DISCONNECTED", "STA_CONNECTED", "AP_MODE"}
PROPERTY PageFollowsConnection
\* INVARIANT PageAgrees
\* INVARIANT NextGetShowsFrameSize
