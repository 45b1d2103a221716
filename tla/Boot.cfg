SPECIFICATION FairSpec
CONSTANTS
    Timeout = 2
    Period = 1
    Retries = 2
    MaxFaults = 2
INVARIANT OnlyStuckExpires
INVARIANT GivesUpOnlyWithoutQueue
PROPERTY StuckIsReset
PROPERTY SingleFaultRecovers
