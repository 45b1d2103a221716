SPECIFICATION FairSpec
CONSTANTS
    Capacity = 3
    Sizes = {0, 1, 3, 4}
    MaxFrames = 3
    HeaderLen = 1
    MaxLens = {1, 2}
INVARIANT CopyFits
INVARIANT SnapshotExact
INVARIANT PartsExact
PROPERTY StreamRenewed
