SPECIFICATION FairSpec
CONSTANTS
    NoBuf = NoBuf
    Buffers = {b1, b2}
    QueueLength = 1
    Clients = {c1}
    Intervals = {1, 2}
    ClockMod = 3
    MaxFrames = 4
INVARIANTS
    BufferOwnership
    StableBroadcast
PROPERTIES
    PacedOutput
    ImplementsHandoff
    BuffersCirculate
    CameraNeverStuck
