SPECIFICATION Spec
CONSTANTS
    NoBuf = NoBuf
    Buffers = {b1, b2}
    QueueLength = 2
    Clients = {c1, c2}
    Intervals = {1, 3}
    ClockMod = 4
    MaxFrames = 4
SYMMETRY Symmetric
INVARIANTS
    TypeOK
    BufferOwnership
    SendFindsRoom
    CaptureOrder
    StableBroadcast
PROPERTIES
    PacedOutput
    ImplementsHandoff
