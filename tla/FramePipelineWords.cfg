\* Statements of comments and documents, each of them violated: one at a time.
SPECIFICATION FairSpec
CONSTANTS
    NoBuf = NoBuf
    Buffers = {b1, b2}
    QueueLength = 2
    Clients = {c1}
    Intervals = {1}
    ClockMod = 4
    MaxFrames = 4
PROPERTY FreshestBroadcast
\* INVARIANT NoStarvation
