SPECIFICATION Spec
CONSTANTS
    Clients = {c1, c2}
    MaxClients = 2
    Pairs = 3
    Foreign = {3}
    NullSocket = NullSocket
    DeletedSocket = DeletedSocket
    MaxInbox = 1
    Requests = {"OPTIONS", "SETUP_UDP", "SETUP_TCP", "PLAY"}
SYMMETRY Symmetric
INVARIANT SocketsAreOwned
INVARIANT TransportStays
