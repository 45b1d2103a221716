\* Clients that repeat SETUP or play first: each property is violated.
\* One property at a time, the others commented out.
SPECIFICATION Spec
CONSTANTS
    Clients = {c1}
    MaxClients = 1
    Pairs = 5
    Foreign = {3, 6}
    NullSocket = NullSocket
    DeletedSocket = DeletedSocket
    MaxInbox = 1
    Requests = {"SETUP_UDP", "PLAY", "TEARDOWN"}
INVARIANT NoSocketForgotten
\* INVARIANT StreamsHaveTransport
