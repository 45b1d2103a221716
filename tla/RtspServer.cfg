SPECIFICATION FairSpec
CONSTANTS
    Clients = {c1, c2, c3}
    MaxClients = 2
    Pairs = 1
    Foreign = {}
    NullSocket = NullSocket
    DeletedSocket = DeletedSocket
    MaxInbox = 2
    Requests = {"PLAY", "TEARDOWN"}
INVARIANT SlotsAreSessions
PROPERTY SessionsEndOnlyByClient
PROPERTY BacklogIsServed
PROPERTY GoneIsRemoved
