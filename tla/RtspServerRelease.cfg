SPECIFICATION FairSpec
CONSTANTS
    Clients = {c1, c2}
    MaxClients = 2
    Pairs = 4
    Foreign = {3, 6}
    NullSocket = NullSocket
    DeletedSocket = DeletedSocket
    MaxInbox = 1
    Requests = {"SETUP_TCP", "PLAY", "TEARDOWN"}
PROPERTY EndedSessionsRelease
