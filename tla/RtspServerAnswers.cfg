SPECIFICATION FairSpec
CONSTANTS
    Clients = {c1, c2}
    MaxClients = 1
    Pairs = 3
    Foreign = {3, 6}
    NullSocket = NullSocket
    DeletedSocket = DeletedSocket
    MaxInbox = 1
    Requests = {"OPTIONS", "SETUP_TCP", "PLAY", "PAUSE"}
PROPERTY RequestsAreAnswered
