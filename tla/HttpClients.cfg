SPECIFICATION HttpSpec
CONSTANTS
    Conns = {k1, k2, k3, k4}
    MaxClients = 2
    KeepAlive = FALSE
INVARIANT SlotsAreConnections
PROPERTY RefusedOnlyWhenFull
