\* After a crash, or with all connections made and gone, nothing happens.
CHECK_DEADLOCK FALSE
SPECIFICATION MCSpec
CONSTANTS
    NConn = 2
    NFd = 2
    NHold = 2
    MaxTries = 1
    MaxBad = 1
    Packets = {}
    P = P
    Workers = {w1}
    NPlaces = 1
    Garbage <- MCGarbage
    Asks = {"close", "disconnect"}
    NAdmin = 2
    NAdminPlaces = 2
    Id = {1, 2}
    LobbyClient = {c1, c2}
    Lobby = {1, 2}
    MaxPlayers = {0, 1}
    FdsBits = 3
    NMembers = 3
    NClient = 2
    Types = {"poll", "threads"}
    Pool = 1
    w1 = w1
    c1 = c1
    c2 = c2
    Parts = {"hold"}
PROPERTY ClosesOwn
