\* A run ends when the stream does, with the connection, or at a bound.
CHECK_DEADLOCK FALSE
SPECIFICATION MCSpec
CONSTANTS
    HeaderSize = 2
    MaxSize = 5
    PacketSize = {0, 1, 2, 3, 5, 6}
    Chunk = {2, 3, 4, 7}
    StreamBound = 18
    Receiver = {r1, r2}
    NPackets = 2
    Arriving = {"none", "client", "request", "auth", "game", "app", "bad"}
    Config <- MCConfig
    Memory <- MCMemory
    Size = {1, 2}
    Sender = {s1, s2}
    Payload = 2
    Pieces <- MCPieces
    FileLength <- MCFileLength
    BufferSize = 2
    Beyond = 2
    s1 = s1
    s2 = s2
    r1 = r1
    r2 = r2
    Nil = Nil
    Inline = Inline
    FreeMutex = FreeMutex
    Parts = {"receive", "handle", "data", "send", "file"}
INVARIANTS
    RemainingExact
    PacketsAccounted
    BuffersSound
    PacketsWhole
    FileInOrder
PROPERTIES
    Framed
