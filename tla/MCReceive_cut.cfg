CHECK_DEADLOCK FALSE
SPECIFICATION MCSpec
CONSTANTS
    HeaderSize = 3
    MaxSize = 5
    PacketSize = {3, 5}
    Chunk = {1, 3, 4}
    StreamBound = 12
    Receiver = {r1, r2}
    NPackets = 2
    Arriving = {"none", "client", "request", "auth", "game", "app", "bad"}
    Config <- MCConfig
    Memory <- MCMemory
    Size = {1, 2}
    Sender = {s1, s2}
    Payload = 2
    Pieces <- MCPieces
    FileLength <- MCFileLength
    BufferSize = 2
    Beyond = 2
    s1 = s1
    s2 = s2
    r1 = r1
    r2 = r2
    Nil = Nil
    Inline = Inline
    FreeMutex = FreeMutex
    Parts = {"receive"}
INVARIANT HeaderIsReceived
