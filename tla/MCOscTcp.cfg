\* Three connections of the server; a threaded client with short packets over buffers smaller than a
\* packet; a polling client whose buffers never fill.
CONSTANTS
    Connections = {c1, c2, c3}
    Nobody = Nobody
    Payloads <- ShortPackets
    WireSize = 2
    LargeWireSize = 10
    MaxPackets = 2
    Sockets = {3, 4}
    MaxConnections = 2
    Ends = {"server", "threaded client", "polling client"}
SPECIFICATION MCSpec
\* The server may be left unbound for ever; the client has sent all its packets.
CHECK_DEADLOCK FALSE
INVARIANTS
    OneOwner
    NothingLeft
PROPERTIES
    NothingHangs
    IsChannel
