CONSTANTS
    PacketItems <- MCItems
    Packets <- MCPackets
    MaxPackets = 3
    InitialCapacity = 1
    MaxTime = 5
    Roots = {"root", "child"}
    NoItem = NoItem
    Nobody = Nobody
SPECIFICATION Spec
INVARIANTS
    AddressesInv
    HandledInOrder
PROPERTIES
    TakesEarliestFirst
    DueIsTaken
