SPECIFICATION FairSpec
CONSTANTS
    Payloads <- MCPayloads
    MaxPayload = 4
    Garbage = {0, 1, 7}
    InitialSize = 2
    ErrorFixed = 2
    Faults = {"loss", "memory"}
    MaxPackets = 3
    MaxSessions = 2
INVARIANT TypeOK
INVARIANT RoomForReads
PROPERTY DeliversPackets
PROPERTY TornStays
PROPERTY PacketsParsed
CHECK_DEADLOCK FALSE
