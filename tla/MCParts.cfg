SPECIFICATION PartsSpec
CONSTANTS
    WordBits = 6
    V4Bits = 4
    OctetBits = 2
    MaxRevision = 3
    MaxPrivateCidrs = 16
    Mihomo = "utun9"
    Samples6 = {0, 1, 32, 33, 36, 48}
    Multicast <- MCMulticast
    PrivateBlocks <- MCPrivateBlocks
INVARIANTS
    ChildAndCarriersAreAccountedFor
    RulesAreSound
PROPERTY
    UpdatesKeepComing
CHECK_DEADLOCK FALSE
