CONSTANTS
    peerDiscovery = TRUE
    BootNodes = 2
    PEER_DISCOVERY_LIMIT = 2
    BLOCK_DISCOVERY_LIMIT = 3
    None = None
    MaxNodes = 2
    MaxBlocks = 2
SPECIFICATION Spec
CHECK_DEADLOCK FALSE
INVARIANT PeersBeforeBlocks
PROPERTY AttemptEnds
