CONSTANTS
    a1 = a1
    a2 = a2
    p1 = p1
    h1 = h1
    h2 = h2
    hash_of <- MCHashOf
    fi_context_before = 2
    fi_context_after = 1
    fi_context_cutoff_time = 1
    fo_context_max = 1
    Addr <- MCAddr
    Peer <- MCPeer
    peer_of <- MCPeerOf
    batch_size = 2
    batch_timeout = 1
    time_to_keep_packets = 2
    flow_timeout = 2
    flow_activity_interval = 1
    MaxPackets = 4
    MaxFlows = 3
    Horizon = 4
    NoFlow = NoFlow
SPECIFICATION Spec
SYMMETRY MCSymmetry
INVARIANTS
    ReportedInOrder
    NothingWaits
    ServerForgets
    ContextsAreRight
PROPERTIES
    AnnouncedFirst
