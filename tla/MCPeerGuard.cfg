SPECIFICATION Spec
CONSTANTS
    Peers = {"p", "q"}
    IPs = {"i1", "i2"}
    NoIp = "none"
    Conns <- MCConns
    PeerOf <- MCPeerOf
    IpOf <- MCIpOf
    MAX_CONNECTIONS_PER_PEER = 2
    MAX_CONNECTIONS_PER_IP = 1
    MAX_TOTAL_CONNECTIONS = 3
    MAX_VIOLATIONS_BEFORE_BAN = 2
    BAN_DURATION = 2
    MaxTime = 3
    MaxViolations = 3
INVARIANTS TypeOK NoCounterLeak BannedPeerIsOut ViolatorIsBanned
