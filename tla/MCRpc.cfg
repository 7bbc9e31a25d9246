SPECIFICATION Spec
CONSTANTS
    Conns = {"c1", "c2", "c3"}
    Ips = {"ip1", "ip2"}
    IpOf <- MCIpOf
    MAX_CONCURRENT_RPC_CONNECTIONS = 2
    MAX_CONNECTIONS_PER_IP = 1
    MAX_REQUESTS_PER_SECOND_PER_CONNECTION = 1
    SECOND = 2
    Txs = {"t1"}
    Lines <- MCLines
    HasToken = TRUE
    MaxTime = 2
    MaxLines <- MCMaxLines
CHECK_DEADLOCK FALSE
INVARIANTS TypeOK SlotsAccounted RateBounded StatusTruthful
PROPERTY RequestsAnswered
