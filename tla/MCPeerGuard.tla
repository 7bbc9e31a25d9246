---------------------------- MODULE MCPeerGuard ----------------------------
(* Two peers; one has three connections, one of them without an address, *)
(* and one shares an address with the other peer's.                        *)
EXTENDS PeerGuard

MCConns == {"p1", "p2", "p3", "q1"}
MCPeerOf == [c \in MCConns |-> IF c \in {"p1", "p2", "p3"} THEN "p" ELSE "q"]
MCIpOf == [c \in MCConns |-> IF c \in {"p1", "q1"} THEN "i1"
                             ELSE IF c = "p2" THEN "i2" ELSE NoIp]
=============================================================================
