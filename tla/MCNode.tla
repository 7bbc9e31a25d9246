------------------------------- MODULE MCNode -------------------------------
(* Small instances of Node: two nodes that mine, and a few blocks of other *)
(* miners, one of them merging two branches.                               *)
EXTENDS Node

MCAddr == {"dev", "alice", "bob"}
MCMinerOf == [a |-> "alice", b |-> "bob"]
OneMiner == [a |-> "alice"]

Tx(from, to, x, n) ==
    [sender |-> from, recipient |-> to, amount |-> x, nonce |-> n, sig |-> 1]
NoTxs == {}
MCTxs == {Tx("alice", "bob", 500, 0)}

Blk(ps, h, t, txs) ==
    [parents |-> ps, height |-> h, target |-> InitialTarget, time |-> t,
     miner |-> "alice", dev |-> "dev", coinbase |-> calculate_subsidy_split(h),
     txs |-> txs, fault |-> "none"]

\* Bounds per node.
Never == [n \in Nodes |-> 0]
Once == [n \in Nodes |-> 1]
Twice == [n \in Nodes |-> 2]
OnceAtA == [n \in Nodes |-> IF n = "a" THEN 1 ELSE 0]
OnceAtB == [n \in Nodes |-> IF n = "b" THEN 1 ELSE 0]
TwiceAtA == [n \in Nodes |-> IF n = "a" THEN 2 ELSE 0]

NoForeign == {}

\* Two branches, a block with a payment that merges them, one that does not
\* follow its parent, one from the future and one with a bad signature.
MCForeign ==
    { [hash |-> 11, block |-> Blk(<<0>>, 1, 0, <<>>)],
      [hash |-> 12, block |-> Blk(<<0>>, 1, 0, <<>>)],
      [hash |-> 13, block |-> Blk(<<11, 12>>, 2, 0, <<Tx("alice", "bob", 500, 0)>>)],
      [hash |-> 14, block |-> Blk(<<0>>, 2, 0, <<>>)],
      [hash |-> 15, block |-> Blk(<<12>>, 2, 2, <<>>)],
      [hash |-> 16, block |-> [Blk(<<0>>, 1, 0, <<>>) EXCEPT !.fault = "signature"]] }
=============================================================================
