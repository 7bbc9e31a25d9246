----------------------------- MODULE MCBlockId -----------------------------
(* Two miners.  The first one's reward pays for three transactions: the    *)
(* fewest with which a Merkle root is that of a longer list as well.       *)
EXTENDS BlockId

Tx(n, s) == [sender |-> "a", recipient |-> "dev", amount |-> 1, nonce |-> n, sig |-> s]

\* 1 verifies; 2 has the same bytes, divided elsewhere; 3 is signed again.
MCTxs == {Tx(n, s) : n \in 0..2, s \in {1, 2}} \cup {Tx(0, 3)}
MCResplit == <<1, 1, 3>>
=============================================================================
