------------------------------ MODULE MCLedger ------------------------------
(* A small instance of Ledger: three accounts, one of them the treasury,   *)
(* and an era of two blocks so that the reward halves within the bound.    *)
EXTENDS Ledger

MCAddr == {"dev", "miner", "alice"}

Tx(from, to, x, n, s) ==
    [sender |-> from, recipient |-> to, amount |-> x, nonce |-> n, sig |-> s]

pay       == Tx("miner", "alice", 30000, 0, 1)
payResign == Tx("miner", "alice", 30000, 0, 2)   \* pay, signed again
selfPay   == Tx("miner", "miner", 5000, 1, 1)
spend     == Tx("alice", "dev", 1000, 0, 1)      \* needs pay's money
nothing   == Tx("alice", "miner", 0, 0, 1)       \* refused everywhere

\* With MAX_U64 = 122800 a miner of two blocks is near the limit: devTip fits
\* and the miner's share of its fee does not, devGift does not fit.
devTip    == Tx("dev", "miner", 4150, 0, 1)
devGift   == Tx("dev", "miner", 4190, 0, 1)

MCSubmitted == {pay, payResign, spend, nothing}
MCTxs == MCSubmitted \cup {selfPay, devTip, devGift}

Blk(h, m, txs) ==
    [height |-> h, miner |-> m, dev |-> "dev",
     coinbase |-> calculate_subsidy_split(h), txs |-> txs]

MCMaxBlocks == [live |-> 3, fresh |-> 2]

MCPeerBlocks ==
    { Blk(1, "miner", <<>>),
      Blk(2, "alice", <<pay, spend>>),           \* the miner is a party
      Blk(2, "dev", <<payResign, selfPay>>),     \* so is the treasury
      Blk(1, "miner", <<pay, pay>>),
      Blk(2, "alice", <<selfPay>>),              \* applies after pay only
      Blk(2, "miner", <<nothing>>),
      Blk(2, "miner", <<devTip>>),               \* the fee overflows
      Blk(1, "alice", <<devGift>>),              \* or the transfer itself
      Blk(1, "dev", <<>>),                       \* then the treasury's share
      Blk(2, "dev", <<>>),
      [Blk(1, "alice", <<>>) EXCEPT !.coinbase.miner = @ + 1],
      [Blk(1, "alice", <<>>) EXCEPT !.dev = "alice"] }
=============================================================================
