---------------------------- MODULE LedgerState ----------------------------
(***************************************************************************)
(* The account ledger of a VeloDAG node (struct LedgerState and the        *)
(* economic functions of VeloBlock, vdag-consensus/src/lib.rs) as          *)
(* operators on values.  HashMaps with unwrap_or(0) are total functions on *)
(* Addr; a transaction stands for its own id, because transaction_id       *)
(* hashes every field including the signature bytes.                       *)
(***************************************************************************)
EXTENDS Integers, Sequences, FiniteSets, Functions, SequencesExt

CONSTANTS
    Addr,                   \* account addresses
    DEV_TREASURY_ADDRESS,   \* the treasury, an address like any other
    Txs,                    \* the signed transactions that circulate
    INITIAL_BLOCK_REWARD,
    DEV_TAX_PERCENTAGE,
    BLOCKS_PER_ERA,
    TRANSACTION_FEE,
    MAX_U64                 \* largest u64; checked_add fails above it

\* A transaction's `sig` stands for the public_key and signature bytes: two
\* transactions may differ in nothing else and then have different ids.
ASSUME TxAssumption ==
    Txs \subseteq [sender : Addr, recipient : Addr,
                   amount : Nat, nonce : Nat, sig : Nat]

ASSUME AddrAssumption == IsFiniteSet(Addr) /\ DEV_TREASURY_ADDRESS \in Addr

ASSUME EconomyAssumption ==
    /\ INITIAL_BLOCK_REWARD \in Nat
    /\ DEV_TAX_PERCENTAGE \in 0..100
    /\ BLOCKS_PER_ERA \in Nat \ {0}
    /\ TRANSACTION_FEE \in Nat
    /\ MAX_U64 \in Nat

-----------------------------------------------------------------------------
(* Rewards and fees. *)

\* 95/5 split of an amount, rounded down for the treasury.
apply_dev_tax_split(amount) ==
    LET dev == (amount * DEV_TAX_PERCENTAGE) \div 100
    IN  [miner |-> amount - dev, dev |-> dev]

\* INITIAL_BLOCK_REWARD >> era, and zero once era reaches the width of a u64.
calculate_subsidy_split(height) ==
    LET era   == height \div BLOCKS_PER_ERA
        total == IF era >= 64 THEN 0 ELSE INITIAL_BLOCK_REWARD \div 2^era
    IN  apply_dev_tax_split(total)

\* Half of the fee is burned, the rest is split like the block reward.
burn_share == TRANSACTION_FEE \div 2
fee_distribution == apply_dev_tax_split(TRANSACTION_FEE - burn_share)

\* Mutant: the miner's output is not compared.
verify_coinbase_rewards_devOnly(block) ==
    block.coinbase.dev = calculate_subsidy_split(block.height).dev

\* The coinbase a block claims is exactly the scheduled one.
verify_coinbase_rewards(block) ==
    block.coinbase = calculate_subsidy_split(block.height)

-----------------------------------------------------------------------------
(* Ledger values. *)

Ledgers == [balances    : [Addr -> 0..MAX_U64],
            next_nonces : [Addr -> Nat],
            confirmed   : SUBSET Txs]

DefaultLedger == [balances    |-> [a \in Addr |-> 0],
                  next_nonces |-> [a \in Addr |-> 0],
                  confirmed   |-> {}]

Credit(b, a, x) == [b EXCEPT ![a] = @ + x]
\* checked_add; the mutant is a plain addition.
CanCredit_unchecked(b, a, x) == TRUE
CanCredit(b, a, x) == b[a] + x <= MAX_U64

(***************************************************************************)
(* try_apply_transaction works on a scratch ledger, in this order: the id  *)
(* is recorded, amount and nonce are checked, the sender pays amount plus  *)
(* fee, recipient, miner and treasury are credited, the nonce advances.    *)
(* An error leaves the scratch ledger with what was done before it.        *)
(***************************************************************************)

\* The balances after the sender's debit and after each of the credits.
AfterDebit(b, tx) ==
    [b EXCEPT ![tx.sender] = @ - (tx.amount + TRANSACTION_FEE)]
\* Mutant: the recipient's balance is read before the sender's debit.
AfterRecipient_staleRead(b, tx) ==
    [AfterDebit(b, tx) EXCEPT ![tx.recipient] = b[tx.recipient] + tx.amount]
AfterRecipient(b, tx) == Credit(AfterDebit(b, tx), tx.recipient, tx.amount)
AfterMinerFee(b, tx, miner) ==
    Credit(AfterRecipient(b, tx), miner, fee_distribution.miner)
AfterDevFee(b, tx, miner) ==
    Credit(AfterMinerFee(b, tx, miner), DEV_TREASURY_ADDRESS, fee_distribution.dev)

\* Mutants: a later nonce is accepted; funds are not checked.
Payable_nonceAtLeast(s, tx) ==
    /\ tx \notin s.confirmed
    /\ tx.amount # 0
    /\ tx.nonce >= s.next_nonces[tx.sender]
    /\ tx.amount + TRANSACTION_FEE <= MAX_U64
    /\ tx.amount + TRANSACTION_FEE <= s.balances[tx.sender]
Payable_unfunded(s, tx) ==
    /\ tx \notin s.confirmed
    /\ tx.amount # 0
    /\ tx.nonce = s.next_nonces[tx.sender]
    /\ tx.amount + TRANSACTION_FEE <= MAX_U64

\* The checks before any balance moves.  The id is looked up in the
\* confirmed set only: every id inserted in block_transactions is inserted
\* in the scratch confirmed set as well.
Payable(s, tx) ==
    /\ tx \notin s.confirmed
    /\ tx.amount # 0
    /\ tx.nonce = s.next_nonces[tx.sender]
    /\ tx.amount + TRANSACTION_FEE <= MAX_U64
    /\ tx.amount + TRANSACTION_FEE <= s.balances[tx.sender]

RecipientFits(s, tx) ==
    CanCredit(AfterDebit(s.balances, tx), tx.recipient, tx.amount)
MinerFeeFits(s, tx, miner) ==
    CanCredit(AfterRecipient(s.balances, tx), miner, fee_distribution.miner)
DevFeeFits(s, tx, miner) ==
    CanCredit(AfterMinerFee(s.balances, tx, miner),
              DEV_TREASURY_ADDRESS, fee_distribution.dev)

\* try_apply_transaction returns Ok.
TxApplies(s, tx, miner) ==
    /\ Payable(s, tx)
    /\ RecipientFits(s, tx)
    /\ MinerFeeFits(s, tx, miner)
    /\ DevFeeFits(s, tx, miner)

\* Mutant: the nonce does not advance.
TxApplied_nonceKept(s, tx, miner) ==
    [s EXCEPT !.balances  = AfterDevFee(@, tx, miner),
              !.confirmed = @ \cup {tx}]

\* The scratch ledger after Ok.
TxApplied(s, tx, miner) ==
    [balances    |-> AfterDevFee(s.balances, tx, miner),
     next_nonces |-> [s.next_nonces EXCEPT ![tx.sender] = @ + 1],
     confirmed   |-> s.confirmed \cup {tx}]

\* The scratch ledger after Err: the id is recorded, and the balances moved
\* before the failing credit stay moved.
TxFailed(s, tx, miner) ==
    [s EXCEPT
        !.confirmed = @ \cup {tx},
        !.balances  = IF ~Payable(s, tx) THEN @
                      ELSE IF ~RecipientFits(s, tx) THEN AfterDebit(@, tx)
                      ELSE IF ~MinerFeeFits(s, tx, miner) THEN AfterRecipient(@, tx)
                      ELSE AfterMinerFee(@, tx, miner)]

\* The last part of apply_block: the coinbase is credited to the miner, then
\* to the treasury.
AfterMinerReward(b, block) == Credit(b, block.miner, block.coinbase.miner)
CoinbaseFits(s, block) ==
    /\ CanCredit(s.balances, block.miner, block.coinbase.miner)
    /\ CanCredit(AfterMinerReward(s.balances, block),
                 DEV_TREASURY_ADDRESS, block.coinbase.dev)
CoinbaseApplied(s, block) ==
    [s EXCEPT !.balances = Credit(AfterMinerReward(@, block),
                                  DEV_TREASURY_ADDRESS, block.coinbase.dev)]
-----------------------------------------------------------------------------
(* Whole calls, as values: [ok, ledger].                                   *)

\* The loop of apply_block stops at the first transaction that fails.
ApplyOne(acc, tx, miner) ==
    IF acc.ok /\ TxApplies(acc.ledger, tx, miner)
    THEN [acc EXCEPT !.ledger = TxApplied(@, tx, miner)]
    ELSE [acc EXCEPT !.ok = FALSE]
ApplyTxs(s, txs, miner) ==
    FoldLeft(LAMBDA acc, tx : ApplyOne(acc, tx, miner), [ok |-> TRUE, ledger |-> s], txs)

\* A genesis block must be empty and changes nothing; any other must claim the
\* scheduled coinbase for the treasury, and takes effect whole or not at all.
apply_block(s, block) ==
    LET looped == ApplyTxs(s, block.txs, block.miner)
        failed == [ok |-> FALSE, ledger |-> s]
    IN  IF block.height = 0
        THEN [ok |-> block.txs = <<>> /\ block.coinbase = [miner |-> 0, dev |-> 0],
              ledger |-> s]
        ELSE IF /\ verify_coinbase_rewards(block)
                /\ block.dev = DEV_TREASURY_ADDRESS
                /\ looped.ok
                /\ CoinbaseFits(looped.ledger, block)
             THEN [ok |-> TRUE, ledger |-> CoinbaseApplied(looped.ledger, block)]
             ELSE failed

\* recompute_ledger: the blocks of an order from the default ledger, up to the
\* first that fails; so does a block that is not among the known ones.
ReplayOne(acc, blocks, known, h) ==
    IF ~acc.ok THEN acc
    ELSE IF h \notin known THEN [acc EXCEPT !.ok = FALSE]
    ELSE apply_block(acc.ledger, blocks[h])
ReplayAll(blocks, known, order) ==
    FoldLeft(LAMBDA acc, h : ReplayOne(acc, blocks, known, h),
             [ok |-> TRUE, ledger |-> DefaultLedger], order)

\* The candidates that apply, in order, each to what the others left.
SelectOne(acc, tx, miner) ==
    IF TxApplies(acc.ledger, tx, miner)
    THEN [accepted |-> Append(acc.accepted, tx),
          ledger   |-> TxApplied(acc.ledger, tx, miner)]
    ELSE [acc EXCEPT !.ledger = TxFailed(@, tx, miner)]
select_affordable(s, candidates, miner) ==
    FoldLeft(LAMBDA acc, tx : SelectOne(acc, tx, miner),
             [accepted |-> <<>>, ledger |-> s], candidates).accepted

=============================================================================
