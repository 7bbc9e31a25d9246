------------------------------ MODULE BlockId ------------------------------
(***************************************************************************)
(* What a block's hash stands for (VeloBlock in vdag-consensus/src/lib.rs, *)
(* the checks of network.rs): nodes keep blocks under calculate_hash, which *)
(* covers neither the transactions, but for their Merkle root, nor the     *)
(* coinbase amounts.  A block may reach a node with either of them changed *)
(* on the way; the node knows the hash only.                               *)
(*                                                                         *)
(* SHA3-256 is a free constructor: digests are equal when they are made    *)
(* from equal parts.  A transaction's id hashes the bytes of public_key    *)
(* and signature one after the other, without their lengths.               *)
(***************************************************************************)
EXTENDS LedgerState

CONSTANTS
    Miners,         \* the nodes, each mining to its own address
    ValidSigs,      \* values of `sig` that verify
    Resplit,        \* maps a `sig` to the one with the same bytes that verifies
    MaxHeight,      \* bound on the chain
    MaxMined,       \* bound on the blocks
    MaxTxs          \* bound on the transactions of a block under way

\* A key that verifies has the length of a key: its bytes and those of the
\* signature are divided in one way.
ASSUME BlockIdAssumption ==
    /\ Miners \subseteq Addr
    /\ IsFiniteSet(Txs)
    /\ \A v \in ValidSigs : Resplit[v] = v
    /\ MaxHeight \in Nat /\ MaxMined \in Nat /\ MaxTxs \in Nat

VARIABLES
    mined,          \* every block a node has mined
    store,          \* per node: blocks by hash
    ledger          \* per node: ledger_state

vars == <<mined, store, ledger>>

-----------------------------------------------------------------------------
(* Digests. *)

transaction_id(tx) == [leaf |-> [tx EXCEPT !.sig = Resplit[@]]]

\* One round over a layer; an element without a partner is its own partner.
NextLayer(layer) ==
    [i \in 1 .. (Len(layer) + 1) \div 2 |->
        [left  |-> layer[2 * i - 1],
         right |-> IF 2 * i <= Len(layer) THEN layer[2 * i] ELSE layer[2 * i - 1]]]

\* Rounds while more than one element is left: fewer than there are elements.
Round(layer) == IF Len(layer) > 1 THEN NextLayer(layer) ELSE layer
Rounds(ids) ==
    LET layer[r \in 0..Len(ids)] == IF r = 0 THEN ids ELSE Round(layer[r - 1])
    IN  layer[Len(ids)]

ZeroRoot == [zero |-> TRUE]
transaction_merkle_root(txs) ==
    IF txs = <<>> THEN ZeroRoot
    ELSE Rounds([i \in DOMAIN txs |-> transaction_id(txs[i])])[1]

\* Mutant: the commitment is not compared.
verify_transaction_merkle_root_present(b) == b.root = ZeroRoot => b.txs = <<>>
verify_transaction_merkle_root(b) == b.root = transaction_merkle_root(b.txs)

\* verify_transaction_signature checks the length of the key as well.
verify_transaction_signature(tx) == tx.sig \in ValidSigs

calculate_hash(b) == [height |-> b.height, parents |-> b.parents, root |-> b.root,
                      miner |-> b.miner, dev |-> b.dev]

-----------------------------------------------------------------------------

GenesisHash == [height |-> 0]

Init ==
    /\ mined = {}
    /\ store = [n \in Miners |-> <<>>]
    /\ ledger = [n \in Miners |-> DefaultLedger]

Known(n, h) == h = GenesisHash \/ h \in DOMAIN store[n]
Keep(f, b) == [h \in DOMAIN f \cup {calculate_hash(b)} |->
                  IF h = calculate_hash(b) THEN b ELSE f[h]]

\* The ledger after a block: that of the blocks in some order, if they apply in
\* the order of the canonical tip, or else the present one with the block.
Replayed(blocks, order) == ReplayAll(blocks, DOMAIN blocks, order)
LedgersAfter(n, blocks, b) ==
    {apply_block(ledger[n], b).ledger}
    \cup {r.ledger : r \in {q \in {Replayed(blocks, order) :
                                   order \in SetToAllKPermutations(DOMAIN blocks)} : q.ok}}

\* The block goes into the store, and the ledger is recomputed.
Ingest(n, b) ==
    /\ store' = [store EXCEPT ![n] = Keep(@, b)]
    /\ \E l \in LedgersAfter(n, store'[n], b) : ledger' = [ledger EXCEPT ![n] = l]

\* The mining tick: a batch as select_affordable leaves it.
Mine(n, parent, batch) ==
    LET b == [height |-> parent.height + 1, parents |-> <<parent>>, miner |-> n,
              dev |-> DEV_TREASURY_ADDRESS, root |-> transaction_merkle_root(batch),
              coinbase |-> calculate_subsidy_split(parent.height + 1), txs |-> batch]
    IN  /\ b.height <= MaxHeight /\ b \notin mined
        /\ Cardinality(mined) < MaxMined
        /\ \A i \in DOMAIN batch : verify_transaction_signature(batch[i])
        /\ apply_block(ledger[n], b).ok
        /\ mined' = mined \cup {b}
        /\ Ingest(n, b)

\* Mutant: the ledger is not asked.
Valid_unapplied(n, b) ==
    /\ verify_coinbase_rewards(b)
    /\ verify_transaction_merkle_root(b)
    /\ \A i \in DOMAIN b.txs : verify_transaction_signature(b.txs[i])

\* The checks of validate_and_ingest that concern what the hash leaves out.
Valid(n, b) ==
    /\ verify_coinbase_rewards(b)
    /\ verify_transaction_merkle_root(b)
    /\ \A i \in DOMAIN b.txs : verify_transaction_signature(b.txs[i])
    /\ apply_block(ledger[n], b).ok

\* A block as it was mined, or changed in what its hash leaves out.
Variants(b) ==
    LET txs       == SeqOf(UNION {{u \in Txs : u.nonce = v.nonce} : v \in ToSet(b.txs)}, MaxTxs)
        coinbases == {b.coinbase, [b.coinbase EXCEPT !.miner = @ + 1]}
    IN  {[b EXCEPT !.txs = p[1], !.coinbase = p[2]] : p \in txs \X coinbases}

Receive(n, b) ==
    /\ ~Known(n, calculate_hash(b))
    /\ Known(n, b.parents[1])
    /\ Valid(n, b)
    /\ Ingest(n, b)
    /\ UNCHANGED mined

\* The batches the mining tick of n may take from its mempool.
Batches(n) == {select_affordable(ledger[n], candidates, n) :
                  candidates \in SetToAllKPermutations({tx \in Txs : tx.sig \in ValidSigs})}

Next ==
    \E n \in Miners :
        \/ \E parent \in {GenesisHash} \cup DOMAIN store[n], batch \in Batches(n) :
              Mine(n, parent, batch)
        \/ \E m \in mined : ~Known(n, calculate_hash(m)) /\ \E b \in Variants(m) : Receive(n, b)

Spec == Init /\ [][Next]_vars

-----------------------------------------------------------------------------
(* Properties. *)

AllBlocks == mined \cup UNION {Range(store[n]) : n \in Miners}

\* A hash names one block: whatever was changed under way, two nodes that keep a
\* block under the same hash keep the same transactions and amounts, those its
\* miner put in.  The Merkle root alone does not say this: it is the same for
\* <<a, b, c>> and <<a, b, c, c>>, and for a public key and a signature divided
\* elsewhere; the ledger refuses the one and the signature check the other.
HashNamesOneBlock ==
    \A b, c \in AllBlocks : calculate_hash(b) = calculate_hash(c) => b = c
=============================================================================
