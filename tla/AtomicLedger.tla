---------------------------- MODULE AtomicLedger ----------------------------
(***************************************************************************)
(* What the ledger code promises: blocks take effect one at a time and     *)
(* whole, or not at all.  The shared ledger moves from block to block, or  *)
(* is exchanged for one that was built from the default ledger in the same *)
(* way.  Ledger, where every transaction of a block is a step of its own   *)
(* and transactions come in between, implements this specification.        *)
(***************************************************************************)
EXTENDS LedgerState

CONSTANTS
    Miner,          \* this node's reward address
    BATCH,          \* transactions of an own block at most
    PeerBlocks,     \* blocks of others
    Heights         \* heights at which this node mines

VARIABLES
    live,   \* the shared ledger
    fresh   \* the ledger a replay has built so far

Init == live = DefaultLedger /\ fresh = DefaultLedger

OwnBlock(h, txs) == [height   |-> h,
                     miner    |-> Miner,
                     dev      |-> DEV_TREASURY_ADDRESS,
                     coinbase |-> calculate_subsidy_split(h),
                     txs      |-> txs]

\* A block of a peer, or an own one of pending transactions.
ApplyPeer(b) == live' = apply_block(live, b).ledger /\ UNCHANGED fresh
ApplyOwn(h, txs) == live' = apply_block(live, OwnBlock(h, txs)).ledger /\ UNCHANGED fresh

\* The replay of a stored block, and its two ends.
Replay(b) == fresh' = apply_block(fresh, b).ledger /\ UNCHANGED live
Adopt == live' = fresh /\ fresh' = DefaultLedger
Abandon == fresh' = DefaultLedger /\ UNCHANGED live

Next ==
    \/ \E b \in PeerBlocks : ApplyPeer(b) \/ Replay(b)
    \/ \E h \in Heights, txs \in BoundedSeq(Txs, BATCH) : ApplyOwn(h, txs)
    \/ Adopt
    \/ Abandon

Spec == Init /\ [][Next]_<<live, fresh>>
=============================================================================
