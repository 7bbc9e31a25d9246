------------------------------- MODULE Ledger -------------------------------
(***************************************************************************)
(* The shared ledger and mempool of a node and the code that works on      *)
(* them: RPC handlers add transactions (rpc.rs) while the event loop       *)
(* (main.rs) assembles its own blocks, applies blocks of its own and of    *)
(* peers, and rebuilds the ledger by replaying blocks from the default     *)
(* ledger (ghostdag.rs, recompute_ledger).                                 *)
(*                                                                         *)
(* RPC handlers run in tasks of their own, so a transaction may arrive     *)
(* between any two steps of the loops of select_affordable and             *)
(* apply_block; each iteration of those loops is one action here.  Which   *)
(* blocks come, in which order and at which height, is left open: the      *)
(* module promises its properties for every DAG.                           *)
(***************************************************************************)
EXTENDS LedgerState

CONSTANTS
    Miner,          \* this node's reward address
    BATCH,          \* drain_to_batch takes at most this many (10 in main.rs)
    Submitted,      \* the transactions that are submitted here
    PeerBlocks,     \* blocks that peers send or that a replay meets
    Heights,        \* heights at which this node mines
    MaxBlocks       \* bound: blocks applied to each ledger

ASSUME LedgerAssumption ==
    /\ Miner \in Addr
    /\ Submitted \subseteq Txs
    /\ BATCH \in Nat \ {0}
    /\ Heights \subseteq Nat \ {0}
    /\ MaxBlocks \in [{"live", "fresh"} -> Nat]

\* A block as far as the ledger reads it.
Blocks == [height   : Nat \ {0},
           miner    : Addr,
           dev      : Addr,
           coinbase : [miner : Nat, dev : Nat],
           txs      : Seq(Txs)]

ASSUME PeerBlocksAssumption == PeerBlocks \subseteq Blocks

VARIABLES
    mempool,    \* Mempool.pending_transactions, by id
    ledger,     \* ledger["live"]: the shared LedgerState;
                \* ledger["fresh"]: the one recompute_ledger builds
    replaying,  \* recompute_ledger is running
    pc,         \* what the event loop does: "idle", "select" or "apply"
    batch,      \* the candidates of select_affordable
    todo,       \* transactions its loop has not reached
    chosen,     \* `accepted` of select_affordable
    block,      \* the block apply_block works on
    own,        \* that block was assembled here
    scratch,    \* the clone the loop mutates
    applied     \* history: the heights of the blocks applied to each ledger

vars == <<mempool, ledger, replaying, pc, batch, todo, chosen, block, own, scratch, applied>>
loop == <<pc, batch, todo, chosen, block, own, scratch>>

NoBlock == [height |-> 0, txs |-> <<>>]

\* The ledger that apply_block is called on.
target == IF replaying THEN "fresh" ELSE "live"

TypeOK ==
    /\ mempool \in SUBSET Txs
    /\ ledger \in [{"live", "fresh"} -> Ledgers]
    /\ replaying \in BOOLEAN
    /\ pc \in {"idle", "select", "apply"}
    /\ batch \in Seq(Txs)
    /\ todo \in Seq(Txs)
    /\ chosen \in Seq(Txs)
    /\ block \in Blocks \cup {NoBlock}
    /\ pc = "apply" => block \in Blocks
    /\ own \in BOOLEAN
    /\ scratch \in Ledgers
    /\ applied \in [{"live", "fresh"} -> Seq(Nat)]

Init ==
    /\ mempool = {}
    /\ ledger = [l \in {"live", "fresh"} |-> DefaultLedger]
    /\ replaying = FALSE
    /\ pc = "idle"
    /\ batch = <<>>
    /\ todo = <<>>
    /\ chosen = <<>>
    /\ block = NoBlock
    /\ own = FALSE
    /\ scratch = DefaultLedger
    /\ applied = [l \in {"live", "fresh"} |-> <<>>]

\* The loop is over and its locals are gone.
Idle ==
    /\ pc' = "idle"
    /\ batch' = <<>>
    /\ todo' = <<>>
    /\ chosen' = <<>>
    /\ block' = NoBlock
    /\ own' = FALSE
    /\ scratch' = DefaultLedger

-----------------------------------------------------------------------------
(* The mempool. *)

\* submit_transaction: build_transaction refuses a zero amount and
\* add_transaction an id that is already pending.
add_transaction(tx) ==
    /\ tx.amount # 0
    /\ tx \notin mempool
    /\ mempool' = mempool \cup {tx}
    /\ UNCHANGED <<ledger, replaying, loop, applied>>

\* The mining tick takes a batch out of the mempool, in the arbitrary order
\* of a HashMap, and select_affordable clones the live ledger.
drain_to_batch ==
    /\ pc = "idle" /\ ~replaying
    /\ Len(applied["live"]) < MaxBlocks["live"]
    /\ \E txs \in BoundedSeq(mempool, BATCH) :
          /\ IsInjective(txs)
          /\ Len(txs) = BATCH \/ ToSet(txs) = mempool
          /\ batch' = txs
          /\ todo' = txs
          /\ mempool' = mempool \ ToSet(txs)
    /\ pc' = "select"
    /\ scratch' = ledger["live"]
    /\ UNCHANGED <<ledger, replaying, chosen, block, own, applied>>

-----------------------------------------------------------------------------
(* select_affordable: a transaction that fails is dropped, the loop goes   *)
(* on with the scratch ledger as the failure left it.                      *)

\* Mutant: every candidate is judged against the ledger before the batch.
SelectStep_noScratch ==
    /\ pc = "select" /\ todo # <<>>
    /\ chosen' = IF TxApplies(scratch, Head(todo), Miner)
                 THEN Append(chosen, Head(todo)) ELSE chosen
    /\ todo' = Tail(todo)
    /\ UNCHANGED <<mempool, ledger, replaying, pc, batch, block, own, scratch, applied>>

SelectStep ==
    /\ pc = "select" /\ todo # <<>>
    /\ LET tx == Head(todo) IN
          IF TxApplies(scratch, tx, Miner)
          THEN /\ scratch' = TxApplied(scratch, tx, Miner)
               /\ chosen' = Append(chosen, tx)
          ELSE /\ scratch' = TxFailed(scratch, tx, Miner)
               /\ UNCHANGED chosen
    /\ todo' = Tail(todo)
    /\ UNCHANGED <<mempool, ledger, replaying, pc, batch, block, own, applied>>

\* create_block with the chosen transactions, and the start of apply_block.
BeginOwnBlock(h) ==
    /\ pc = "select" /\ todo = <<>>
    /\ block' = [height   |-> h,
                 miner    |-> Miner,
                 dev      |-> DEV_TREASURY_ADDRESS,
                 coinbase |-> calculate_subsidy_split(h),
                 txs      |-> chosen]
    /\ pc' = "apply"
    /\ own' = TRUE
    /\ batch' = <<>>
    /\ todo' = chosen
    /\ chosen' = <<>>
    /\ scratch' = ledger["live"]
    /\ UNCHANGED <<mempool, ledger, replaying, applied>>

-----------------------------------------------------------------------------
(* apply_block, on the live ledger or on the one being rebuilt. *)

\* The checks before the loop.  A block of height 0 is the empty genesis and
\* changes nothing, a block that fails a check neither: no step.
BeginBlock(b) ==
    /\ pc = "idle"
    /\ Len(applied[target]) < MaxBlocks[target]
    /\ verify_coinbase_rewards(b)
    /\ b.dev = DEV_TREASURY_ADDRESS
    /\ block' = b
    /\ pc' = "apply"
    /\ todo' = b.txs
    /\ scratch' = ledger[target]
    /\ UNCHANGED <<mempool, ledger, replaying, batch, chosen, own, applied>>

ApplyStep ==
    /\ pc = "apply" /\ todo # <<>>
    /\ TxApplies(scratch, Head(todo), block.miner)
    /\ scratch' = TxApplied(scratch, Head(todo), block.miner)
    /\ todo' = Tail(todo)
    /\ UNCHANGED <<mempool, ledger, replaying, pc, batch, chosen, block, own, applied>>

\* apply_block returns the first error; so does recompute_ledger, which then
\* loses the ledger it was building.
Fails ==
    /\ pc = "apply"
    /\ IF todo # <<>> THEN ~TxApplies(scratch, Head(todo), block.miner)
                      ELSE ~CoinbaseFits(scratch, block)

\* Mutant: apply_block works on the ledger itself, without a clone.
ApplyError_inPlace ==
    /\ Fails
    /\ Idle
    /\ ledger' = [ledger EXCEPT ![target] =
                     IF todo # <<>> THEN TxFailed(scratch, Head(todo), block.miner)
                                    ELSE scratch]
    /\ UNCHANGED <<mempool, replaying, applied>>

ApplyError ==
    /\ Fails
    /\ Idle
    /\ replaying' = FALSE
    /\ ledger' = [ledger EXCEPT !["fresh"] = DefaultLedger]
    /\ applied' = [applied EXCEPT !["fresh"] = <<>>]
    /\ UNCHANGED mempool

Commit ==
    /\ pc = "apply" /\ todo = <<>>
    /\ CoinbaseFits(scratch, block)
    /\ ledger' = [ledger EXCEPT ![target] = CoinbaseApplied(scratch, block)]
    /\ applied' = [applied EXCEPT ![target] = Append(@, block.height)]
    /\ Idle
    /\ UNCHANGED <<mempool, replaying>>

-----------------------------------------------------------------------------
(* recompute_ledger, and *guard = recomputed at its end. *)

BeginReplay ==
    /\ pc = "idle" /\ ~replaying
    /\ replaying' = TRUE
    /\ UNCHANGED <<mempool, ledger, loop, applied>>

EndReplay ==
    /\ pc = "idle" /\ replaying
    /\ replaying' = FALSE
    /\ ledger' = [ledger EXCEPT !["live"] = ledger["fresh"], !["fresh"] = DefaultLedger]
    /\ applied' = [applied EXCEPT !["live"] = applied["fresh"], !["fresh"] = <<>>]
    /\ UNCHANGED <<mempool, loop>>

Next ==
    \/ \E tx \in Submitted : add_transaction(tx)
    \/ drain_to_batch
    \/ SelectStep
    \/ \E h \in Heights : BeginOwnBlock(h)
    \/ \E b \in PeerBlocks : BeginBlock(b)
    \/ ApplyStep
    \/ ApplyError
    \/ Commit
    \/ BeginReplay
    \/ EndReplay

Spec == Init /\ [][Next]_vars

-----------------------------------------------------------------------------
(* Properties. *)

\* What the schedule issues for the blocks applied to a ledger.
Issued(l) ==
    LET reward == [i \in DOMAIN applied[l] |->
                      LET c == calculate_subsidy_split(applied[l][i])
                      IN  c.miner + c.dev]
    IN  SumFunction(reward)

\* Money is created by the reward schedule and destroyed by the burned half of
\* each confirmed transaction's fee, and by nothing else: neither a block that
\* is abandoned half way (apply_block's scratch copies), nor transfers whose
\* sender, recipient, miner and treasury coincide, nor a replay.
SupplyConserved ==
    \A l \in {"live", "fresh"} :
        SumFunction(ledger[l].balances)
            = Issued(l) - burn_share * Cardinality(ledger[l].confirmed)

\* The nonces a sender has confirmed are exactly 0 .. next_nonce - 1: none is
\* skipped and none beyond the expected one gets in, whatever the order in
\* which mempool, peers and replays deliver transactions.
LedgerNonces(s) ==
    \A a \in Addr :
        {t.nonce : t \in {u \in s.confirmed : u.sender = a}}
            = 0 .. s.next_nonces[a] - 1
NoncesContiguous == \A l \in {"live", "fresh"} : LedgerNonces(ledger[l])

\* A sender's nonce is spent once.  Ids do not give this: the same payload
\* signed twice has two ids, and both copies can sit in the mempool, in a
\* batch and in blocks of different miners.
SpentOnce(s) ==
    \A t, u \in s.confirmed :
        t.sender = u.sender /\ t.nonce = u.nonce => t = u
NoDoubleSpend == \A l \in {"live", "fresh"} : SpentOnce(ledger[l])

\* select_affordable and apply_block never drift apart: while the coins ever
\* issued fit a u64, apply_block does not refuse a block whose transactions
\* select_affordable accepted, although the former never sees the failed
\* candidates that left their traces in the latter's scratch ledger.
SelectionSound ==
    own /\ Issued("live") + block.coinbase.miner + block.coinbase.dev <= MAX_U64
        => ~Fails

\* The loops here compute what the operators apply_block and select_affordable
\* of LedgerState compute in one go, although transactions are submitted
\* between their iterations; Node uses those operators.
LoopsMatchCalls ==
    /\ Fails => ~apply_block(ledger[target], block).ok
    /\ pc = "apply" /\ todo = <<>> /\ ~Fails =>
          apply_block(ledger[target], block)
              = [ok |-> TRUE, ledger |-> CoinbaseApplied(scratch, block)]
    /\ pc = "select" => select_affordable(ledger["live"], batch, Miner)
                            = chosen \o select_affordable(scratch, todo, Miner)

\* Blocks take effect whole or not at all, although each transaction is a step
\* of its own here, submissions come in between, selection and application
\* lock the ledger twice and a replay may be given up half way.
Atomic == INSTANCE AtomicLedger WITH live <- ledger["live"], fresh <- ledger["fresh"]
LedgerIsAtomic == Atomic!Spec
=============================================================================
