-------------------------------- MODULE Node --------------------------------
(***************************************************************************)
(* VeloDAG nodes (vdag-node: main.rs, network.rs, sync.rs): the mining     *)
(* tick, validation and ingestion of blocks from gossip, orphan replay and *)
(* sync, the sync protocol with its mining gate, and restarts.             *)
(*                                                                         *)
(* A node is one event loop.  validate_and_ingest calls itself for the     *)
(* orphans a block resolves; the calls still to be made are the stack      *)
(* `todo`, one Process action is one call, and the loop takes no other     *)
(* event before the stack is empty.  Gossip delays, reorders, duplicates   *)
(* and loses blocks at will; a sync request is answered or fails.  Reads   *)
(* and writes of the database may fail, those of the start-up as well: a   *)
(* failed write leaves what was there before, and a node that cannot read  *)
(* what it stored starts without it.                                       *)
(***************************************************************************)
EXTENDS LedgerState, Ghostdag

CONSTANTS
    Nodes,
    MinerOf,            \* each node's reward address
    Hashes,             \* block hashes that mining can produce
    TARGET_INTERVAL, WINDOW_SIZE,   \* DifficultyManager::new(1, 4)
    INITIAL_TARGET,     \* leading bytes of [0x0f; 32], as a number
    BATCH,              \* most transactions the mining tick takes: 10
    ORPHAN_POOL_MAX, MAX_SYNC_BLOCKS, MAX_FUTURE_DRIFT_SECS,
    ForeignBlocks,      \* [hash, block]: blocks of miners that are not nodes
    MaxTime,            \* bound on the clock
    MaxConnects,        \* bounds: the connections each node opens,
    MaxRestarts,        \* its restarts,
    MaxDiskErrors,      \* and the reads and writes that fail at it
    MAX_U128,           \* largest value of a target's leading bytes
    CanCrashMidway      \* a restart may interrupt an ingestion

Genesis == 0
Stranger == "stranger"  \* the peer behind foreign blocks, on another network
OtherGenesis == 99      \* genesis of that network; gossip shares one topic
ForeignHashes == {f.hash : f \in ForeignBlocks}
AllHashes == Hashes \cup ForeignHashes \cup {OtherGenesis}

ASSUME NodeAssumption ==
    /\ AllHashes \subseteq Nat \ {Genesis}
    /\ IsFiniteSet(Hashes) /\ IsFiniteSet(ForeignBlocks)
    /\ OtherGenesis \notin Hashes
    /\ \A f \in ForeignBlocks : f.hash \notin Hashes \cup {OtherGenesis}
    /\ Stranger \notin Nodes
    /\ MinerOf \in [Nodes -> Addr]
    /\ TARGET_INTERVAL \in Nat /\ WINDOW_SIZE \in Nat \ {0}
    /\ {ORPHAN_POOL_MAX, MAX_SYNC_BLOCKS, MAX_FUTURE_DRIFT_SECS, MaxTime, MAX_U128} \subseteq Nat
    /\ INITIAL_TARGET \in 0..MAX_U128
    /\ BATCH \in Nat \ {0}
    /\ {MaxConnects, MaxRestarts, MaxDiskErrors} \subseteq [Nodes -> Nat]
    /\ CanCrashMidway \in BOOLEAN

\* A target is 16 leading bytes, the part that is scaled, and 16 more, which
\* are 0x0f at the start and 0xff (padded) from the first adjustment on.
Targets == [leading : 0..MAX_U128, padded : BOOLEAN]
InitialTarget == [leading |-> INITIAL_TARGET, padded |-> FALSE]

\* Foreign blocks build on foreign blocks or on a genesis: they exist from the
\* start, and a block names its parents by their hashes.
ASSUME ForeignAssumption ==
    \A f \in ForeignBlocks :
        f.block \in [parents : Seq(ForeignHashes \cup {Genesis, OtherGenesis}),
                     height : Nat, target : Targets, time : Nat,
                     miner : Addr, dev : Addr, coinbase : [miner : Nat, dev : Nat],
                     txs : Seq(Txs), fault : {"none", "merkle_root", "signature", "work", "size"}]

\* The first era pays a reward, by which apply_block tells genesis, which must
\* claim none, from a block of height 0 that passes verify_coinbase_rewards.
ASSUME GenesisAssumption == calculate_subsidy_split(0) # [miner |-> 0, dev |-> 0]

VARIABLES
    mined,      \* every block there is, by hash; foreign ones from the start
    node,       \* per node: its memory and its disk
    net,        \* sync requests and responses under way
    now         \* the wall clock

vars == <<mined, node, net, now>>

GenesisBlock == [parents |-> <<>>, height |-> 0, target |-> InitialTarget, time |-> 0,
                 miner |-> DEV_TREASURY_ADDRESS, dev |-> DEV_TREASURY_ADDRESS,
                 coinbase |-> [miner |-> 0, dev |-> 0], txs |-> <<>>, fault |-> "none"]

\* A node with nothing but genesis.
NewNode == [
    store        |-> [h \in {Genesis} |-> <<>>],          \* block_store: parents by hash
    cache        |-> [h \in {Genesis} |-> GenesisData],   \* ghostdag_cache
    history      |-> <<Genesis>>,                         \* block_history
    ledger       |-> DefaultLedger,                       \* ledger_state
    disk         |-> DefaultLedger,                       \* the saved ledger_state
    saved        |-> {Genesis},                           \* the blocks saved
    target       |-> InitialTarget,                       \* current_difficulty_target
    waiting_on   |-> [h \in AllHashes \cup {Genesis} |-> <<>>],    \* OrphanPool
    current_size |-> 0,
    mempool      |-> {},
    todo         |-> <<>>,      \* calls of validate_and_ingest to be made
    answering    |-> FALSE,     \* they come from a sync response
    sync_pending |-> FALSE,
    blamed       |-> {},        \* peers a violation was recorded against
    unpublished  |-> {},        \* own blocks that were not gossiped
    \* history
    lost         |-> {},        \* blocks whose save failed
    phantom      |-> FALSE,     \* ledger holds a block not ingested, or one twice
    disk_phantom |-> FALSE,     \* ... or disk does
    misread      |-> FALSE,     \* a read of the last start-up failed
    abandoned    |-> FALSE,     \* the last answer was given up half way
    disk_errors  |-> 0,
    connects     |-> 0,
    restarts     |-> 0 ]

Init ==
    /\ mined = [h \in {Genesis} \cup ForeignHashes |->
                   IF h = Genesis THEN GenesisBlock
                   ELSE (CHOOSE f \in ForeignBlocks : f.hash = h).block]
    /\ node = [n \in Nodes |-> NewNode]
    /\ net = {}
    /\ now = 0

Extend(f, x, y) == [z \in DOMAIN f \cup {x} |-> IF z = x THEN y ELSE f[z]]

-----------------------------------------------------------------------------
(* Consensus state of one node, s, as operators on it; `all` is the map of  *)
(* the blocks by hash.                                                     *)

\* Mutant: neither the order of the timestamps nor the ratio is checked.
calculate_next_target_unclamped(all, hs, target) ==
    LET window  == SubSeq(hs, Len(hs) - WINDOW_SIZE + 1, Len(hs))
        elapsed == all[Last(window)].time - all[Head(window)].time
    IN  IF Len(hs) < WINDOW_SIZE THEN target
        ELSE [leading |-> (target.leading * elapsed) \div Max({1, TARGET_INTERVAL * (WINDOW_SIZE - 1)}),
              padded  |-> TRUE]

\* DifficultyManager: the leading bytes are scaled by the time the window took
\* over the time it should take, within a factor of four, and stay what they
\* are where the product does not fit.
calculate_next_target(all, hs, target) ==
    LET window   == SubSeq(hs, Len(hs) - WINDOW_SIZE + 1, Len(hs))
        earliest == all[Head(window)].time
        latest   == all[Last(window)].time
        elapsed  == IF latest > earliest THEN latest - earliest ELSE 1
        expected == Max({1, TARGET_INTERVAL * (WINDOW_SIZE - 1)})
        clamped  == Max({expected \div 4, Min({4 * expected, elapsed})})
        scaled   == IF target.leading * clamped > MAX_U128 THEN target.leading
                    ELSE (target.leading * clamped) \div expected
    IN  IF Len(hs) < WINDOW_SIZE THEN target
        ELSE [leading |-> scaled, padded |-> TRUE]

\* Mutant: the ledger is replayed on top of the present one.
recompute_ledger_onTop(all, s, tip) ==
    FoldLeft(LAMBDA acc, h : IF acc.ok THEN apply_block(acc.ledger, all[h]) ELSE acc,
             [ok |-> TRUE, ledger |-> s.ledger], get_linear_sort(s.cache, tip))

\* Replays the linear order of a tip from the default ledger; a block the
\* node does not have is an error.
recompute_ledger(all, s, tip) ==
    ReplayAll(all, DOMAIN s.store, get_linear_sort(s.cache, tip))

\* The same order, without the blocks the node does not have.
canonical_block_order(s, tip) ==
    LET order == get_linear_sort(s.cache, tip)
    IN  Filtered(order, {i \in DOMAIN order : order[i] \in DOMAIN s.store})

\* The writes of an ingestion that may fail without any effect on its course.
Failures(n) == {f \in SUBSET {"block", "recomputed"} :
                   node[n].disk_errors + Cardinality(f) <= MaxDiskErrors[n]}

\* What follows every new block, mined or received: the ledger is the
\* canonical chain's and is saved, or stays what it is if the replay fails;
\* the target follows the canonical order.
AfterIngest(all, s, failed) ==
    LET tip        == select_canonical_tip(s.store, s.cache)
        recomputed == recompute_ledger(all, s, tip)
        l          == IF recomputed.ok THEN recomputed.ledger ELSE s.ledger
        saved      == recomputed.ok /\ "recomputed" \notin failed
    IN  [s EXCEPT !.ledger       = l,
                  !.disk         = IF saved THEN l ELSE @,
                  !.phantom      = @ /\ ~recomputed.ok,
                  !.disk_phantom = @ /\ ~saved,
                  !.target       = calculate_next_target(all, canonical_block_order(s, tip), @)]

Known(s, h) == h \in DOMAIN s.store

\* The block enters the DAG and block_history.
InsertBlock(s, h, b) ==
    [s EXCEPT !.store   = Extend(@, h, b.parents),
              !.cache   = Extend(@, h, calculate_ghostdag_data(s.store, s.cache, b.parents)),
              !.history = Append(@, h)]

\* It does so whether or not it could be saved; if not, it is ingested once
\* more when it comes again.
ingest_block_only(s, h, b, failed) ==
    [InsertBlock(s, h, b) EXCEPT
        !.saved        = IF "block" \in failed THEN @ ELSE @ \cup {h},
        !.lost         = IF "block" \in failed THEN @ \cup {h} ELSE @,
        !.phantom      = @ \/ Known(s, h),
        !.disk_phantom = @ \/ Known(s, h),
        !.disk_errors  = @ + Cardinality(failed)]

-----------------------------------------------------------------------------
(* OrphanPool. *)

\* A full pool refuses; the same block may be kept twice.
InsertOrphan(s, parent, call) ==
    IF s.current_size >= ORPHAN_POOL_MAX THEN s
    ELSE [s EXCEPT !.waiting_on[parent] = Append(@, call),
                   !.current_size = @ + 1]

\* Mutant: one is subtracted, however many leave.
TakeReady_countOnce(s, h) ==
    [s EXCEPT !.waiting_on[h] = <<>>,
              !.current_size = Max({0, @ - 1}),
              !.todo = s.waiting_on[h] \o @]

\* The orphans waiting on h leave the pool and are validated next.
TakeReady(s, h) ==
    [s EXCEPT !.waiting_on[h] = <<>>,
              !.current_size = Max({0, @ - Len(s.waiting_on[h])}),
              !.todo = s.waiting_on[h] \o @]
-----------------------------------------------------------------------------
(* validate_and_ingest, the call on top of the stack of node n: one action *)
(* per way it can end, each guarded by the checks that come before.        *)

Call(n) == Head(node[n].todo)

\* Coinbase, transaction commitment, signatures, declared target, work.  The
\* target is compared with the current one, whatever the block's height.
WellFormed(s, b) ==
    /\ b.fault = "none"
    /\ verify_coinbase_rewards(b)
    /\ b.height > 0 => b.target = s.target

\* Mutant: only the first parent is looked up.
MissingParents_firstOnly(s, b) ==
    {i \in DOMAIN b.parents : i = 1 /\ ~Known(s, b.parents[i])}

\* The positions of the parents that are not known.
MissingParents(s, b) == {i \in DOMAIN b.parents : ~Known(s, b.parents[i])}
FirstMissing(s, b) == b.parents[Min(MissingParents(s, b))]

\* Height and timestamp follow from the parents and the clock.
FitsDag(b) ==
    IF b.height = 0 THEN b.parents = <<>>
    ELSE /\ b.parents # <<>>
         /\ b.height = 1 + Max({mined[p].height : p \in ToSet(b.parents)})
         /\ \A p \in ToSet(b.parents) : b.time >= mined[p].time
         /\ b.time <= now + MAX_FUTURE_DRIFT_SECS

GateOpened(s) == [s EXCEPT !.sync_pending = FALSE, !.abandoned = FALSE]

\* The call returns with the node in state s; after the last call of a sync
\* response mining may resume.
Return(n, s) ==
    LET done == s.todo = <<>> /\ s.answering
    IN  /\ node' = [node EXCEPT ![n] =
                       IF done THEN GateOpened([s EXCEPT !.answering = FALSE]) ELSE s]
        /\ UNCHANGED <<mined, net, now>>

Popped(n) == [node[n] EXCEPT !.todo = Tail(@)]
Pending(n) == node[n].todo # <<>>

\* load_block, which asks the disk and not block_store.
AlreadyKnown(n) ==
    /\ Pending(n)
    /\ Call(n).hash \in node[n].saved
    /\ Return(n, Popped(n))

\* load_block fails: the error leaves every loop up to handle_p2p_events, the
\* rest of the calls is dropped and mining does not resume.
ReadError(n) ==
    /\ Pending(n)
    /\ node[n].disk_errors < MaxDiskErrors[n]
    /\ node' = [node EXCEPT ![n] = [node[n] EXCEPT !.todo = <<>>,
                                                   !.answering = FALSE,
                                                   !.abandoned = node[n].answering \/ @,
                                                   !.disk_errors = @ + 1]]
    /\ UNCHANGED <<mined, net, now>>

\* A check fails: the violation is the sender's.
Acceptable(s, b) ==
    WellFormed(s, b) /\ (MissingParents(s, b) = {} =>
                            FitsDag(b) /\ apply_block(s.ledger, b).ok)
RejectBlock(n) ==
    /\ Pending(n)
    /\ Call(n).hash \notin node[n].saved
    /\ ~Acceptable(node[n], mined[Call(n).hash])
    /\ Return(n, [Popped(n) EXCEPT !.blamed = @ \cup {Call(n).source}])

\* Kept under the first parent that is missing.
BufferOrphan(n) ==
    LET b == mined[Call(n).hash] IN
    /\ Pending(n)
    /\ Call(n).hash \notin node[n].saved
    /\ WellFormed(node[n], b)
    /\ MissingParents(node[n], b) # {}
    /\ Return(n, InsertOrphan(Popped(n), FirstMissing(node[n], b), Call(n)))

Accepts(n, h) ==
    /\ h \notin node[n].saved
    /\ MissingParents(node[n], mined[h]) = {}
    /\ Acceptable(node[n], mined[h])

\* The ledger with the block applied, in memory and on disk.
Applied(s, b) == LET l == apply_block(s.ledger, b).ledger
                 IN  [s EXCEPT !.ledger = l, !.disk = l, !.disk_phantom = s.phantom]

\* Mutant: the orphans are not looked at.
AcceptBlock_noReplay(n) ==
    /\ Pending(n)
    /\ Accepts(n, Call(n).hash)
    /\ LET h == Call(n).hash
       IN  Return(n, AfterIngest(mined, ingest_block_only(
                                    Applied(Popped(n), mined[h]), h, mined[h], {}), {}))

\* apply_block, ingestion, recomputation, and the orphans that waited on it.
AcceptBlock(n) ==
    /\ Pending(n)
    /\ Accepts(n, Call(n).hash)
    /\ \E failed \in Failures(n) :
          LET h == Call(n).hash
              ingested == ingest_block_only(Applied(Popped(n), mined[h]), h, mined[h], failed)
          IN  Return(n, TakeReady(AfterIngest(mined, ingested, failed), h))

\* The applied ledger cannot be saved: the block is dropped, its effect on the
\* ledger in memory is not undone, and nobody is blamed.
LedgerNotSaved(n) ==
    /\ Pending(n)
    /\ Accepts(n, Call(n).hash)
    /\ node[n].disk_errors < MaxDiskErrors[n]
    /\ Return(n, [Popped(n) EXCEPT !.ledger = apply_block(@, mined[Call(n).hash]).ledger,
                                   !.phantom = TRUE,
                                   !.disk_errors = @ + 1])

-----------------------------------------------------------------------------
(* Events of the loop; it takes one when the stack is empty. *)

Ready(n) == node[n].todo = <<>>

submit_transaction(n, tx) ==
    /\ tx.amount # 0 /\ tx \notin node[n].mempool
    /\ node' = [node EXCEPT ![n].mempool = @ \cup {tx}]
    /\ UNCHANGED <<mined, net, now>>

\* Gossip from a peer that has the block (a copy of a saved one is dropped).
Published(h) == \A m \in Nodes : h \notin node[m].unpublished
Holders(h) == {m \in Nodes : Known(node[m], h)}
              \cup (IF \E f \in ForeignBlocks : f.hash = h THEN {Stranger} ELSE {})
Gossip(n, m, h) ==
    /\ Ready(n) /\ m # n
    /\ h \in DOMAIN mined /\ Published(h) /\ m \in Holders(h)
    /\ h \notin node[n].saved
    /\ node' = [node EXCEPT ![n].todo = <<[source |-> m, hash |-> h]>>]
    /\ UNCHANGED <<mined, net, now>>

\* drain_to_batch: at most BATCH of the pending transactions, in any order.
Batches(s) ==
    UNION {SetToSeqs(txs) : txs \in kSubset(Min({BATCH, Cardinality(s.mempool)}), s.mempool)}
Drained(s, batch) == [s EXCEPT !.mempool = @ \ ToSet(batch)]

\* The block the mining tick builds from a batch, on the canonical tip or, at a
\* node that could not read any block, on genesis.
Template(s, n, batch) ==
    LET tip == IF DOMAIN s.store = {} THEN Genesis
               ELSE select_canonical_tip(s.store, s.cache)
        h   == 1 + mined[tip].height
    IN  [parents |-> <<tip>>, height |-> h, target |-> s.target, time |-> now,
         miner |-> MinerOf[n], dev |-> DEV_TREASURY_ADDRESS,
         coinbase |-> calculate_subsidy_split(h),
         txs |-> select_affordable(s.ledger, batch, MinerOf[n]), fault |-> "none"]

\* Mutant: the tick does not look at the gate.
MiningAllowed_noGate(n) == Ready(n)
MiningAllowed(n) == Ready(n) /\ ~node[n].sync_pending

\* The tick: a batch is drained for good, the block is applied and the
\* ledger saved, then mined (hash h), ingested and, if it could be saved,
\* published.
Mine(n, h) ==
    /\ MiningAllowed(n)
    /\ h \notin DOMAIN mined
    /\ \E batch \in Batches(node[n]), failed \in Failures(n) :
          LET b        == Template(node[n], n, batch)
              drained  == Drained(node[n], batch)
              ingested == ingest_block_only(Applied(drained, b), h, b, failed)
          IN  IF apply_block(node[n].ledger, b).ok
              THEN /\ mined' = Extend(mined, h, b)
                   /\ node' = [node EXCEPT ![n] =
                         [AfterIngest(mined', ingested, failed) EXCEPT !.unpublished =
                             IF "block" \in failed THEN @ \cup {h} ELSE @]]
              ELSE /\ node' = [node EXCEPT ![n] = drained]
                   /\ UNCHANGED mined
    /\ UNCHANGED <<net, now>>

\* The applied ledger cannot be saved: the tick ends there, the batch is gone
\* and the ledger in memory keeps the effect of a block that is never mined.
MineNotSaved(n) ==
    /\ MiningAllowed(n)
    /\ node[n].disk_errors < MaxDiskErrors[n]
    /\ \E batch \in Batches(node[n]) :
          LET applied == apply_block(node[n].ledger, Template(node[n], n, batch))
          IN  /\ applied.ok
              /\ node' = [node EXCEPT ![n] =
                     [Drained(node[n], batch) EXCEPT !.ledger = applied.ledger,
                                                     !.phantom = TRUE,
                                                     !.disk_errors = @ + 1]]
    /\ UNCHANGED <<mined, net, now>>

-----------------------------------------------------------------------------
(* The sync protocol. *)

\* ConnectionEstablished, admitted by the PeerGuard: the gate closes and the
\* peer is asked for what lies above the highest known block.
Connect(n, m) ==
    /\ Ready(n) /\ m # n
    /\ node[n].connects < MaxConnects[n]
    /\ node' = [node EXCEPT ![n].connects = @ + 1, ![n].sync_pending = TRUE]
    /\ net' = net \cup {[type   |-> "request", client |-> n, server |-> m,
                         id     |-> node[n].connects, blocks |-> <<>>,
                         since  |-> Max({0} \cup {mined[h].height : h \in ToSet(node[n].history)})]}
    /\ UNCHANGED <<mined, now>>

Network(m) == IF m = Stranger THEN 2 ELSE 1

\* Mutant: the newest blocks are sent.
blocks_above_newest(hs, since) ==
    LET above == Filtered(hs, {i \in DOMAIN hs : mined[hs[i]].height > since})
    IN  SubSeq(above, Max({1, Len(above) - MAX_SYNC_BLOCKS + 1}), Len(above))

\* The first MAX_SYNC_BLOCKS of block_history above the requested height.
blocks_above(hs, since) ==
    LET above == Filtered(hs, {i \in DOMAIN hs : mined[hs[i]].height > since})
    IN  SubSeq(above, 1, Min({MAX_SYNC_BLOCKS, Len(above)}))

\* A peer of another network is refused.
build_sync_response(r) ==
    IF Network(r.client) # Network(r.server) THEN [r EXCEPT !.type = "mismatch"]
    ELSE [r EXCEPT !.type = "response",
                   !.blocks = blocks_above(node[r.server].history, r.since)]

AnswerSync(r) ==
    /\ r \in net /\ r.type = "request"
    /\ r.server \in Nodes => Ready(r.server)
    /\ net' = (net \ {r}) \cup {build_sync_response(r)}
    /\ UNCHANGED <<mined, node, now>>

\* Every block of the response is validated in turn; the gate opens when the
\* last call has returned, or at once if there is none.
HandleSync(r) ==
    /\ r \in net /\ r.type \in {"response", "mismatch"} /\ Ready(r.client)
    /\ net' = net \ {r}
    /\ node' = [node EXCEPT ![r.client] =
                   IF r.blocks = <<>> THEN GateOpened(@)
                   ELSE [node[r.client] EXCEPT
                            !.answering = TRUE,
                            !.todo = [i \in DOMAIN r.blocks |->
                                         [source |-> r.server, hash |-> r.blocks[i]]]]]
    /\ UNCHANGED <<mined, now>>

\* Mutant: the gate is left closed.
OutboundFailure_gateKept(r) ==
    /\ r \in net /\ Ready(r.client)
    /\ net' = net \ {r}
    /\ UNCHANGED <<mined, node, now>>

\* The request or its answer is lost, or times out.
OutboundFailure(r) ==
    /\ r \in net /\ Ready(r.client)
    /\ net' = net \ {r}
    /\ node' = [node EXCEPT ![r.client] = GateOpened(@)]
    /\ UNCHANGED <<mined, now>>

-----------------------------------------------------------------------------
(* Restarts.  Blocks are read back by height (by hash within a height, the *)
(* order of the database) and the ledger is recomputed from them; the      *)
(* saved ledger is used if that fails.  Each access may fail: "state", the *)
(* read of the saved ledger, "genesis", of the genesis block, "blocks", of *)
(* all blocks, and "recomputed", the write of the recomputed ledger.  The  *)
(* node starts nevertheless.                                               *)

StartFailures(n, s) ==
    {f \in SUBSET {"state", "genesis", "blocks", "recomputed"} :
        /\ s.disk_errors + Cardinality(f) <= MaxDiskErrors[n]
        /\ "genesis" \in f => f \subseteq {"state", "genesis"}}

load_all_blocks(s) ==
    InOrder(s.saved \ {Genesis},
            LAMBDA h, i : \/ mined[h].height < mined[i].height
                          \/ mined[h].height = mined[i].height /\ h < i)

\* A process that starts with the disk of s, and has read genesis at most.
Resumed(s, failed) ==
    [NewNode EXCEPT !.saved = s.saved, !.disk = s.disk, !.lost = s.lost,
                    !.disk_phantom = s.disk_phantom,
                    !.misread = failed \ {"recomputed"} # {},
                    !.unpublished = s.unpublished,
                    !.disk_errors = s.disk_errors + Cardinality(failed),
                    !.connects = s.connects, !.restarts = s.restarts + 1]

\* The DAG as it is replayed from the disk: every block, or none but genesis.
Replayed(s, failed) ==
    FoldLeft(LAMBDA acc, h : InsertBlock(acc, h, mined[h]), Resumed(s, failed),
             IF "blocks" \in failed THEN <<>> ELSE load_all_blocks(s))

\* What load_ledger_state has returned.
persisted(s, failed) == IF "state" \in failed THEN DefaultLedger ELSE s.disk

\* Mutants: no fallback when the replay fails; the saved ledger is trusted.
Restarted_noFallback(s, failed) ==
    LET r == Replayed(s, failed)
        l == recompute_ledger(mined, r, select_canonical_tip(r.store, r.cache)).ledger
    IN  [r EXCEPT !.ledger = l, !.disk = l, !.target = mined[Last(r.history)].target]
Restarted_trustSnapshot(s, failed) ==
    LET r == Replayed(s, failed)
    IN  [r EXCEPT !.ledger = persisted(s, failed), !.target = mined[Last(r.history)].target]

\* Genesis was read.  A replay that succeeds overwrites the saved ledger, also
\* when the blocks could not be read and it replays genesis alone.
Restarted(s, failed) ==
    LET r          == Replayed(s, failed)
        recomputed == recompute_ledger(mined, r, select_canonical_tip(r.store, r.cache))
        l          == IF recomputed.ok THEN recomputed.ledger ELSE persisted(s, failed)
        saved      == recomputed.ok /\ "recomputed" \notin failed
    IN  [r EXCEPT !.ledger       = l,
                  !.disk         = IF saved THEN l ELSE @,
                  !.phantom      = /\ ~recomputed.ok /\ "state" \notin failed
                                   /\ s.disk_phantom \/ s.lost # {},
                  !.disk_phantom = @ /\ ~saved,
                  !.target       = mined[Last(r.history)].target]

\* Genesis was not read: the node runs without any block and with the default
\* ledger, and mines on the genesis it does not have.
RestartedEmpty(s, failed) ==
    [Resumed(s, failed) EXCEPT !.store = [h \in {} |-> <<>>], !.cache = [h \in {} |-> GenesisData],
                               !.history = <<>>]

\* The node comes back with the disk of s.  Its requests are forgotten, the
\* requests it was asked fail.
RestartFrom(n, s) ==
    /\ node[n].restarts < MaxRestarts[n]
    /\ \E failed \in StartFailures(n, s) :
          node' = [node EXCEPT ![n] = IF "genesis" \in failed THEN RestartedEmpty(s, failed)
                                      ELSE Restarted(s, failed)]
    /\ net' = {IF r.server = n /\ r.type = "request" THEN [r EXCEPT !.type = "failed"] ELSE r :
                  r \in {q \in net : q.client # n}}
    /\ UNCHANGED <<mined, now>>

Restart(n) == RestartFrom(n, node[n])

\* A crash between the two writes of an ingestion: the ledger is saved with
\* the block applied, the block is not.
CrashIngesting(n) ==
    /\ CanCrashMidway
    /\ Pending(n) /\ Accepts(n, Call(n).hash)
    /\ RestartFrom(n, [Applied(node[n], mined[Call(n).hash]) EXCEPT !.disk_phantom = TRUE])

\* Or of the mining tick, which saves the ledger before it looks for a nonce.
CrashMining(n) ==
    /\ CanCrashMidway
    /\ MiningAllowed(n)
    /\ \E batch \in Batches(node[n]) :
          LET b == Template(node[n], n, batch)
          IN  /\ apply_block(node[n].ledger, b).ok
              /\ RestartFrom(n, [Applied(node[n], b) EXCEPT !.disk_phantom = TRUE])

Tick ==
    /\ now < MaxTime
    /\ now' = now + 1
    /\ UNCHANGED <<mined, node, net>>

-----------------------------------------------------------------------------

\* One call of validate_and_ingest.
Process(n) ==
    \/ AlreadyKnown(n) \/ RejectBlock(n) \/ BufferOrphan(n) \/ AcceptBlock(n)
    \/ LedgerNotSaved(n) \/ ReadError(n)

Event(n) ==
    \/ \E tx \in Txs : submit_transaction(n, tx)
    \/ \E m \in Nodes \cup {Stranger}, h \in AllHashes : Gossip(n, m, h)
    \/ \E h \in Hashes : Mine(n, h)
    \/ MineNotSaved(n)
    \/ \E m \in Nodes \cup {Stranger} : Connect(n, m)
    \/ Restart(n)
    \/ CrashIngesting(n)
    \/ CrashMining(n)

Next ==
    \/ \E n \in Nodes : Process(n) \/ Event(n)
    \/ \E r \in net : AnswerSync(r) \/ HandleSync(r) \/ OutboundFailure(r)
    \/ Tick

Spec == Init /\ [][Next]_vars

\* The event loop runs: a call in progress returns, and libp2p reports an
\* answer or, after its timeout, a failure for every request.  The first is
\* WF_vars(Process(n)) written out: Process(n) is enabled when a call is pending.
Fairness ==
    \A n \in Nodes :
        /\ []<>~Pending(n) \/ []<><<Process(n)>>_vars
        /\ SF_vars(\E r \in net : r.client = n /\ (HandleSync(r) \/ OutboundFailure(r)))

FairSpec == Spec /\ Fairness

-----------------------------------------------------------------------------
(* Properties. *)

Calls == [source : Nodes \cup {Stranger}, hash : AllHashes]

TypeOK ==
    /\ DOMAIN mined \subseteq AllHashes \cup {Genesis}
    /\ now \in 0..MaxTime
    /\ \A n \in Nodes :
          /\ DOMAIN node[n].store \subseteq DOMAIN mined
          /\ DOMAIN node[n].cache = DOMAIN node[n].store
          /\ node[n].ledger \in Ledgers /\ node[n].disk \in Ledgers
          /\ node[n].target \in Targets
          /\ Genesis \in node[n].saved /\ node[n].saved \subseteq DOMAIN mined
          /\ ToSet(node[n].todo) \subseteq Calls
          /\ node[n].answering => node[n].todo # <<>>
          /\ node[n].blamed \subseteq Nodes \cup {Stranger}
          /\ node[n].mempool \subseteq Txs
    /\ \A r \in net : r.client \in Nodes /\ r.server \in (Nodes \cup {Stranger}) \ {r.client}

\* block_history, from which sync responses are cut, lists every stored block
\* once and each one after its parents, whose heights it continues: whatever
\* the order of gossip, sync and orphan replay, and after every restart.  (A
\* block that could not be saved is ingested again when it comes again, and
\* missing after a restart.)
HistoryTopological ==
    \A n \in Nodes :
        LET hs == node[n].history IN
        node[n].lost = {} =>
        /\ ToSet(hs) = DOMAIN node[n].store /\ IsInjective(hs)
        /\ \A i \in 2..Len(hs) :
              LET b == mined[hs[i]] IN
              /\ ToSet(b.parents) \subseteq {hs[j] : j \in 1..i-1}
              /\ b.height = 1 + Max({mined[p].height : p \in ToSet(b.parents)})

\* The pool's counter is the number of orphans it holds, and so within the
\* limit: a drift would make the pool refuse orphans for ever or grow for ever.
OrphansCounted ==
    \A n \in Nodes :
        /\ node[n].current_size
              = SumFunction([h \in AllHashes \cup {Genesis} |-> Len(node[n].waiting_on[h])])
        /\ node[n].current_size <= ORPHAN_POOL_MAX

\* No orphan waits for a block that is stored already: nothing would ever take
\* it out again (blocks a node mines itself do not look at the pool).
NoOrphanForgotten ==
    \A n \in Nodes, h \in AllHashes \cup {Genesis} :
        Known(node[n], h) => node[n].waiting_on[h] = <<>>

\* Balances and confirmed transactions come from blocks the node has: no
\* reward is counted twice and no transaction is confirmed by a block that is
\* not stored, through incremental application, replay, fallback and restart.
\* A block that was applied and then not ingested, because of a failed write
\* or a crash, or that was ingested a second time because its first write
\* failed (phantom), is forgotten at the latest by the next replay that succeeds.
LedgerBacked ==
    \A n \in Nodes :
        LET stored  == DOMAIN node[n].store \ {Genesis}
            rewards == [h \in stored |-> mined[h].coinbase.miner + mined[h].coinbase.dev]
        IN  ~node[n].phantom =>
            /\ node[n].ledger.confirmed \subseteq UNION {ToSet(mined[h].txs) : h \in stored}
            /\ SumFunction(node[n].ledger.balances) <= SumFunction(rewards)

\* A restart gives back the ledger the node stopped with, be it the canonical
\* replay or, where that fails, the snapshot on disk, unless writes failed or
\* a read of this start-up or of the one before did.  (A read that fails loses
\* the ledger: a node that cannot read its blocks starts with the ledger of
\* genesis alone and overwrites the saved one with it.)
RestartKeepsLedger ==
    [][\A n \in Nodes :
          /\ node'[n].restarts > node[n].restarts
          /\ node[n].lost = {} /\ ~node[n].phantom /\ ~node'[n].phantom
          /\ ~node[n].misread /\ ~node'[n].misread
          => node'[n].ledger = node[n].ledger]_vars

\* Nodes all follow the protocol: none of them records a violation against
\* another for a block it passed on, however late, early or often it comes.
\* (With no stranger around; a block is blamed on whoever forwards it.)
HonestNotBlamed == \A n \in Nodes : node[n].blamed \cap Nodes = {}

\* Whatever height a peer asks from, the answer can be ingested in its order:
\* each block comes after those of its parents that lie above that height, also
\* where the answer is cut off at MAX_SYNC_BLOCKS, where several branches grew
\* in turn and where orphans came late.  (Whether the peer has what lies at or
\* below the height it names is another matter.)
SyncAnswersAttach ==
    \A n \in Nodes, h \in DOMAIN mined :
        LET since  == mined[h].height
            answer == blocks_above(node[n].history, since)
        IN  node[n].lost = {} =>
                \A i \in DOMAIN answer : \A p \in ToSet(mined[answer[i]].parents) :
                    mined[p].height <= since \/ \E j \in 1..i-1 : answer[j] = p

\* Mining is not locked out for ever: the gate closed by a new connection opens
\* again, whatever the peer answers and whether it answers or not, unless a
\* storage error ends the handling of the answer.
SyncEnds ==
    \A n \in Nodes :
        node[n].sync_pending ~> ~node[n].sync_pending \/ node[n].abandoned

\* The flag, its setters and the mining tick do what SyncGate promises, with
\* requests lost, answers empty or refused, two connections at a time, storage
\* errors and restarts of either side.
Gate == INSTANCE SyncGate WITH
    Blocks      <- Hashes,
    closed      <- [n \in Nodes |-> node[n].sync_pending],
    outstanding <- [n \in Nodes |-> Cardinality({r \in net : r.client = n})
                                      + (IF node[n].answering THEN 1 ELSE 0)],
    givenUp     <- [n \in Nodes |-> node[n].abandoned],
    produced    <- [n \in Nodes |-> {h \in DOMAIN mined \cap Hashes :
                                         mined[h].miner = MinerOf[n]}]
GateRefined == Gate!Spec

-----------------------------------------------------------------------------
(* What comments say of the code, and the code does not do. *)

\* ghostdag.rs: replaying "guarantees every node converges to the identical
\* ledger given the identical DAG, regardless of arrival order".
LedgersConverge ==
    \A n, m \in Nodes :
        Ready(n) /\ Ready(m) /\ node[n].store = node[m].store
            => node[n].ledger = node[m].ledger
=============================================================================
