# VeloDAG in TLA+

Models of the VeloDAG node (`vdag-consensus`, `vdag-node`), checked with TLC on
small instances, and proofs with TLAPS of most of the safety properties for
instances of any size: all of those of the ledger, of the block DAG, of the peer
guard, of the RPC server and of start-up, and the node's on its orphan pool, its
history, its answers, its ledgers and its mining gate.

## The system

A node is one `tokio::select!` loop (main.rs) with two arms: a mining tick each
second, off while `sync_pending`, and libp2p events. RPC connections run in
tasks of their own and share the mempool and the ledger behind mutexes. Wallet
commands are separate processes that share files with the node.

| part (source) | state | operations | interacts with | hard behaviour | what makes it correct |
|---|---|---|---|---|---|
| ledger (consensus/lib.rs) | balances, next nonces, confirmed ids | `apply_block`, `select_affordable`, replay | tick, validation, RPC reads | blocks failing half way, parties that coincide, u64 limits, replays | money conserved, each nonce spent once, all or nothing |
| mempool (lib.rs, rpc.rs) | pending transactions by id | `add_transaction`, `drain_to_batch` | RPC tasks, tick | submissions between the steps of the tick | what is selected is applicable |
| GHOSTDAG (ghostdag.rs) | block store, cache of blues, reds, scores | colouring, fork choice, linear order | tick, validation, restart | blocks in different orders on different nodes | same DAG, same data; complete order |
| difficulty (daa.rs) | current target | `calculate_next_target` | canonical order | windows that are not chronological | same target on every node |
| validation (network.rs) | none of its own | `validate_and_ingest`, recursive | all of the above, PeerGuard | late, early, repeated blocks; replay of orphans; failing reads and writes | history topological; violations only for faults (not so: see `node_blame`) |
| orphan pool (sync.rs) | blocks by missing parent, a counter | `insert`, `take_ready` | validation | capacity, duplicates | counter exact, nothing forgotten |
| sync (sync.rs, network.rs) | `sync_pending` | request, response, failure | tick, validation | lost answers, several peers, answers cut off or given up | the gate holds and opens again; answers attach |
| peer guard (peer_guard.rs) | counters, violations, bans | established, closed, violation, expiry | swarm, validation | late close events, bans that end | no leak, bans hold |
| storage (lib.rs) | blocks, ledger snapshot | save, load, startup | tick, validation | crash between two writes, reads and writes that fail, those of the start-up too | snapshot backed by blocks |
| RPC server (rpc.rs) | permits, connections per address, a rate limiter per connection | accept loop, request handling, five methods | mempool, ledger | steps between awaits | slots accounted, every request is answered, answers that were true |
| wallet (wallet.rs), identity (main.rs) | key files | create, load, backup, restore | other processes | check then write, kills inside a write | keys survive, rewards stay spendable |
| bootstrap configuration (network_config.rs) | a signed file | load, verify, fall back | start-up | missing, edited, unsigned files | only vouched seeds are dialled |
| block identity (lib.rs) | none | `transaction_id`, Merkle root, `calculate_hash` | validation, storage | different contents with one hash | a hash names one block |
| crypto, `DifficultyLog`, `vdag-network` | | | | | not modelled, see below |

The hazards, each with its line and the properties aimed at it, are in
`PROJECT.json`.

## Modules

* **LedgerState**: the ledger as operators on values: reward schedule, fee
  split, `try_apply_transaction` (broken at each point where it can fail),
  `apply_block`, `select_affordable`. HashMaps with a default are total
  functions; a transaction stands for its id, with `sig` for the signature
  bytes that make two ids of one payload.
* **Ledger** extends it with the mempool and the loops: one action per
  iteration of `select_affordable` and `apply_block`, because RPC tasks may
  submit in between; `ledger["fresh"]` is the ledger `recompute_ledger` builds,
  `batch` the candidates the running selection started with. Which blocks arrive
  is left open.
* **AtomicLedger**: what the ledger promises: whole blocks take effect, one at a
  time, or nothing does. Ledger implements it (`LedgerIsAtomic`); the mapping
  takes the scratch ledger of a running block away, so a step of Ledger is a
  whole block or a stutter.
* **Ghostdag**: `GhostdagManager` as operators on a store (parents by hash) and
  a cache. Hashes are numbers, compared like the bytes. Sorting is `InOrder`,
  which puts the element with k - 1 others before it at place k: a definition the
  proofs can work with.
* **DagReplicas**: nodes that mine on their canonical tip, take foreign blocks
  with any parents, deliver them to each other in any parent-closed order and
  restart, which reads all blocks back by height and colours them again.
* **PeerGuard**: the guard and the swarm. A connection is open, or closing
  until its ConnectionClosed arrives, during which time passes and a ban may
  expire; `admitted` is a history variable. `unban`, which nothing in the code calls,
  forgets the violations of any peer, banned or not.
* **Node** composes LedgerState and Ghostdag: nodes with store, history, ledger,
  saved blocks and saved ledger, target, orphan pool, mempool and sync gate. The
  recursion of `validate_and_ingest` is the stack `todo`; its outcomes are the
  actions AlreadyKnown, RejectBlock, BufferOrphan, AcceptBlock, LedgerNotSaved
  and ReadError. `fault` stands for a bad Merkle root, signature or proof of
  work, or too many transactions. Gossip offers any published block of any
  holder again and again until it is saved. Mining is one action with all that
  follows it, because the loop takes no other event meanwhile; a crash inside
  it is CrashMining, a failed save MineNotSaved. A tick takes at most `BATCH` of
  the pending transactions (10 in main.rs:378); the others stay.
  A target is its leading bytes, as a number, and whether the others are those of
  the start or padded with 0xff, which daa.rs:76 does at the first adjustment.
  The database may fail at each read and write, the start-up's own among them
  (`StartFailures`). A failed write leaves the old value. A start-up that cannot
  read the saved ledger has the empty one; one that cannot read the blocks has
  genesis only, replays it, and writes the result over the saved ledger; one that
  cannot read genesis runs on an empty store and mines on a genesis it does not
  have. Blocks it did not load it drops as known, since it asks the disk for
  them. History variables say what that has cost: `lost` (blocks whose save
  failed), `phantom` and `disk_phantom` (the ledger, or the saved one, holds a block
  that is not there, or one twice) and `misread` (a read of the last start-up
  failed).
  Which peers are admitted, and what a recorded violation does, is PeerGuard's
  part. A peer of another network (`Stranger`) shares the gossip topic and
  refuses sync.
* **SyncGate**: what the flag `sync_pending` promises: closed by each request,
  opened by the first to be settled, left closed by an answer that is given up.
  Node implements it (`GateRefined`): outstanding requests are those in `net` and
  the answer being handled, the blocks produced are those in `mined` with the
  node's reward address.
* **Rpc**: accept loop, connection tasks and event loop, one action between two
  awaits. A line is a request up to what decides its course; the event loop is
  reduced to what requests can see of it (drain, confirm, a peer's block), its
  details being Ledger's. An error of `accept` ends the accept loop for good
  (`AcceptFails`, `serving`); the connections there are go on. `seen` records what
  was true during a status request.
* **Startup**: processes on shared key files. A write is two steps, opening (which
  empties the file) and filling; between any two steps others may act and the
  process may be killed. The database lock admits one node at a time. Also the
  bootstrap file and what is dialled.
* **BlockId**: what a hash commits to, with SHA3 as a free constructor and blocks
  that are changed under way in what their hash leaves out.
* **LedgerProofs**, **DagReplicasProofs**, **NodeProofs**, **BlockIdProofs**,
  **PeerGuardProofs**, **RpcProofs**, **StartupProofs**: the theorems on each of
  these modules.
* **ConsensusTheorems**: what those proofs share. First induction over numbers and
  over the subsets of a finite set, in the form of a set that is closed under the
  step, and from it iterations, folds of sequences, maxima and sums. Then the
  operators of Ghostdag (sorting, the searches, the colouring, fork choice, the
  linear order) and of LedgerState (transactions, blocks, selection, replays).
* **MC...**: instances.

Operators whose name ends in a suffix such as `_noReplay` are mutants: wrong
versions of the operator that follows, used to see that a property can fail.

## Runs that pass

| run | instance | shows |
|---|---|---|
| `ledger` | 3 accounts, treasury and miner among them; 7 transactions with a re-signed copy, a self-payment, a dependent one; eras of 2 blocks; MAX_U64 just above the reward of two blocks, so that each `checked_add` fails somewhere; 3 blocks live, 2 in a replay | supply, nonces, single spends; selection agrees with application; loops compute the operators Node uses; Ledger implements AtomicLedger |
| `dag` | 2 symmetric replicas, any tree of 4 blocks with up to two merges of 2 or 3 parents, in any hash order, K = 1 | same colouring, stable cache, exact anticone, complete order, monotone fork choice |
| `peer_guard` | 2 peers, 2 addresses, one connection without an address, ban after 2 violations, bans that expire while connections are still closing | counters, bans |
| `node` | one miner, 6 foreign blocks with a payment in a merge, a gap, a future timestamp and a bad signature; pool of 2; one failing access to the database, crashes inside ingestion and mining, two restarts; a window that moves targets | ledger backed by stored blocks, restart keeps the ledger, topological history, exact pool, answers to any height attach |
| `node_sync` | 2 miners, 2 blocks, two connections at once to each other or to a stranger, answers of up to 2 blocks, a database error and a restart | Node implements SyncGate, the gate opens again |
| `rpc` | 3 connections from 2 addresses for 2 permits, one per address, the accept loop ending at any point; limit of one request in a window of 2 ticks; a token; authorized, unauthorized, refused, garbled and oversized lines; one transaction | slots, rate, truthful status, every request is answered |
| `startup` | a node started twice beside two commands on the same two paths, passwords right, wrong and missing, old plain wallets, six bootstrap files | rewards durable, one peer id, faithful copies, vouched seeds, keys survive, a healthy node starts |
| `block_id` | 2 miners, blocks of up to 3 transactions altered to up to 4, signatures divided elsewhere, other amounts | a hash names one block |

Bounds. Five blocks give the shapes the colouring distinguishes with K = 1: a
full K-cluster, a red block, a merge of them, and a merge whose anticone lies
behind an ancestor that is not a parent. The foreign blocks in `node` give a
fork, a reorganisation and orphans two deep, and the pool of 2 fills up with
repeated copies. Answers of two blocks can hold a block with its parent and be
cut off behind it; `SyncAnswersAttach` is stated for any height asked from, so the
run needs no second node. Two restarts are needed because a start-up that could
not read its blocks shows only in what the next one finds. In `node_sync` two
connections are the least at which the flag differs from a count.
No instance has a block of another network or more pending transactions than a
batch holds: these are covered by the theorems only. DagReplicas restarts read
every block; start-ups that do not are in Node.
In `rpc` a window of two ticks lets a burst span two windows, and three
connections make the accept loop meet both limits while a task ends. In
`startup` the second start follows any kill of the first. In `block_id` three
transactions are the fewest whose Merkle root is also that of a longer list.
`MaxTime`, `MaxConnects`, `MaxRestarts`, `MaxDiskErrors`, `MaxBlocks`,
`MaxViolations`, `MaxLines`, `MaxStarts`, `MaxMined`, `MaxHeight` and `MaxTxs` only cap
counters. Where a configuration does not check for deadlock, they can be used
up and nothing is left to do.

Fairness. `node_sync` (`SyncEnds`): a call of `validate_and_ingest` returns
(the recursion is synchronous code); libp2p reports the answer or, after its
timeout, the failure of every request, and keeps the event queued until the
loop asks for the next one: strong fairness, because between two gossip events
the loop is ready again and again, not continuously. `rpc` (`RequestsAnswered`):
tokio runs the steps of the accept loop and of the tasks that can go on without a
client (looking things up, giving slots back), locks are held by steps that end.
Nothing is assumed of clients, the network or the event loop: not that a client
sends, and not that it reads. `write_all` (rpc.rs:232) has no timeout, so a client
that stops reading keeps its task, its permit and its address's slot for ever, and
the property ends where the answer is written. `startup`
(`HealthyStarts`): a process that was started goes on until it ends or is killed;
nothing makes anyone start it.

## Where code and comments disagree

Each run states what a comment or document says and TLC shows a behaviour of
the code that contradicts it; `findings` in `PROJECT.json` has the quotations.

* `node_ledgers`: `get_linear_sort` lists the tip first and the rest by descending
  hash, not from genesis onwards. The replay of a chain whose tip spends a mined
  reward fails, the ledger stays the one of arrival order, and two nodes with
  the same blocks keep different ledgers.
* `node_blame`: blocks are compared with the current target, never with that of
  their height (`DifficultyLog::get` has no caller), and honest senders of late
  blocks are charged with a violation.
* `dag_blue_anticone`: the K rule ignores the candidate's own anticone.
* `peer_limits`: closing a refused connection releases a count it never took.

No run claims `HonestNotBlamed` of any instance. A moving target is one way to
charge an honest sender; a transaction confirmed in two branches is another: the
block of the second branch does not apply to the ledger of the first, and
network.rs:517-520 records a violation under a constant target too.

Further disagreements the models show without a run of their own:

* The difficulty window (daa.rs:29) runs backwards for the reason given under
  `node_ledgers`, and the target shrinks however slow blocks are.
* A restart sets the target to that of the last stored header, one adjustment
  behind its peers.
* TESTNET_HARDENING.md:14 says that gating "prevents local mining while the node
  is still catching up", and RUN_NODE.md:252 that mining is paused and "then
  resumes". SyncGate states what holds: the first of two answers opens the gate,
  an answer that is cut off opens it too, and a storage error leaves it closed.
* rpc.rs:58-60 calls the limiter's window "rolling"; it is fixed, and up to twice
  the limit passes within a second (`RateBounded` states that bound).
* `transaction_status` may say "unknown" of a transaction that is pending or
  confirmed at every moment, because it looks at the two in turn. `StatusTruthful`
  says when: only if the confirmation changed during the request.
* main.rs:280 goes on without blocks when `load_all_blocks` fails. The replay of
  genesis alone then succeeds and main.rs:294-300 write the empty ledger over the
  saved one, although no write failed. The next start-up that can read its blocks
  replays them and has the ledger again, if that replay succeeds.
* lib.rs:165 says the header "commits to exactly the transactions in the block";
  the root of [a, b, c] is also that of [a, b, c, c]. That a hash nevertheless
  names one block is due to the ledger and to the signature check.
* main.rs:176 says a node can "reject stale or misconfigured bootstrap data"; the
  file's network, id and genesis are not compared with the node's, and any key
  may sign it, since it is the file that names the key.
* wallet.rs:51: rewards are durable unless a command and the node both find
  no wallet at the path and write one each (`KeysSurvive`, `RewardsDurable` name
  that exception). A wallet torn by a kill stops every start until the
  operator removes it.
* A block whose save failed is in memory only; it is ingested again when it
  comes again, and its rewards are counted twice until a replay succeeds.
* A served ban is forgotten only by a new connection; a blue score counts
  inherited blues again at each block.

## Proofs

For all values of the constants that satisfy the named assumptions. These say
that constants have the types the code gives them: finitely many accounts,
connections and foreign blocks, percentages within 0..100, limits natural
numbers. The others:

* `BlockIdAssumption` (BlockId): a signature that verifies cannot be divided elsewhere
  and verify (`verify_transaction_signature` checks the length of the key).
* `GenesisAssumption` (Node): the reward of height 0 is not zero. A block of height
  0 claims it, since it passes `verify_coinbase_rewards`, and genesis claims
  none; so no other block is taken for genesis.
* `ForeignAssumption` (Node): foreign blocks build on foreign blocks or on a
  genesis. (DagReplicas): a foreign block has parents; `validate_and_ingest`
  rejects one that has none (network.rs:471).

TLC evaluates all of them on the instances of the runs.

### Ledger

* `TypeCorrect`: `TypeOK` is inductive as it stands. The work is in the lemmas on
  `TxApplied` and `TxFailed`: balances stay in 0..MAX_U64 at each of the
  intermediate points where `try_apply_transaction` can stop.
* `SpendsOnce`, `NoncesHaveNoGap`: inductive invariant `NonceInv`. Both facts are
  needed together: a nonce is new because the confirmed ones are exactly those
  below the expected one. They hold for the scratch ledger of a running
  `apply_block` too, but not for that of `select_affordable`, which keeps the id
  of a failed transaction, so `NonceInv` speaks of the scratch ledger only
  while a block is applied.
* `LoopsComputeCalls`: inductive invariant `LoopInv`: what a loop has done and what
  the call as a value would do with the rest make up the whole call. The lemmas
  unroll the folds of `LedgerState` from the front, as the loops run.
* `LedgerImplementsAtomic`: from the same invariant, each step is a stutter or a
  whole block of AtomicLedger.
* `SupplyIsConserved`: inductive invariant `SupplyInv`, with the lemma of
  ConsensusTheorems that a sum changes by the difference where a function changes at
  one argument. Sender, recipient, miner and treasury may coincide, so each
  update is treated on the values the one before it left.
* `SelectionIsSound`: inductive invariant `SelectInv`, as long as what was issued
  fits a u64. The scratch ledger of the selection has the balances and nonces of
  the ledger to which only the accepted transactions were applied, and at least
  its confirmed ids (those of failed candidates stay), so a candidate it lets
  pass passes there too. It rests on `SupplyInv`: a sum that fits leaves no
  `checked_add` to fail.

### Block DAG

All six properties of the run `dag`, for any K, any replicas and any blocks. The
invariant `Inv` says that the blocks are a DAG in which heights grow, that each
replica's store is a part of it closed under parents, that the data of each
block are those that would be computed now, from the store as it has become,
and that replicas agree. The argument:

* `ConsensusTheorems!DataAgree`: the data of a block depend on its past only. The
  searches stay within the past (`PastAgree`, `AnticoneAgree`), verdicts compare
  blocks of the past (`VerdictAgree`), and the order in which an anticone is
  coloured is that of the hashes. So later blocks change nothing (`DataAreStable`),
  and what another replica computed is the same (`NodesAgree`).
* A restart reads the blocks back by height, and each finds its parents
  there with the data they had (`StageStep`). So it is a stutter (`RestartStutters`).
* `DataExact` gives `AnticoneIsExact`, and that a block outweighs each of its
  parents, hence `ForkChoiceIsMonotone`: a tip is replaced by its child or stays.
* `LinearSortIsComplete`: heights decrease along selected parents, so the walk,
  which takes as many steps as there are blocks, has ended at genesis, or it would
  meet a block twice; and after each block visited, what is collected and what
  lies below the next one are together the whole past.

### Node

The invariant `Inv` joins `MinedOK` (the blocks there are name parents that exist),
`StoredOK` (store, saved blocks and history are blocks there are, closed under
parents), `PoolOK` (the counter is a sum over all missing parents), `Waits`,
`HistoryOK`, `GateOK` and `NetOK` (messages, with numbers of their own so that they
can be counted).

* `PoolIsCounted`, `OrphansAreRemembered`. `Waits` is about the orphans and the store
  in the middle of `validate_and_ingest` too, between `ingest_block_only` and
  `take_ready`, where the block just stored is the exception. An orphan's missing
  parent must moreover not be a block still to be mined: a block names its
  parents by their hashes, so no block names one that does not exist yet.
* `HistoryIsTopological`: `HistoryOK` holds as long as no write failed (`lost`): after
  that a block may be in history and in no file. A start-up that could not read the
  blocks begins with a new history, of which the property holds again.
* `AnswersAttach`: whatever height is asked from, the blocks of the answer above it
  come after their parents above it. What a server sends is read off its
  history, so this needs `HistoryOK` and that heights grow from parent to child.
  It compares heights only: whether the client has the blocks up to the height
  it names is not part of it, and need not be so.
* `GateIsRefined`, `ClosedGateHasKey`, `GateIsObeyed`: Node implements SyncGate, and
  SyncGate's two promises for Node. Hypothesis: nodes have different reward
  addresses. SyncGate tells the blocks a node has mined by that address; with a
  shared address it would see one node's block as another's. Nothing else in the
  argument depends on it.

Ledgers need a second invariant, `Rich`, on top of `Inv`. `SoundBlocks`: every block
there is can be applied to a ledger at all. `Money`, of each node: the types of its
ledger and target; the ledger is backed by the blocks stored (`BackedBy`), unless
it is a phantom; the snapshot is backed by the blocks saved (`DiskOK`), unless one
was lost or the snapshot is a phantom; the data in `ghostdag_cache` are those of the
store (`Coherent`); and `Follows`: the ledger is the canonical replay of the blocks
stored or, where that replay fails, equals the snapshot. The last two hold unless
writes failed or the last start-up could not read everything: a node that did
not load a block takes its children for orphans, and computes nothing from it.

* `NodeTypes`: the clamps and the u128 width of the next target (`NextTargetType`);
  `checked_add` for the ledgers.
* `LedgerIsBacked`: a block applied on top of a ledger adds its reward and its
  transactions and is stored in the same call (`MoneyGrows`); a replay starts from
  an empty ledger and takes blocks that are stored, each once (`CanonicalOrder`,
  `RecomputedIs`). Two ledgers are excepted until a replay succeeds,
  because for them it is false (`phantom`, `MoneyPhantom`): one to which a block was
  applied that was then not ingested, and one to which a block was applied twice,
  since it is taken for new again when its first write failed.
* `LedgerSurvivesRestart`: a restart that can read the blocks reads them back by
  height (`ReadInSequence`). Their data are determined by the store (`DataOnce`), so
  they, the tip and the canonical order are those in memory (`RestartedSame`), and
  the replay has the same outcome. Where it fails the node takes the snapshot,
  and `Follows` says that this is the ledger it had. The theorem says nothing of a
  start-up that could not read something, nor of the one after it, whose saved
  ledger may be the empty one: there it is false. `RestartFromMoney` shows that even these
  leave `Money` intact: no reward is counted without its block.

### Block identity

* `HashIsUnique`. `SoundPayload`: in a block that passed the ledger no transaction
  occurs twice, since one that is confirmed is not payable. `RootInjective`: among
  lists without repetition whose signatures verify, equal Merkle roots mean equal
  lists, whatever their lengths. It goes by the layers of two trees that need not be
  equally deep: a leaf is not a pair (`LayersKinds`), so both end at the same layer
  and each layer determines the one below (`CommonLayer`); an element that is its
  own partner tells an odd layer from an even one, because no layer repeats an
  element.

### Peer guard, RPC, start-up

* `PeerGuardProofs!TypeCorrect`, `CountersDoNotLeak` (by case on the event; counting
  lemmas on finite sets), `BansHold` and `ThresholdBans` (together, `BanInv`).
* `RpcProofs!TypeCorrect`, `SlotsAreAccounted`: the upper limit of the permits rests
  on the account of who holds one, so both are proved together, with `InHand`
  (what a task that is at some step has in hand). `StatusIsTruthful`: a request
  that went on to the mempool saw its transaction not confirmed; if that never
  changed while it ran, the moment at which it looked at the mempool is one at
  which both halves hold (`HalvesMeet`).
  `RateIsBounded`: invariant `Limited` on the times at which requests passed: neither
  the current window nor the second before it let more than the limit pass.
* `StartupProofs`: one invariant for all theorems. It says who may write which
  file (`RoleAt`, `WriterAt`), what node and copying commands hold (`HolderAt`,
  `CopierAt`), and that the identity announced is the one in the file.

### What the attempts showed

* Two branches of a CASE in Startup were not exclusive; TLC takes the first, the
  definition says either. They are now.
* `LoopsMatchCalls` compared with the mempool of the moment, which other tasks
  change; it now speaks of the batch the selection started with.
* A foreign block of height 0 could pass for genesis in Node if a reward were zero:
  hence `GenesisAssumption`.

### Only model-checked

* Liveness: `SyncEnds`, `RequestsAnswered`, `HealthyStarts`.

## Not modelled

* Dilithium, Argon2, ChaCha20, SHA3, hex, JSON and bincode: external libraries;
  they appear as values that verify, open or are equal, or do not.
* The search for a nonce and the comparison of 256-bit numbers.
* sled's internals; a failed flush is not distinguished from a failed write, and
  the power does not fail (processes are killed, files keep what was written).
* A first start whose save of genesis fails: the process aborts there
  (main.rs:239-246) and what it saved is genesis or nothing.
* File permissions; reads of key files that fail although the file is there
  (an unreadable identity would be replaced).
* The block explorer and the GHOSTDAG tree it reads, which nothing else reads.
* `DifficultyLog`: written and never read. The `vdag-network` crate: used by no
  binary. Deployment scripts.
* One data directory started under two values of `VDAG_NETWORK`: a second
  genesis is minted and the blocks of both are loaded later.

## Plan

Done: all modules above, both refinements, the proof modules. Every safety
property a passing run checks has a theorem. Left: conditions on transactions,
timestamps and targets under which honest senders are never charged.
