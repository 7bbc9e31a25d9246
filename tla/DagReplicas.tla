----------------------------- MODULE DagReplicas -----------------------------
(***************************************************************************)
(* Nodes that build the same block DAG from blocks arriving in different   *)
(* orders, each with its own store and GHOSTDAG cache: the block a node    *)
(* mines on its canonical tip, blocks of other miners with any parents,    *)
(* gossip that delivers a block as soon as its parents are there (orphans  *)
(* wait, see sync.rs), and restarts that rebuild the cache from disk.      *)
(***************************************************************************)
EXTENDS Ghostdag, Functions

CONSTANTS
    Replicas,
    Hashes,         \* block hashes that mining can produce
    ForeignBlocks   \* [hash, parents]: blocks of other miners

Genesis == 0

ASSUME HashAssumption == Hashes \subseteq Nat \ {Genesis}

\* validate_and_ingest rejects a block without parents that is not genesis.
ASSUME ForeignAssumption ==
    ForeignBlocks \subseteq [hash : Hashes, parents : Seq(Hashes \cup {Genesis}) \ {<<>>}]

VARIABLES
    blocks,     \* every block mined so far: its parents, by hash
    height,     \* its header's height
    store,      \* per replica: GhostdagManager.block_store
    cache       \* per replica: GhostdagManager.ghostdag_cache

vars == <<blocks, height, store, cache>>

Data == [blue_score      : Nat,
         selected_parent : Hashes \cup {Genesis, None},
         blues           : SUBSET (Hashes \cup {Genesis}),
         reds            : SUBSET (Hashes \cup {Genesis})]

TypeOK ==
    /\ DOMAIN blocks \subseteq Hashes \cup {Genesis}
    /\ \A h \in DOMAIN blocks : blocks[h] \in Seq(DOMAIN blocks)
    /\ height \in [DOMAIN blocks -> Nat]
    /\ \A r \in Replicas :
          /\ store[r] = Restrict(blocks, DOMAIN store[r])
          /\ cache[r] \in [DOMAIN store[r] -> Data]

Init ==
    /\ blocks = [h \in {Genesis} |-> <<>>]
    /\ height = [h \in {Genesis} |-> 0]
    /\ store = [r \in Replicas |-> blocks]
    /\ cache = [r \in Replicas |-> [h \in {Genesis} |-> GenesisData]]

Extend(f, x, y) == [z \in DOMAIN f \cup {x} |-> IF z = x THEN y ELSE f[z]]

\* Mutant: the data are not cached.
ingest_block_only_noCache(r, h, parents) ==
    /\ store' = [store EXCEPT ![r] = Extend(@, h, parents)]
    /\ UNCHANGED cache

\* ingest_block_only, and the same statements in the mining tick: the data
\* are computed before the block enters the store.
ingest_block_only(r, h, parents) ==
    /\ cache' = [cache EXCEPT ![r] =
                    Extend(@, h, calculate_ghostdag_data(store[r], cache[r], parents))]
    /\ store' = [store EXCEPT ![r] = Extend(@, h, parents)]

\* A new block, one higher than its highest parent.
NewBlock(h, parents) ==
    /\ h \notin DOMAIN blocks
    /\ blocks' = Extend(blocks, h, parents)
    /\ height' = Extend(height, h, 1 + Max({height[p] : p \in ToSet(parents)}))

\* The mining tick builds on the canonical tip only.
Mine(r, h) ==
    LET parents == <<select_canonical_tip(store[r], cache[r])>> IN
    /\ NewBlock(h, parents)
    /\ ingest_block_only(r, h, parents)

\* A block of another miner reaches its first replica.
Foreign(r, b) ==
    /\ ToSet(b.parents) \subseteq DOMAIN store[r]
    /\ NewBlock(b.hash, b.parents)
    /\ ingest_block_only(r, b.hash, b.parents)

\* Mutant: a block is ingested as soon as one of its parents is known.
Deliver_anyParent(r, h) ==
    /\ h \in DOMAIN blocks \ DOMAIN store[r]
    /\ ToSet(blocks[h]) \cap DOMAIN store[r] # {}
    /\ ingest_block_only(r, h, blocks[h])
    /\ UNCHANGED <<blocks, height>>

\* Gossip or sync: a stored block is ignored, one with a missing parent waits.
Deliver(r, h) ==
    /\ h \in DOMAIN blocks \ DOMAIN store[r]
    /\ ToSet(blocks[h]) \subseteq DOMAIN store[r]
    /\ ingest_block_only(r, h, blocks[h])
    /\ UNCHANGED <<blocks, height>>

\* A block is read back and coloured with what was rebuilt before it.
Load(m, h) ==
    [store |-> Extend(m.store, h, blocks[h]),
     cache |-> Extend(m.cache, h, calculate_ghostdag_data(m.store, m.cache, blocks[h]))]

Rebuilt(order) ==
    FoldLeft(Load, [store |-> [h \in {Genesis} |-> <<>>],
                    cache |-> [h \in {Genesis} |-> GenesisData]], order)

\* Mutant: blocks are reloaded in the order of the storage keys.
Restart_keyOrder(r) ==
    LET loaded == Rebuilt(InOrder(DOMAIN store[r] \ {Genesis}, LowestFirst))
    IN  /\ store' = [store EXCEPT ![r] = loaded.store]
        /\ cache' = [cache EXCEPT ![r] = loaded.cache]
        /\ UNCHANGED <<blocks, height>>

\* By height, in the order of the storage keys (hashes) among equals.
HeightFirst(g, h) == \/ height[g] < height[h]
                     \/ height[g] = height[h] /\ g < h

\* main.rs at startup: the stored blocks are sorted by height and read back.
Restart(r) ==
    LET loaded == Rebuilt(InOrder(DOMAIN store[r] \ {Genesis}, HeightFirst))
    IN  /\ store' = [store EXCEPT ![r] = loaded.store]
        /\ cache' = [cache EXCEPT ![r] = loaded.cache]
        /\ UNCHANGED <<blocks, height>>

Next ==
    \E r \in Replicas :
        \/ \E h \in Hashes : Mine(r, h)
        \/ \E b \in ForeignBlocks : Foreign(r, b)
        \/ \E h \in Hashes : Deliver(r, h)
        \/ Restart(r)

Spec == Init /\ [][Next]_vars

-----------------------------------------------------------------------------
(* Properties. *)

\* GhostdagData are a function of the block's past: whatever order blocks
\* arrived in, and however often a node restarted, two nodes colour and score
\* a block they both know alike (ghostdag.rs sorts the anticone for this).
CachesAgree ==
    \A q, r \in Replicas : \A h \in DOMAIN cache[q] \cap DOMAIN cache[r] :
        cache[q][h] = cache[r][h]

\* Once computed, the data of a block never change, a restart included: the
\* cache is rebuilt in an order in which parents come before children.
CacheStable ==
    [][\A r \in Replicas : \A h \in DOMAIN cache[r] :
            h \in DOMAIN cache'[r] /\ cache'[r][h] = cache[r][h]]_vars

\* Fork choice never moves to a lighter tip.
TipScore(r) == cache[r][select_canonical_tip(store[r], cache[r])].blue_score
ForkChoiceMonotone == [][\A r \in Replicas : TipScore(r)' >= TipScore(r)]_vars

\* find_anticone's bounded search finds the whole of the block's past outside
\* the selected parent's, and colouring splits exactly these blocks into new
\* blues and reds.
AnticoneExact ==
    \A r \in Replicas : \A h \in DOMAIN store[r] \ {Genesis} :
        LET d == cache[r][h]
            sp == d.selected_parent
            old == get_past_set(store[r], sp) \cup {sp}
        IN  /\ d.blues \cap d.reds = {}
            /\ (d.blues \cup d.reds) \ old = get_past_set(store[r], h) \ old
            /\ d.blues \cap old = cache[r][sp].blues \cup {sp}

\* The linear order of a block lists the block and its whole past, each once:
\* nothing is replayed twice into a ledger and nothing is left out.
LinearSortComplete ==
    \A r \in Replicas : \A h \in DOMAIN store[r] :
        LET order == get_linear_sort(cache[r], h)
        IN  /\ IsInjective(order)
            /\ ToSet(order) = get_past_set(store[r], h) \cup {h}
-----------------------------------------------------------------------------
(* What comments in ghostdag.rs say of the engine, and the code does not do. *)

\* can_be_blue: "STRICT K-FACTOR CONSTRAINT ENGINE: Verifies the true blue
\* anticone size threshold rule".  The rule: no blue block has more than K
\* blue blocks in its anticone.  The code never counts the candidate's own.
BlueAnticoneWithinK ==
    \A r \in Replicas : \A h \in DOMAIN store[r] :
        LET blues == cache[r][h].blues
        IN  \A b \in blues : Cardinality({o \in blues : Parallel(store[r], o, b)}) <= K

=============================================================================
