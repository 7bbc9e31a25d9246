----------------------------- MODULE NodeProofs -----------------------------
(***************************************************************************)
(* The invariants of Node for any nodes, foreign blocks, pool sizes and    *)
(* limits, and that Node implements SyncGate.  The inductive invariant Inv *)
(* ties what a node stores to the blocks there are, its pool to its store, *)
(* its history to the graph, and the messages under way to the history of  *)
(* their server.  Rich, over it, ties the ledgers to the replay of what is *)
(* stored.                                                                 *)
(***************************************************************************)
EXTENDS Node, ConsensusTheorems

-----------------------------------------------------------------------------
(* What the steps of a node change. *)

Fields == {"store", "cache", "history", "ledger", "disk", "saved", "target", "waiting_on",
           "current_size", "mempool", "todo", "answering", "sync_pending", "blamed",
           "unpublished", "lost", "phantom", "disk_phantom", "misread", "abandoned",
           "disk_errors", "connects", "restarts"}

\* s is the state of a node, t another one with the same values except for the
\* fields F.
IsNode(s) == s = [x \in Fields |-> s[x]]
Differs(s, t, F) == IsNode(t) /\ \A x \in Fields \ F : t[x] = s[x]

\* A new node has all the fields.
LEMMA NewNodeIsNode == IsNode(NewNode)
  BY DEF IsNode, NewNode, Fields

\* Recomputation touches the ledgers, their flags and the target only.
LEMMA AfterIngestKeeps ==
    ASSUME NEW all, NEW s, IsNode(s), NEW failed
    PROVE  Differs(s, AfterIngest(all, s, failed), {"ledger", "disk", "phantom", "disk_phantom", "target"})
  BY DEF Differs, IsNode, Fields, AfterIngest

\* A block that is inserted changes the DAG and the history.
LEMMA InsertKeeps ==
    ASSUME NEW s, IsNode(s), NEW h, NEW b
    PROVE  /\ Differs(s, InsertBlock(s, h, b), {"store", "cache", "history"})
           /\ InsertBlock(s, h, b).store = Extend(s.store, h, b.parents)
           /\ InsertBlock(s, h, b).cache
                = Extend(s.cache, h, calculate_ghostdag_data(s.store, s.cache, b.parents))
           /\ InsertBlock(s, h, b).history = Append(s.history, h)
  BY DEF Differs, IsNode, Fields, InsertBlock

\* t is s with block h, of the given parents, in its store, its data and its
\* history, saved or lost.
Enters(s, t, h, parents) ==
    /\ t.store = Extend(s.store, h, parents)
    /\ t.cache = Extend(s.cache, h, calculate_ghostdag_data(s.store, s.cache, parents))
    /\ t.history = Append(s.history, h)
    /\ \/ t.lost = s.lost /\ t.saved = s.saved \cup {h}
       \/ t.lost = s.lost \cup {h} /\ t.saved = s.saved

\* An ingestion does that, and saves the block or notes its loss.
LEMMA IngestKeeps ==
    ASSUME NEW s, IsNode(s), NEW h, NEW b, NEW failed
    PROVE  /\ Differs(s, ingest_block_only(s, h, b, failed),
                      {"store", "cache", "history", "saved", "lost", "phantom",
                       "disk_phantom", "disk_errors"})
           /\ Enters(s, ingest_block_only(s, h, b, failed), h, b.parents)
<1> DEFINE i == InsertBlock(s, h, b)
<1>1. /\ Differs(s, i, {"store", "cache", "history"})
      /\ i.store = Extend(s.store, h, b.parents)
      /\ i.cache = Extend(s.cache, h, calculate_ghostdag_data(s.store, s.cache, b.parents))
      /\ i.history = Append(s.history, h)
  BY InsertKeeps
<1> HIDE DEF i
<1> DEFINE t == ingest_block_only(s, h, b, failed)
<1>2. t = [i EXCEPT !.saved       = IF "block" \in failed THEN @ ELSE @ \cup {h},
                   !.lost        = IF "block" \in failed THEN @ \cup {h} ELSE @,
                   !.phantom     = @ \/ Known(s, h),
                   !.disk_phantom = @ \/ Known(s, h),
                   !.disk_errors = @ + Cardinality(failed)]
  BY DEF ingest_block_only, i
<1> HIDE DEF t
<1>3. IsNode(i)
  BY <1>1 DEF Differs
<1>4. Differs(i, t, {"saved", "lost", "phantom", "disk_phantom", "disk_errors"})
  BY <1>2, <1>3 DEF Differs, IsNode, Fields
<1>5. /\ t.saved = (IF "block" \in failed THEN i.saved ELSE i.saved \cup {h})
      /\ t.lost = (IF "block" \in failed THEN i.lost \cup {h} ELSE i.lost)
  BY <1>2, <1>3 DEF IsNode, Fields
<1>6. i.saved = s.saved /\ i.lost = s.lost
  BY <1>1 DEF Differs, Fields
<1>7. t.store = i.store /\ t.cache = i.cache /\ t.history = i.history
  BY <1>4 DEF Differs, Fields
<1>8. Differs(s, t, {"store", "cache", "history", "saved", "lost", "phantom",
                       "disk_phantom", "disk_errors"})
  BY <1>1, <1>4 DEF Differs
<1>9. Enters(s, t, h, b.parents)
  BY <1>1, <1>5, <1>6, <1>7 DEF Enters
<1> QED
  BY <1>8, <1>9 DEF t

-----------------------------------------------------------------------------
(* The blocks there are, and those a node stores. *)

H == AllHashes \cup {Genesis}

\* There are finitely many hashes, all numbers.
LEMMA HashesFinite == IsFiniteSet(H) /\ H \subseteq Nat /\ IsFiniteSet(AllHashes)
<1> DEFINE f == [b \in ForeignBlocks |-> b.hash]
<1>1. f \in Surjection(ForeignBlocks, ForeignHashes)
  BY DEF Surjection, ForeignHashes
<1>2. IsFiniteSet(ForeignHashes)
  BY <1>1, NodeAssumption, FS_Surjection
<1>3. IsFiniteSet({OtherGenesis}) /\ IsFiniteSet({Genesis})
  BY FS_Singleton
<1>4. IsFiniteSet(AllHashes)
  BY <1>2, <1>3, NodeAssumption, FS_Union DEF AllHashes
<1>5. IsFiniteSet(H)
  BY <1>3, <1>4, FS_Union DEF H
<1>6. H \subseteq Nat
  BY NodeAssumption DEF H, Genesis
<1> QED
  BY <1>4, <1>5, <1>6

\* The map M of the blocks by hash: parents are named by hashes, and where they
\* are not blocks they are the genesis of another network.
MinedOK(M) ==
    /\ M = [h \in DOMAIN M |-> M[h]]
    /\ Genesis \in DOMAIN M /\ DOMAIN M \subseteq H
    /\ M[Genesis] = GenesisBlock
    /\ \A h \in DOMAIN M :
          /\ M[h].parents \in Seq(H)
          /\ ToSet(M[h].parents) \subseteq DOMAIN M \cup {OtherGenesis}
          /\ M[h].height \in Nat

\* Block h of M continues the heights of its parents.
Fits(M, h) ==
    /\ M[h].parents # <<>>
    /\ ToSet(M[h].parents) \subseteq DOMAIN M
    /\ M[h].height = 1 + Max({M[p].height : p \in ToSet(M[h].parents)})

\* A sequence has finitely many elements.
LEMMA ToSetFinite ==
    ASSUME NEW S, NEW q \in Seq(S)
    PROVE  IsFiniteSet(ToSet(q)) /\ ToSet(q) \subseteq S /\ (q # <<>> <=> ToSet(q) # {})
<1>1. Len(q) \in Nat /\ DOMAIN q = 1..Len(q) /\ q \in [1..Len(q) -> S]
  OBVIOUS
<1>2. q \in Surjection(1..Len(q), ToSet(q))
  BY <1>1 DEF Surjection, ToSet
<1>3. IsFiniteSet(1..Len(q))
  BY <1>1, FS_Interval
<1>4. IsFiniteSet(ToSet(q))
  BY <1>2, <1>3, FS_Surjection
<1>5. ToSet(q) \subseteq S
  BY <1>1 DEF ToSet
<1>6. q # <<>> <=> ToSet(q) # {}
  <2>1. CASE q = <<>>
    BY <2>1 DEF ToSet
  <2>2. CASE q # <<>>
    <3>1. Len(q) # 0
      BY <2>2
    <3>2. 1 \in DOMAIN q
      BY <1>1, <3>1
    <3> QED
      BY <2>2, <3>2 DEF ToSet
  <2> QED
    BY <2>1, <2>2
<1> QED
  BY <1>4, <1>5, <1>6

\* It is higher than each of them.
LEMMA HigherThanParents ==
    ASSUME NEW M, MinedOK(M), NEW h \in DOMAIN M, Fits(M, h)
    PROVE  \A p \in ToSet(M[h].parents) : p \in DOMAIN M /\ M[p].height < M[h].height
<1> DEFINE P == ToSet(M[h].parents)
           f == [p \in P |-> M[p].height]
           T == {M[p].height : p \in P}
<1>1. IsFiniteSet(P) /\ P # {} /\ P \subseteq DOMAIN M
  BY ToSetFinite DEF MinedOK, Fits
<1>2. f \in [P -> Int] /\ \A p \in P : f[p] = M[p].height
  BY <1>1 DEF MinedOK
<1>3. Values(T, f, P)
  BY <1>2 DEF Values
<1>4. M[h].height = 1 + Max(T)
  BY DEF Fits
<1> HIDE DEF P, f, T
<1>5. Max(T) \in Int /\ \A p \in P : f[p] <= Max(T)
  BY <1>1, <1>2, <1>3, MaxOfValues
<1>6. \A p \in P : f[p] \in Int /\ f[p] < M[h].height
  BY <1>2, <1>4, <1>5
<1>7. \A p \in P : p \in DOMAIN M /\ M[p].height < M[h].height
  BY <1>1, <1>2, <1>6
<1> QED
  BY <1>7 DEF P

\* What node s has of M: its store, its data, its history and its disk.
StoredOK(M, s) ==
    /\ Genesis \in s.saved /\ s.saved \cup DOMAIN s.store \subseteq DOMAIN M
    /\ s.store = [h \in DOMAIN s.store |-> M[h].parents]
    /\ s.cache \in [DOMAIN s.store -> DataOver(H)]
    /\ \A h \in (s.saved \cup DOMAIN s.store) \ {Genesis} : Fits(M, h)
    /\ s.history \in Seq(DOMAIN s.store)

\* The parents of stored blocks are hashes.
LEMMA StoreRefers ==
    ASSUME NEW M, MinedOK(M), NEW store, DOMAIN store \subseteq DOMAIN M,
           store = [h \in DOMAIN store |-> M[h].parents]
    PROVE  Refers(store, H)
<1>1. IsFiniteSet(DOMAIN store)
  BY HashesFinite, FS_Subset DEF MinedOK
<1>2. ASSUME NEW h \in DOMAIN store PROVE ToSet(store[h]) \subseteq H
  <2>1. store[h] = M[h].parents /\ M[h].parents \in Seq(H)
    BY DEF MinedOK
  <2> QED
    BY <2>1, ToSetFinite
<1> QED
  BY <1>1, <1>2 DEF Refers

\* Fork choice finds a stored block.
LEMMA TipIsStored ==
    ASSUME NEW M, MinedOK(M), NEW s, StoredOK(M, s), DOMAIN s.store # {}
    PROVE  select_canonical_tip(s.store, s.cache) \in DOMAIN s.store
<1> DEFINE D == DOMAIN s.store
           ht == [h \in D |-> M[h].height]
<1>1. D \subseteq DOMAIN M /\ D \subseteq H /\ D # {}
  BY DEF StoredOK, MinedOK
<1>2. IsFiniteSet(D) /\ H \subseteq Nat
  BY <1>1, HashesFinite, FS_Subset
<1>3. ht \in [D -> Int]
  BY <1>1 DEF MinedOK
<1>4. ASSUME NEW h \in D, NEW p \in ToSet(s.store[h]) \cap D PROVE ht[p] < ht[h]
  <2>1. s.store[h] = M[h].parents
    BY DEF StoredOK
  <2>2. CASE h = Genesis
    BY <2>1, <2>2 DEF MinedOK, GenesisBlock, ToSet
  <2>3. CASE h # Genesis
    <3>1. Fits(M, h)
      BY <2>3 DEF StoredOK
    <3>2. M[p].height < M[h].height
      BY <1>1, <2>1, <3>1, HigherThanParents
    <3> QED
      BY <3>2
  <2> QED
    BY <2>2, <2>3
<1>5. s.cache \in [D -> DataOver(H)]
  BY DEF StoredOK
<1> HIDE DEF ht
<1> QED
  BY <1>1, <1>2, <1>3, <1>4, <1>5, CanonicalTip

\* A block that fits enters the store.
LEMMA InsertOK ==
    ASSUME NEW M, MinedOK(M), NEW s, StoredOK(M, s),
           NEW h \in DOMAIN M, h # Genesis, Fits(M, h), NEW t, Enters(s, t, h, M[h].parents)
    PROVE  StoredOK(M, t) /\ DOMAIN t.store = DOMAIN s.store \cup {h}
<1> DEFINE D == DOMAIN s.store
           d == calculate_ghostdag_data(s.store, s.cache, M[h].parents)
<1> USE DEF Enters
<1>1. d \in DataOver(H)
  <2>1. Refers(s.store, H)
    BY StoreRefers DEF StoredOK
  <2>2. M[h].parents \in Seq(H)
    BY DEF MinedOK
  <2>3. s.cache \in [D -> DataOver(H)]
    BY DEF StoredOK
  <2> QED
    BY <2>1, <2>2, <2>3, HashesFinite, DataType
<1> HIDE DEF d
<1>2. DOMAIN t.store = D \cup {h}
  BY DEF Extend
<1>3. t.store = [g \in D \cup {h} |-> M[g].parents]
  <2>1. \A g \in D : s.store[g] = M[g].parents
    BY DEF StoredOK
  <2> QED
    BY <2>1 DEF Extend
<1>4. t.cache \in [D \cup {h} -> DataOver(H)]
  <2>1. DOMAIN s.cache = D /\ \A g \in D : s.cache[g] \in DataOver(H)
    BY DEF StoredOK
  <2>2. t.cache = Extend(s.cache, h, d)
    BY DEF d
  <2> QED
    BY <1>1, <2>1, <2>2 DEF Extend
<1>5. t.history \in Seq(D \cup {h})
  <2>1. s.history \in Seq(D)
    BY DEF StoredOK
  <2>2. s.history \in Seq(D \cup {h})
    BY <2>1
  <2> QED
    BY <2>2
<1>6. Genesis \in t.saved /\ t.saved \cup D \subseteq DOMAIN M
  BY DEF StoredOK
<1>7. \A g \in (t.saved \cup D \cup {h}) \ {Genesis} : Fits(M, g)
  BY DEF StoredOK
<1> QED
  BY <1>2, <1>3, <1>4, <1>5, <1>6, <1>7 DEF StoredOK

\* Fields that are not concerned do not matter.
LEMMA StoredSame ==
    ASSUME NEW M, NEW s, NEW t, NEW F, Differs(s, t, F),
           F \cap {"store", "cache", "history", "saved"} = {}
    PROVE  StoredOK(M, t) <=> StoredOK(M, s)
<1>1. t.store = s.store /\ t.cache = s.cache /\ t.history = s.history /\ t.saved = s.saved
  BY DEF Differs, Fields
<1> QED
  BY <1>1 DEF StoredOK

\* A node with nothing but genesis.
LEMMA NewNodeStored ==
    ASSUME NEW M, MinedOK(M), NEW s, s.store = NewNode.store, s.cache = NewNode.cache,
           s.history = NewNode.history, s.saved = NewNode.saved
    PROVE  StoredOK(M, s)
<1>1. /\ s.store = [h \in {Genesis} |-> <<>>] /\ s.cache = [h \in {Genesis} |-> GenesisData]
      /\ s.history = <<Genesis>> /\ s.saved = {Genesis}
  BY DEF NewNode
<1>2. GenesisData \in DataOver(H)
  BY DEF GenesisData, DataOver
<1>3. M[Genesis].parents = <<>> /\ Genesis \in DOMAIN M
  BY DEF MinedOK, GenesisBlock
<1>4. s.store = [h \in {Genesis} |-> M[h].parents]
  BY <1>1, <1>3
<1> QED
  BY <1>1, <1>2, <1>3, <1>4 DEF StoredOK

\* More blocks change nothing for those that are stored.
LEMMA StoredGrows ==
    ASSUME NEW M, MinedOK(M), NEW h, h \notin DOMAIN M, NEW b, NEW s, StoredOK(M, s)
    PROVE  StoredOK(Extend(M, h, b), s)
<1> DEFINE N == Extend(M, h, b)
<1>1. DOMAIN N = DOMAIN M \cup {h} /\ \A g \in DOMAIN M : N[g] = M[g]
  BY DEF Extend
<1> HIDE DEF N
<1>2. ASSUME NEW g \in DOMAIN M, Fits(M, g) PROVE Fits(N, g)
  <2>1. N[g] = M[g] /\ ToSet(M[g].parents) \subseteq DOMAIN M
    BY <1>1, <1>2 DEF Fits
  <2>2. {N[p].height : p \in ToSet(M[g].parents)} = {M[p].height : p \in ToSet(M[g].parents)}
    BY <1>1, <2>1
  <2> QED
    BY <1>1, <1>2, <2>1, <2>2 DEF Fits
<1>3. s.store = [g \in DOMAIN s.store |-> N[g].parents]
  <2>1. DOMAIN s.store \subseteq DOMAIN M /\ s.store = [g \in DOMAIN s.store |-> M[g].parents]
    BY DEF StoredOK
  <2> QED
    BY <1>1, <2>1
<1>4. StoredOK(N, s)
  BY <1>1, <1>2, <1>3 DEF StoredOK
<1> QED
  BY <1>4 DEF N

-----------------------------------------------------------------------------
(* Restarts. *)

\* The order in which blocks are read back.
LoadOrder(S) == {p \in S \X S : \/ mined[p[1]].height < mined[p[2]].height
                                \/ mined[p[1]].height = mined[p[2]].height /\ p[1] < p[2]}

\* The saved blocks are read back once each, by height and hash.
LEMMA LoadLists ==
    ASSUME MinedOK(mined), NEW s, s.saved \subseteq DOMAIN mined,
           NEW S, S = s.saved \ {Genesis}
    PROVE  IsFiniteSet(S) /\ Lists(load_all_blocks(s), S, LoadOrder(S))
<1> DEFINE R == LoadOrder(S)
           Before(h, i) == \/ mined[h].height < mined[i].height
                           \/ mined[h].height = mined[i].height /\ h < i
           q == load_all_blocks(s)
           at(k) == CHOOSE x \in S : Cardinality({y \in S : Before(y, x)}) = k - 1
<1>1. IsFiniteSet(S) /\ S \subseteq Nat /\ \A h \in S : mined[h].height \in Nat
  BY HashesFinite, FS_Subset DEF MinedOK
<1>2. \A x, y \in S : <<x, y>> \in R <=> Before(x, y)
  <2> SUFFICES ASSUME NEW x \in S, NEW y \in S PROVE <<x, y>> \in LoadOrder(S) <=> Before(x, y)
    OBVIOUS
  <2>1. <<x, y>> \in S \X S /\ <<x, y>>[1] = x /\ <<x, y>>[2] = y
    OBVIOUS
  <2> HIDE DEF q, at, R
  <2> QED
    BY ONLY <2>1 DEF LoadOrder
<1>3. Orders(R, S)
  <2> HIDE DEF R
  <2>1. \A x \in S : ~(<<x, x>> \in R)
    BY <1>1, <1>2
  <2>2. \A x, y \in S : x # y => <<x, y>> \in R \/ <<y, x>> \in R
    BY <1>1, <1>2
  <2>3. \A x, y, z \in S : <<x, y>> \in R /\ <<y, z>> \in R => <<x, z>> \in R
    BY <1>1, <1>2
  <2> QED
    BY <2>1, <2>2, <2>3 DEF Orders
<1>4. \A x \in S : {y \in S : Before(y, x)} = {y \in S : <<y, x>> \in R}
  <2> HIDE DEF R, Before
  <2> QED
    BY <1>2
<1>5. q = [k \in 1..Cardinality(S) |-> at(k)]
  BY DEF load_all_blocks, InOrder
<1>6. ASSUME NEW k \in 1..Cardinality(S), NEW x \in S, Cardinality({y \in S : Before(y, x)}) = k - 1
      PROVE  at(k) \in S /\ Cardinality({y \in S : Before(y, at(k))}) = k - 1
  <2> HIDE DEF Before
  <2> QED
    BY <1>6
<1> HIDE DEF q, at, R, Before
<1>7. Ranks(q, S, R)
  <2>1. q = [k \in 1..Cardinality(S) |-> q[k]] /\ \A k \in 1..Cardinality(S) : q[k] = at(k)
    BY <1>5
  <2>2. ASSUME NEW k \in 1..Cardinality(S), NEW x \in S,
               Cardinality({y \in S : <<y, x>> \in R}) = k - 1
        PROVE  q[k] \in S /\ Cardinality({y \in S : <<y, q[k]>> \in R}) = k - 1
    <3>1. Cardinality({y \in S : Before(y, x)}) = k - 1
      BY <1>4, <2>2
    <3>2. at(k) \in S /\ Cardinality({y \in S : Before(y, at(k))}) = k - 1
      BY <1>6, <3>1
    <3>3. {y \in S : Before(y, at(k))} = {y \in S : <<y, at(k)>> \in R}
      BY <1>4, <3>2
    <3> QED
      BY <2>1, <3>2, <3>3
  <2> QED
    BY <2>1, <2>2 DEF Ranks
<1> QED
  BY <1>1, <1>3, <1>7, InOrderLists DEF q, R

\* What a start-up reads, all of it or nothing, and its order.
Read(s, failed) == IF "blocks" \in failed THEN {} ELSE s.saved \ {Genesis}
Loaded(s, failed) == IF "blocks" \in failed THEN <<>> ELSE load_all_blocks(s)

\* It is a list of the blocks that are read.
LEMMA LoadedLists ==
    ASSUME MinedOK(mined), NEW s, s.saved \subseteq DOMAIN mined, NEW failed
    PROVE  LET S == Read(s, failed)
           IN  IsFiniteSet(S) /\ Lists(Loaded(s, failed), S, LoadOrder(S))
<1>1. CASE "blocks" \in failed
  <2>1. Read(s, failed) = {} /\ Loaded(s, failed) = <<>>
    BY <1>1 DEF Read, Loaded
  <2>2. IsFiniteSet({}) /\ Cardinality({}) = 0
    BY FS_EmptySet
  <2>3. Lists(<<>>, {}, LoadOrder({}))
    BY <2>2 DEF Lists
  <2> QED
    BY <2>1, <2>2, <2>3
<1>2. CASE "blocks" \notin failed
  <2>1. Read(s, failed) = s.saved \ {Genesis} /\ Loaded(s, failed) = load_all_blocks(s)
    BY <1>2 DEF Read, Loaded
  <2> QED
    BY <2>1, LoadLists
<1> QED
  BY <1>1, <1>2

\* r is a run of the replay.
Replays(r, s, failed, n) ==
    /\ r[0] = Resumed(s, failed)
    /\ \A k \in 1..n : LET h == Loaded(s, failed)[k]
                       IN  r[k] = InsertBlock(r[k - 1], h, mined[h])
    /\ r[n] = Replayed(s, failed)

\* Every state of the replay has a store, data and a history of this kind.
Stores == UNION {[D -> Seq(H)] : D \in SUBSET H}
Caches == UNION {[D -> DataOver(H)] : D \in SUBSET H}
With(base, x) == [base EXCEPT !.store = x[1], !.cache = x[2], !.history = x[3]]
Replay(base) == {With(base, x) : x \in Stores \X Caches \X Seq(H)}

\* A block inserted into a replayed node gives a replayed node.
LEMMA ReplayStep ==
    ASSUME MinedOK(mined), NEW base, IsNode(base), NEW v \in Replay(base),
           NEW h \in DOMAIN mined
    PROVE  InsertBlock(v, h, mined[h]) \in Replay(base)
<1>1. PICK a \in Stores, b \in Caches, c \in Seq(H) :
          v = [base EXCEPT !.store = a, !.cache = b, !.history = c]
  <2>1. PICK x \in Stores \X Caches \X Seq(H) : v = With(base, x)
    BY DEF Replay
  <2>2. x[1] \in Stores /\ x[2] \in Caches /\ x[3] \in Seq(H)
    OBVIOUS
  <2> QED
    BY <2>1, <2>2 DEF With
<1>2. v.store = a /\ v.cache = b /\ v.history = c
  BY <1>1 DEF IsNode, Fields
<1> DEFINE d == calculate_ghostdag_data(a, b, mined[h].parents)
           a1 == Extend(a, h, mined[h].parents)
           b1 == Extend(b, h, d)
           c1 == Append(c, h)
<1>3. InsertBlock(v, h, mined[h]) = [v EXCEPT !.store = a1, !.cache = b1, !.history = c1]
  BY <1>2 DEF InsertBlock
<1>4. [v EXCEPT !.store = a1, !.cache = b1, !.history = c1]
        = [base EXCEPT !.store = a1, !.cache = b1, !.history = c1]
  <2> HIDE DEF a1, b1, c1
  <2> QED
    BY <1>1 DEF IsNode, Fields
<1>5. h \in H /\ mined[h].parents \in Seq(H)
  BY DEF MinedOK
<1>6. PICK D \in SUBSET H : a \in [D -> Seq(H)]
  BY DEF Stores
<1>7. PICK C \in SUBSET H : b \in [C -> DataOver(H)]
  BY DEF Caches
<1>8. Refers(a, H)
  <2>1. IsFiniteSet(D) /\ DOMAIN a = D
    BY <1>6, HashesFinite, FS_Subset
  <2>2. ASSUME NEW g \in D PROVE ToSet(a[g]) \subseteq H
    BY <1>6, ToSetFinite
  <2> QED
    BY <2>1, <2>2 DEF Refers
<1>9. d \in DataOver(H)
  BY <1>5, <1>7, <1>8, HashesFinite, DataType
<1> HIDE DEF d
<1>10. a1 \in [D \cup {h} -> Seq(H)] /\ b1 \in [C \cup {h} -> DataOver(H)] /\ c1 \in Seq(H)
  BY <1>5, <1>6, <1>7, <1>9 DEF Extend
<1> HIDE DEF a1, b1, c1
<1>11. a1 \in Stores /\ b1 \in Caches
  <2>1. D \cup {h} \in SUBSET H /\ C \cup {h} \in SUBSET H
    BY <1>5
  <2> QED
    BY <1>10, <2>1 DEF Stores, Caches
<1> QED
  <2> DEFINE x == <<a1, b1, c1>>
  <2>1. x \in Stores \X Caches \X Seq(H) /\ x[1] = a1 /\ x[2] = b1 /\ x[3] = c1
    BY <1>10, <1>11
  <2> HIDE DEF x
  <2>2. InsertBlock(v, h, mined[h]) = With(base, x)
    BY <1>3, <1>4, <2>1 DEF With
  <2> QED
    BY <2>1, <2>2 DEF Replay

\* What a restarted node starts from.
LEMMA ResumedIs ==
    ASSUME NEW s, NEW failed, NEW b, b = Resumed(s, failed)
    PROVE  /\ IsNode(b) /\ b \in Replay(b)
           /\ Differs(NewNode, b, {"saved", "disk", "lost", "disk_phantom", "misread",
                                   "unpublished", "disk_errors", "connects", "restarts"})
           /\ b.saved = s.saved /\ b.lost = s.lost /\ b.connects = s.connects
           /\ b.disk = s.disk /\ b.disk_phantom = s.disk_phantom
           /\ b.misread = (failed \ {"recomputed"} # {}) /\ b.restarts = s.restarts + 1
<1>1. /\ Differs(NewNode, b, {"saved", "disk", "lost", "disk_phantom", "misread",
                              "unpublished", "disk_errors", "connects", "restarts"})
      /\ b.saved = s.saved /\ b.lost = s.lost /\ b.connects = s.connects
      /\ b.disk = s.disk /\ b.disk_phantom = s.disk_phantom
      /\ b.misread = (failed \ {"recomputed"} # {}) /\ b.restarts = s.restarts + 1
  BY NewNodeIsNode DEF Differs, IsNode, Fields, Resumed
<1>2. IsNode(b)
  BY <1>1 DEF Differs
<1>3. b.store = NewNode.store /\ b.cache = NewNode.cache /\ b.history = NewNode.history
  BY <1>1 DEF Differs, Fields
<1>4. b.store \in [{Genesis} -> Seq(H)] /\ b.cache \in [{Genesis} -> DataOver(H)] /\ b.history \in Seq(H)
  BY <1>3 DEF NewNode, GenesisData, DataOver, H
<1>5. b.store \in Stores /\ b.cache \in Caches
  <2>1. {Genesis} \in SUBSET H
    BY DEF H
  <2> QED
    BY <1>4, <2>1 DEF Stores, Caches
<1>6. b = [b EXCEPT !.store = b.store, !.cache = b.cache, !.history = b.history]
  BY <1>2 DEF IsNode, Fields
<1>7. b \in Replay(b)
  <2> DEFINE x == <<b.store, b.cache, b.history>>
  <2>1. x \in Stores \X Caches \X Seq(H)
        /\ x[1] = b.store /\ x[2] = b.cache /\ x[3] = b.history
    BY <1>4, <1>5
  <2> HIDE DEF x
  <2>2. b = With(b, x)
    BY <1>6, <2>1 DEF With
  <2> QED
    BY <2>1, <2>2 DEF Replay
<1> QED
  BY <1>1, <1>2, <1>7

\* The loop of the replay has a run.
LEMMA ReplayRun ==
    ASSUME MinedOK(mined), NEW s, NEW failed, NEW n \in Nat,
           Loaded(s, failed) \in [1..n -> DOMAIN mined]
    PROVE  \E r \in [0..n -> Replay(Resumed(s, failed))] : Replays(r, s, failed, n)
<1> DEFINE base == Resumed(s, failed)
           V == Replay(base)
           S == 1..n
           q == Loaded(s, failed)
           Eq(g) == g = [u \in SUBSET S |->
                            IF u = {} THEN base
                            ELSE InsertBlock(g[u \ {Max(u)}], q[Max(u)], mined[q[Max(u)]])]
           G == [p \in S \X V |-> InsertBlock(p[2], q[p[1]], mined[q[p[1]]])]
           h == CHOOSE g : Eq(g)
<1>1. Replayed(s, failed) = h[S]
  <2>1. DOMAIN q = S
    OBVIOUS
  <2> HIDE DEF q
  <2>2. Replayed(s, failed) = FoldLeft(LAMBDA acc, x : InsertBlock(acc, x, mined[x]), base, q)
    BY DEF Replayed, Loaded, q
  <2> HIDE DEF base
  <2> QED
    BY <2>1, <2>2 DEF FoldLeft, MapThenFoldSet
<1>2. q \in [S -> DOMAIN mined]
  OBVIOUS
<1>3. IsNode(base) /\ base \in V
  BY ResumedIs
<1> HIDE DEF q, base
<1>4. G \in [S \X V -> V]
  <2> SUFFICES ASSUME NEW p \in S \X V PROVE InsertBlock(p[2], q[p[1]], mined[q[p[1]]]) \in V
    OBVIOUS
  <2>1. p[1] \in S /\ p[2] \in V /\ q[p[1]] \in DOMAIN mined
    BY <1>2
  <2> QED
    BY <1>3, <2>1, ReplayStep
<1> HIDE DEF V
<1>5. \A k \in S, v \in V : G[<<k, v>>] = InsertBlock(v, q[k], mined[q[k]])
  OBVIOUS
<1> HIDE DEF G
<1>6. PICK g \in [SUBSET S -> V] : LeftFold(g, n, base, G)
  BY <1>3, <1>4, LeftFoldExists
<1>7. ASSUME NEW u \in SUBSET S, u # {} PROVE Max(u) \in S /\ u \ {Max(u)} \in SUBSET S
  BY <1>7, MaxInSet
<1>8. Eq(g)
  <2>1. ASSUME NEW u \in SUBSET S, u # {}
        PROVE  g[u] = InsertBlock(g[u \ {Max(u)}], q[Max(u)], mined[q[Max(u)]])
    <3>1. g[u \ {Max(u)}] \in V
      BY <1>7, <2>1
    <3> QED
      BY <1>5, <1>6, <1>7, <2>1, <3>1 DEF LeftFold
  <2>2. g[{}] = base
    BY <1>6 DEF LeftFold
  <2> QED
    BY <2>1, <2>2
<1>9. Eq(h)
  <2> HIDE DEF Eq
  <2> QED
    BY <1>8
<1> HIDE DEF h
<1>10. h[{}] = base
  BY <1>9
<1>11. FoldsWithin(h, n, V, base, G)
  <2> SUFFICES ASSUME NEW u \in SUBSET S, u # {}, h[u \ {Max(u)}] \in V
               PROVE  h[u] = G[<<Max(u), h[u \ {Max(u)}]>>]
    BY <1>10 DEF FoldsWithin
  <2>1. h[u] = InsertBlock(h[u \ {Max(u)}], q[Max(u)], mined[q[Max(u)]])
    BY <1>9
  <2> HIDE DEF Eq
  <2> QED
    BY <1>5, <1>7, <2>1
<1>12. PICK r \in [0..n -> V] : FoldRuns(r, n, base, G, h[1..n])
  <2> HIDE DEF Eq
  <2> QED
    BY <1>3, <1>4, <1>11, LeftFoldRuns
<1>13. ASSUME NEW k \in 1..n PROVE r[k] = InsertBlock(r[k - 1], q[k], mined[q[k]])
  <2>1. k - 1 \in 0..n
    OBVIOUS
  <2>2. r[k - 1] \in V
    BY <2>1
  <2> HIDE DEF Eq
  <2> QED
    BY <1>5, <1>12, <2>2 DEF FoldRuns
<1>14. Replays(r, s, failed, n)
  <2> HIDE DEF Eq
  <2> QED
    BY <1>1, <1>12, <1>13 DEF Replays, FoldRuns, base, q
<1> QED
  BY <1>14 DEF V, q, base

\* Only the store, the data and the history change during the replay.
LEMMA ReplayKeeps ==
    ASSUME NEW base, IsNode(base), NEW v \in Replay(base)
    PROVE  Differs(base, v, {"store", "cache", "history"})
<1>1. PICK x \in Stores \X Caches \X Seq(H) : v = With(base, x)
  BY DEF Replay
<1> QED
  BY <1>1 DEF With, Differs, IsNode, Fields

\* Genesis and the first k blocks of q; and that each of those is new and comes
\* after its parents.
UpTo(q, k) == {Genesis} \cup {q[i] : i \in 1..k}
InSequence(q, k) ==
    \A i \in 1..k : /\ q[i] \notin UpTo(q, i - 1)
                    /\ ToSet(mined[q[i]].parents) \subseteq UpTo(q, i - 1)

\* The replay after k blocks of q.
Stage(v, q, k) ==
    /\ v.store = [h \in UpTo(q, k) |-> mined[h].parents]
    /\ v.cache \in [UpTo(q, k) -> DataOver(H)]
    /\ v.history = [i \in 1..(k + 1) |-> IF i = 1 THEN Genesis ELSE q[i - 1]]
    /\ InSequence(q, k) => Coherent(v.store, v.cache)

\* Each block adds itself.
LEMMA StageStep ==
    ASSUME MinedOK(mined), NEW n \in Nat, NEW q \in [1..n -> DOMAIN mined],
           NEW k \in 1..n, NEW v, IsNode(v), Stage(v, q, k - 1)
    PROVE  Stage(InsertBlock(v, q[k], mined[q[k]]), q, k)
<1> DEFINE h == q[k]
           D == UpTo(q, k - 1)
           E == UpTo(q, k)
           d == calculate_ghostdag_data(v.store, v.cache, mined[h].parents)
           w == InsertBlock(v, h, mined[h])
<1>1. /\ v.store = [g \in D |-> mined[g].parents]
      /\ v.cache \in [D -> DataOver(H)]
      /\ v.history = [i \in 1..k |-> IF i = 1 THEN Genesis ELSE q[i - 1]]
  <2>1. (k - 1) + 1 = k
    OBVIOUS
  <2> QED
    BY <2>1 DEF Stage
<1>2. h \in DOMAIN mined /\ D \subseteq DOMAIN mined /\ mined[h].parents \in Seq(H) /\ h \in Nat
  BY HashesFinite DEF MinedOK, UpTo
<1>3. E = D \cup {h}
  <2>1. \A i \in 1..k : i \in 1..(k - 1) \/ i = k
    OBVIOUS
  <2>2. \A i \in 1..(k - 1) : i \in 1..k
    OBVIOUS
  <2>3. k \in 1..k
    OBVIOUS
  <2> QED
    BY <2>1, <2>2, <2>3 DEF UpTo
<1>4. d \in DataOver(H)
  <2> HIDE DEF D
  <2>1. DOMAIN v.store = D
    BY <1>1
  <2>2. Refers(v.store, H)
    BY <1>1, <1>2, <2>1, StoreRefers
  <2> QED
    BY <1>1, <1>2, <2>2, HashesFinite, DataType
<1>5. /\ w.store = Extend(v.store, h, mined[h].parents)
      /\ w.cache = Extend(v.cache, h, d)
      /\ w.history = Append(v.history, h)
  BY InsertKeeps
<1> HIDE DEF w, d, E, D
<1>6. w.store = [g \in E |-> mined[g].parents]
  BY <1>1, <1>3, <1>5 DEF Extend
<1>7. w.cache \in [E -> DataOver(H)]
  BY <1>1, <1>3, <1>4, <1>5 DEF Extend
<1>8. w.history = [i \in 1..(k + 1) |-> IF i = 1 THEN Genesis ELSE q[i - 1]]
  <2>1. v.history \in Seq(H) /\ Len(v.history) = k
    <3>1. \A i \in 1..k : v.history[i] \in H
      <4> SUFFICES ASSUME NEW i \in 1..k PROVE v.history[i] \in H
        OBVIOUS
      <4>1. CASE i = 1
        BY <1>1, <4>1 DEF H
      <4>2. CASE i # 1
        <5>1. i - 1 \in 1..n
          BY <4>2
        <5>2. q[i - 1] \in DOMAIN mined
          BY <5>1
        <5> QED
          BY <1>1, <4>2, <5>2 DEF MinedOK
      <4> QED
        BY <4>1, <4>2
    <3>2. v.history \in [1..k -> H]
      BY <1>1, <3>1
    <3>3. k \in Nat
      OBVIOUS
    <3> QED
      BY <3>2, <3>3
  <2>2. w.history = [i \in 1..(k + 1) |-> IF i <= k THEN v.history[i] ELSE h]
    BY <1>5, <2>1
  <2>3. ASSUME NEW i \in 1..(k + 1)
        PROVE  (IF i <= k THEN v.history[i] ELSE h) = (IF i = 1 THEN Genesis ELSE q[i - 1])
    <3>1. CASE i <= k
      <4>1. i \in 1..k
        BY <3>1
      <4> QED
        BY <1>1, <3>1, <4>1
    <3>2. CASE ~(i <= k)
      <4>1. i = k + 1 /\ i # 1 /\ i - 1 = k
        BY <3>2
      <4> QED
        BY <3>2, <4>1
    <3> QED
      BY <3>1, <3>2
  <2> QED
    BY <2>2, <2>3
<1>9. ASSUME InSequence(q, k) PROVE Coherent(w.store, w.cache)
  <2>1. k \in 1..k /\ \A i \in 1..(k - 1) : i \in 1..k
    OBVIOUS
  <2>2. h \notin D /\ ToSet(mined[h].parents) \subseteq D /\ InSequence(q, k - 1)
    BY <1>9, <2>1 DEF InSequence, D
  <2>3. Coherent(v.store, v.cache)
    BY <2>2 DEF Stage
  <2>4. DOMAIN v.store = D /\ DOMAIN v.cache = D
    BY <1>1
  <2>5. mined[h].parents \in Seq(DOMAIN v.store)
    <3> DEFINE p == mined[h].parents
    <3>1. p \in Seq(H) /\ ToSet(p) \subseteq D
      BY <1>2, <2>2
    <3> HIDE DEF p
    <3>2. Len(p) \in Nat /\ p \in [1..Len(p) -> D]
      BY <3>1 DEF ToSet
    <3>3. p \in Seq(D)
      BY <3>2
    <3> QED
      BY <2>4, <3>3 DEF p
  <2>6. Joins(v.store, v.cache, w.store, w.cache, h, mined[h].parents, d)
    <3> DEFINE p == mined[h].parents
    <3>1. w.store = Extend(v.store, h, p) /\ w.cache = Extend(v.cache, h, d)
      BY <1>5
    <3> HIDE DEF p, h
    <3>2. DOMAIN w.store = D \cup {h} /\ w.store[h] = p /\ \A x \in D : w.store[x] = v.store[x]
      BY <2>2, <2>4, <3>1 DEF Extend
    <3>3. w.cache = [x \in D \cup {h} |-> IF x = h THEN d ELSE v.cache[x]]
      BY <2>4, <3>1 DEF Extend
    <3>4. Joins(v.store, v.cache, w.store, w.cache, h, p, d)
      BY <2>4, <3>2, <3>3 DEF Joins
    <3> QED
      BY <3>4 DEF p
  <2> QED
    BY <1>2, <2>2, <2>3, <2>4, <2>5, <2>6, CoherentGrows DEF d
<1> QED
  BY <1>6, <1>7, <1>8, <1>9 DEF Stage, w, E

\* Genesis alone has the data it should have.
LEMMA NewNodeCoherent == Coherent(NewNode.store, NewNode.cache)
<1> DEFINE s == [h \in {Genesis} |-> <<>>]
           c == [h \in {Genesis} |-> GenesisData]
<1>1. DOMAIN s = {Genesis} /\ s[Genesis] = <<>> /\ IsFiniteSet(DOMAIN s) /\ DOMAIN s \subseteq Nat
  BY FS_Singleton DEF Genesis
<1>2. Closed(s)
  BY <1>1 DEF Closed, Refers, ToSet
<1>3. GenesisData \in DataOver({Genesis})
  BY DEF GenesisData, DataOver
<1>4. c \in [DOMAIN s -> DataOver(DOMAIN s)] /\ c[Genesis] = GenesisData
  BY <1>1, <1>3
<1> HIDE DEF s, c
<1>5. c[Genesis] = calculate_ghostdag_data(s, c, s[Genesis])
  BY <1>1, <1>4, OrphanData
<1>6. s[Genesis] \in Seq(DOMAIN s)
  BY <1>1
<1>7. Coherent(s, c)
  BY <1>1, <1>2, <1>4, <1>5, <1>6 DEF Coherent
<1> QED
  BY <1>7 DEF NewNode, s, c

\* What the replay of the disk of s gives: every block that is read, with
\* history as they are read.
LEMMA ReplayedIs ==
    ASSUME MinedOK(mined), NEW s, s.saved \subseteq DOMAIN mined, NEW failed
    PROVE  /\ Differs(Resumed(s, failed), Replayed(s, failed), {"store", "cache", "history"})
           /\ Stage(Replayed(s, failed), Loaded(s, failed), Cardinality(Read(s, failed)))
<1> DEFINE S == Read(s, failed)
           n == Cardinality(S)
           q == Loaded(s, failed)
<1>0. S \subseteq DOMAIN mined
  BY DEF Read
<1>1. IsFiniteSet(S) /\ Lists(q, S, LoadOrder(S))
  BY LoadedLists
<1> HIDE DEF S
<1>2. n \in Nat /\ q \in [1..n -> DOMAIN mined]
  BY <1>0, <1>1, FS_CardinalityType DEF Lists
<1> HIDE DEF q, n
<1>3. PICK r \in [0..n -> Replay(Resumed(s, failed))] : Replays(r, s, failed, n)
  BY <1>2, ReplayRun DEF q
<1> DEFINE P == {k \in Nat : k <= n => Stage(r[k], q, k)}
<1>4. IsNode(Resumed(s, failed))
  BY ResumedIs
<1>5. \A k \in 0..n : Differs(Resumed(s, failed), r[k], {"store", "cache", "history"}) /\ IsNode(r[k])
  BY <1>4, ReplayKeeps DEF Differs
<1>6. 0 \in P
  <2>1. r[0] = Resumed(s, failed)
    BY <1>3 DEF Replays
  <2>2. r[0].store = NewNode.store /\ r[0].cache = NewNode.cache /\ r[0].history = NewNode.history
    BY <2>1, ResumedIs DEF Differs, Fields
  <2>3. mined[Genesis].parents = <<>> /\ GenesisData \in DataOver(H)
    BY DEF MinedOK, GenesisBlock, GenesisData, DataOver
  <2>4. 1..0 = {} /\ 0 + 1 = 1
    OBVIOUS
  <2>5. UpTo(q, 0) = {Genesis}
    BY <2>4 DEF UpTo
  <2>6. r[0].history = [i \in 1..1 |-> IF i = 1 THEN Genesis ELSE q[i - 1]]
    BY <2>2 DEF NewNode
  <2>7. r[0].store = [h \in {Genesis} |-> mined[h].parents]
    BY <2>2, <2>3 DEF NewNode
  <2>8. r[0].cache \in [{Genesis} -> DataOver(H)]
    BY <2>2, <2>3 DEF NewNode
  <2>9. Coherent(r[0].store, r[0].cache)
    BY <2>2, NewNodeCoherent
  <2>10. Stage(r[0], q, 0)
    BY <2>4, <2>5, <2>6, <2>7, <2>8, <2>9 DEF Stage
  <2> QED
    BY <2>10
<1>7. ASSUME NEW k \in Nat, k \in P PROVE k + 1 \in P
  <2> SUFFICES ASSUME k + 1 <= n PROVE Stage(r[k + 1], q, k + 1)
    OBVIOUS
  <2>1. k + 1 \in 1..n /\ k \in 0..n /\ (k + 1) - 1 = k
    BY <1>2
  <2>2. Stage(r[k], q, k)
    BY <1>7, <2>1
  <2>3. r[k + 1] = InsertBlock(r[k], q[k + 1], mined[q[k + 1]])
    BY <1>3, <2>1 DEF Replays, q
  <2>4. IsNode(r[k])
    BY <1>5, <2>1
  <2> HIDE DEF P
  <2> DEFINE j == k + 1
  <2>5. j \in 1..n /\ Stage(r[k], q, j - 1)
    BY <2>1, <2>2
  <2>6. r[j] = InsertBlock(r[k], q[j], mined[q[j]])
    BY <2>3
  <2> HIDE DEF j
  <2>7. Stage(r[j], q, j)
    BY <1>2, <2>4, <2>5, <2>6, StageStep
  <2> QED
    BY <2>7 DEF j
<1>8. n \in P
  <2> HIDE DEF P
  <2> QED
    BY <1>2, <1>6, <1>7, NatSetInduction
<1>9. Stage(r[n], q, n) /\ r[n] = Replayed(s, failed) /\ n \in 0..n
  BY <1>2, <1>3, <1>8 DEF Replays
<1> QED
  BY <1>5, <1>9 DEF q, n, S

-----------------------------------------------------------------------------
(* The inductive invariant. *)

CallsOf(M) == [source : Nodes \cup {Stranger}, hash : DOMAIN M \ {Genesis}]

\* The calls to be made and the pool of node s, which counts its orphans.
PoolOK(M, s) ==
    /\ s.todo \in Seq(CallsOf(M))
    /\ s.waiting_on \in [H -> Seq(CallsOf(M))]
    /\ s.current_size = SumFunction([h \in H |-> Len(s.waiting_on[h])])
    /\ s.current_size <= ORPHAN_POOL_MAX

\* Orphans wait for blocks that are not among the stored ones, and that are
\* not still to be mined.
Waits(M, s, stored) ==
    \A h \in H :
        s.waiting_on[h] # <<>> => h \notin stored /\ h \in DOMAIN M \cup {OtherGenesis}

\* Position i of the history q holds a block that comes after its parents.
Attached(M, q, i) == ToSet(M[q[i]].parents) \subseteq {q[j] : j \in 1..(i - 1)}

\* As long as every block could be saved, the disk has what is stored and its
\* parents, and history lists the store from genesis on, or from a block on
\* genesis where that could not be read.  Both are the same if all was read.
HistoryOK(M, s) ==
    s.lost = {} =>
        /\ DOMAIN s.store \subseteq s.saved
        /\ \A h \in s.saved : ToSet(M[h].parents) \subseteq s.saved
        /\ ToSet(s.history) = DOMAIN s.store /\ IsInjective(s.history)
        /\ s.history # <<>> => ToSet(M[s.history[1]].parents) \subseteq {Genesis}
        /\ Genesis \in DOMAIN s.store => s.history[1] = Genesis
        /\ \A i \in 2..Len(s.history) : Attached(M, s.history, i)
        /\ ~s.misread => s.saved = DOMAIN s.store

\* The mining gate of node s.
GateOK(s) ==
    /\ s.answering \in BOOLEAN /\ s.sync_pending \in BOOLEAN /\ s.abandoned \in BOOLEAN
    /\ s.connects \in Nat

\* Node s in the middle of an event, and between two calls.
Runs(M, s) ==
    /\ IsNode(s)
    /\ StoredOK(M, s) /\ PoolOK(M, s) /\ Waits(M, s, DOMAIN s.store)
    /\ HistoryOK(M, s) /\ GateOK(s)
NodeOK(M, s) == Runs(M, s) /\ (s.answering => s.todo # <<>>)

Messages(M) ==
    [type : {"request", "response", "mismatch", "failed"}, client : Nodes,
     server : Nodes \cup {Stranger}, id : Nat, blocks : Seq(DOMAIN M \ {Genesis}), since : Nat]

\* A message, and all of them: requests have numbers of their own.
MessageOK(M, N, r) ==
    /\ r \in Messages(M) /\ r.server # r.client /\ r.id < N[r.client].connects
    /\ r.server = Stranger \/ r.type = "request" => r.blocks = <<>>
NetOK(M, N, S) ==
    /\ IsFiniteSet(S)
    /\ \A r \in S : MessageOK(M, N, r)
    /\ \A r, q \in S : r.client = q.client /\ r.id = q.id => r = q

Inv ==
    /\ MinedOK(mined)
    /\ node = [n \in Nodes |-> node[n]]
    /\ \A n \in Nodes : NodeOK(mined, node[n])
    /\ NetOK(mined, node, net)
    /\ now \in Nat

-----------------------------------------------------------------------------
(* Parts of a call. *)

\* What the invariant does not look at.
Ignored == {"ledger", "disk", "target", "mempool", "blamed", "unpublished", "phantom",
            "disk_phantom", "disk_errors", "restarts"}

\* A state that differs in those only runs as well.
LEMMA IgnoredFields ==
    ASSUME NEW M, NEW s, NEW t, NEW F, Differs(s, t, F), F \subseteq Ignored
    PROVE  /\ Runs(M, s) => Runs(M, t)
           /\ t.todo = s.todo /\ t.answering = s.answering /\ t.store = s.store
           /\ t.lost = s.lost /\ t.connects = s.connects /\ t.saved = s.saved
<1>1. /\ t.store = s.store /\ t.cache = s.cache /\ t.history = s.history /\ t.saved = s.saved
      /\ t.todo = s.todo /\ t.waiting_on = s.waiting_on /\ t.current_size = s.current_size
      /\ t.lost = s.lost /\ t.answering = s.answering /\ t.sync_pending = s.sync_pending
      /\ t.abandoned = s.abandoned /\ t.connects = s.connects /\ t.misread = s.misread
  BY DEF Differs, Fields, Ignored
<1>2. IsNode(t)
  BY DEF Differs
<1> QED
  BY <1>1, <1>2 DEF Runs, StoredOK, PoolOK, Waits, HistoryOK, GateOK

\* The next call is taken from the stack.
LEMMA PopRuns ==
    ASSUME NEW M, NEW s, Runs(M, s), s.todo # <<>>
    PROVE  LET t == [s EXCEPT !.todo = Tail(@)]
           IN  /\ Runs(M, t) /\ Differs(s, t, {"todo"}) /\ t.todo = Tail(s.todo)
               /\ Head(s.todo) \in CallsOf(M)
<1> DEFINE t == [s EXCEPT !.todo = Tail(@)]
<1>1. Differs(s, t, {"todo"}) /\ t.todo = Tail(s.todo)
  BY DEF Runs, Differs, IsNode, Fields
<1> HIDE DEF t
<1>2. s.todo \in Seq(CallsOf(M))
  BY DEF Runs, PoolOK
<1>3. Tail(s.todo) \in Seq(CallsOf(M)) /\ Head(s.todo) \in CallsOf(M)
  BY <1>2
<1>4. /\ t.store = s.store /\ t.cache = s.cache /\ t.history = s.history /\ t.saved = s.saved
      /\ t.waiting_on = s.waiting_on /\ t.current_size = s.current_size
      /\ t.lost = s.lost /\ t.answering = s.answering /\ t.sync_pending = s.sync_pending
      /\ t.abandoned = s.abandoned /\ t.connects = s.connects /\ t.misread = s.misread
      /\ IsNode(t)
  BY <1>1 DEF Differs, Fields
<1>5. Runs(M, t)
  BY <1>1, <1>3, <1>4 DEF Runs, StoredOK, PoolOK, Waits, HistoryOK, GateOK
<1> QED
  BY <1>1, <1>3, <1>5 DEF t

\* The number of orphans, as the sum of the lengths.
Lengths(s) == [h \in H |-> Len(s.waiting_on[h])]

\* They are natural numbers, and their sum is the pool's counter.
LEMMA LengthsType ==
    ASSUME NEW M, NEW s, PoolOK(M, s)
    PROVE  /\ Lengths(s) \in [H -> Nat] /\ Lengths(s) \in [H -> Int]
           /\ s.current_size = SumFunction(Lengths(s)) /\ s.current_size \in Int
           /\ IsFiniteSet(H)
<1>1. Lengths(s) \in [H -> Nat]
  BY DEF PoolOK, Lengths
<1>2. Lengths(s) \in [H -> Int]
  BY <1>1
<1>3. s.current_size = SumFunction(Lengths(s))
  BY DEF PoolOK, Lengths
<1> QED
  BY <1>1, <1>2, <1>3, HashesFinite, SumType

\* An orphan enters the pool, if there is room.
LEMMA OrphanRuns ==
    ASSUME NEW M, NEW s, Runs(M, s), NEW p \in H, p \notin DOMAIN s.store,
           p \in DOMAIN M \cup {OtherGenesis}, NEW c \in CallsOf(M)
    PROVE  LET t == InsertOrphan(s, p, c)
           IN  Runs(M, t) /\ Differs(s, t, {"waiting_on", "current_size"})
<1> DEFINE t == InsertOrphan(s, p, c)
<1>1. CASE s.current_size >= ORPHAN_POOL_MAX
  <2>1. t = s
    BY <1>1 DEF InsertOrphan
  <2> QED
    BY <2>1 DEF Runs, Differs
<1>2. CASE ~(s.current_size >= ORPHAN_POOL_MAX)
  <2>1. t = [s EXCEPT !.waiting_on[p] = Append(@, c), !.current_size = @ + 1]
    BY <1>2 DEF InsertOrphan
  <2> HIDE DEF t
  <2>2. /\ Differs(s, t, {"waiting_on", "current_size"})
        /\ t.waiting_on = [s.waiting_on EXCEPT ![p] = Append(@, c)]
        /\ t.current_size = s.current_size + 1
    BY <2>1 DEF Runs, Differs, IsNode, Fields
  <2>3. s.waiting_on \in [H -> Seq(CallsOf(M))] /\ PoolOK(M, s)
    BY DEF Runs, PoolOK
  <2>4. t.waiting_on \in [H -> Seq(CallsOf(M))] /\ t.waiting_on[p] = Append(s.waiting_on[p], c)
        /\ \A h \in H : h # p => t.waiting_on[h] = s.waiting_on[h]
    BY <2>2, <2>3
  <2>5. Len(Append(s.waiting_on[p], c)) = Len(s.waiting_on[p]) + 1 /\ Len(s.waiting_on[p]) \in Nat
    BY <2>3
  <2>6. Lengths(t) = [Lengths(s) EXCEPT ![p] = Lengths(s)[p] + 1] /\ Lengths(s)[p] \in Nat
    BY <2>4, <2>5 DEF Lengths
  <2>7. SumFunction(Lengths(t)) = SumFunction(Lengths(s)) - Lengths(s)[p] + (Lengths(s)[p] + 1)
        /\ SumFunction(Lengths(s)) \in Int
    <3>1. Lengths(s) \in [H -> Int] /\ IsFiniteSet(H)
      BY <2>3, LengthsType
    <3> DEFINE L == Lengths(s)
               v == L[p] + 1
    <3>2. v \in Int /\ Lengths(t) = [L EXCEPT ![p] = v]
      BY <2>6
    <3>3. L \in [H -> Int]
      BY <3>1
    <3> HIDE DEF L, v
    <3>4. IsFiniteSet(H) /\ v \in Int
      BY <3>1, <3>2
    <3>5. SumFunction([L EXCEPT ![p] = v]) = SumFunction(L) - L[p] + v /\ SumFunction(L) \in Int
      BY <3>3, <3>4, SumUpdate, ZenonT(30)
    <3>6. SumFunction(Lengths(t)) = SumFunction(L) - L[p] + v
      BY <3>2, <3>5
    <3> QED
      BY <3>5, <3>6 DEF L, v
  <2>8. t.current_size = SumFunction(Lengths(t)) /\ t.current_size <= ORPHAN_POOL_MAX
    <3>1. s.current_size = SumFunction(Lengths(s)) /\ ORPHAN_POOL_MAX \in Nat
      BY <2>3, LengthsType, NodeAssumption
    <3> QED
      BY <1>2, <2>2, <2>6, <2>7, <3>1
  <2>9. /\ t.store = s.store /\ t.cache = s.cache /\ t.history = s.history /\ t.saved = s.saved
        /\ t.todo = s.todo
        /\ t.lost = s.lost /\ t.answering = s.answering /\ t.sync_pending = s.sync_pending
        /\ t.abandoned = s.abandoned /\ t.connects = s.connects /\ t.misread = s.misread
        /\ IsNode(t)
    BY <2>2 DEF Differs, Fields
  <2>10. PoolOK(M, t)
    BY <2>3, <2>4, <2>8, <2>9 DEF PoolOK, Lengths
  <2>11. Waits(M, t, DOMAIN t.store)
    BY <2>4, <2>9 DEF Runs, Waits
  <2>12. StoredOK(M, t) /\ HistoryOK(M, t) /\ GateOK(t)
    BY <2>9 DEF Runs, StoredOK, HistoryOK, GateOK
  <2> QED
    BY <2>2, <2>9, <2>10, <2>11, <2>12 DEF Runs, t
<1> QED
  BY <1>1, <1>2

\* Node s in the middle of the ingestion of h: the orphans that wait for h are
\* still in the pool.
Ingesting(M, s, h) ==
    /\ IsNode(s)
    /\ StoredOK(M, s) /\ PoolOK(M, s) /\ Waits(M, s, DOMAIN s.store \ {h})
    /\ HistoryOK(M, s) /\ GateOK(s)

\* max(0, x) is x.
LEMMA MaxZero == ASSUME NEW x \in Nat PROVE Max({0, x}) = x
<1>1. x \in {0, x} /\ \A y \in {0, x} : x >= y
  OBVIOUS
<1>2. \A z \in {0, x} : (\A y \in {0, x} : z >= y) => z = x
  OBVIOUS
<1> QED
  BY <1>1, <1>2 DEF Max

\* The orphans that wait for h leave the pool, however many they are.
LEMMA TakeRuns ==
    ASSUME NEW M, NEW h \in H, NEW s, Ingesting(M, s, h)
    PROVE  LET t == TakeReady(s, h)
           IN  Runs(M, t) /\ Differs(s, t, {"waiting_on", "current_size", "todo"})
<1> DEFINE t == TakeReady(s, h)
           L == Lengths(s)
<1>1. /\ Differs(s, t, {"waiting_on", "current_size", "todo"})
      /\ t.waiting_on = [s.waiting_on EXCEPT ![h] = <<>>]
      /\ t.current_size = Max({0, s.current_size - Len(s.waiting_on[h])})
      /\ t.todo = s.waiting_on[h] \o s.todo
  BY DEF Ingesting, TakeReady, Differs, IsNode, Fields
<1> HIDE DEF t
<1>2. s.waiting_on \in [H -> Seq(CallsOf(M))] /\ s.todo \in Seq(CallsOf(M)) /\ PoolOK(M, s)
  BY DEF Ingesting, PoolOK
<1>3. /\ t.waiting_on \in [H -> Seq(CallsOf(M))] /\ t.waiting_on[h] = <<>>
      /\ \A g \in H : g # h => t.waiting_on[g] = s.waiting_on[g]
  BY <1>1, <1>2
<1>4. t.todo \in Seq(CallsOf(M))
  BY <1>1, <1>2
<1>5. /\ L \in [H -> Nat] /\ L \in [H -> Int] /\ IsFiniteSet(H)
      /\ s.current_size = SumFunction(L) /\ L[h] = Len(s.waiting_on[h]) /\ L[h] \in Nat
      /\ SumFunction(L) \in Int
  BY <1>2, LengthsType DEF Lengths
<1>6. Lengths(t) = [L EXCEPT ![h] = 0]
  <2>1. Len(t.waiting_on[h]) = 0
    BY <1>3
  <2> QED
    BY <1>3, <2>1 DEF Lengths
<1> HIDE DEF L
<1>7. L[h] <= SumFunction(L)
  BY <1>5, SumBounds
<1>8. t.current_size = SumFunction(L) - L[h]
  <2> DEFINE x == SumFunction(L) - L[h]
  <2>1. x \in Nat
    BY <1>5, <1>7
  <2>2. t.current_size = Max({0, x})
    BY <1>1, <1>5
  <2> HIDE DEF x
  <2>3. t.current_size = x
    BY <2>1, <2>2, MaxZero
  <2> QED
    BY <2>3 DEF x
<1>9. \A y \in Int : /\ SumFunction(L) \in Int
                     /\ SumFunction([L EXCEPT ![h] = y]) = SumFunction(L) - L[h] + y
  <2>1. L \in [H -> Int] /\ IsFiniteSet(H)
    BY <1>5
  <2> QED
    BY <2>1, SumUpdate
<1>10. t.current_size = SumFunction(Lengths(t))
  <2>1. SumFunction([L EXCEPT ![h] = 0]) = SumFunction(L) - L[h] + 0
    BY <1>9
  <2> QED
    BY <1>5, <1>6, <1>8, <2>1
<1>11. t.current_size <= ORPHAN_POOL_MAX
  <2>1. s.current_size <= ORPHAN_POOL_MAX /\ ORPHAN_POOL_MAX \in Nat
    BY <1>2, NodeAssumption DEF PoolOK
  <2> QED
    BY <1>5, <1>8, <2>1
<1>12. /\ t.store = s.store /\ t.cache = s.cache /\ t.history = s.history /\ t.saved = s.saved
       /\ t.lost = s.lost /\ t.answering = s.answering /\ t.sync_pending = s.sync_pending
       /\ t.abandoned = s.abandoned /\ t.connects = s.connects /\ t.misread = s.misread
       /\ IsNode(t)
  BY <1>1 DEF Differs, Fields
<1>13. PoolOK(M, t)
  BY <1>3, <1>4, <1>10, <1>11 DEF PoolOK, Lengths
<1>14. Waits(M, t, DOMAIN t.store)
  BY <1>3, <1>12 DEF Ingesting, Waits
<1>15. StoredOK(M, t) /\ HistoryOK(M, t) /\ GateOK(t)
  BY <1>12 DEF Ingesting, StoredOK, HistoryOK, GateOK
<1> QED
  BY <1>1, <1>12, <1>13, <1>14, <1>15 DEF Runs, t

\* The parents of b are stored, or b is the first block of a node without any.
Enterable(s, b) ==
    IF DOMAIN s.store = {} THEN ToSet(b.parents) \subseteq {Genesis}
    ELSE ToSet(b.parents) \subseteq DOMAIN s.store

\* A new block goes to the end of history, after its parents, or becomes the
\* first of a node that has none.
LEMMA HistoryGrows ==
    ASSUME NEW M, NEW s, StoredOK(M, s), HistoryOK(M, s),
           NEW h, h # Genesis, h \notin s.saved, Enterable(s, M[h]),
           NEW t, DOMAIN t.store = DOMAIN s.store \cup {h}, Enters(s, t, h, M[h].parents),
           t.misread = s.misread
    PROVE  HistoryOK(M, t)
<1> DEFINE q == s.history
           n == Len(q)
           w == t.history
<1> SUFFICES ASSUME t.lost = {}
             PROVE  /\ DOMAIN t.store \subseteq t.saved
                    /\ \A g \in t.saved : ToSet(M[g].parents) \subseteq t.saved
                    /\ ToSet(w) = DOMAIN t.store /\ IsInjective(w)
                    /\ w # <<>> => ToSet(M[w[1]].parents) \subseteq {Genesis}
                    /\ Genesis \in DOMAIN t.store => w[1] = Genesis
                    /\ \A i \in 2..Len(w) : Attached(M, w, i)
                    /\ ~t.misread => t.saved = DOMAIN t.store
  BY DEF HistoryOK
<1>1. s.lost = {} /\ t.saved = s.saved \cup {h} /\ w = Append(q, h)
  BY DEF Enters
<1>2. /\ DOMAIN s.store \subseteq s.saved
      /\ \A g \in s.saved : ToSet(M[g].parents) \subseteq s.saved
      /\ ToSet(q) = DOMAIN s.store /\ IsInjective(q)
      /\ q # <<>> => ToSet(M[q[1]].parents) \subseteq {Genesis}
      /\ Genesis \in DOMAIN s.store => q[1] = Genesis
      /\ \A i \in 2..n : Attached(M, q, i)
      /\ ~s.misread => s.saved = DOMAIN s.store
  BY <1>1 DEF HistoryOK
<1>3. q \in Seq(DOMAIN s.store) /\ Genesis \in s.saved
  BY DEF StoredOK
<1>4. n \in Nat /\ DOMAIN q = 1..n /\ (n = 0 <=> q = <<>>)
  BY <1>3
<1>5. /\ DOMAIN w = 1..(n + 1) /\ Len(w) = n + 1 /\ w[n + 1] = h
      /\ \A i \in 1..n : w[i] = q[i]
  <2>1. w = Append(q, h) /\ q \in Seq(DOMAIN s.store \cup {h})
    BY <1>1, <1>3
  <2> QED
    BY <2>1
<1> HIDE DEF w, q, n
<1>6. n = 0 <=> DOMAIN s.store = {}
  <2>1. CASE n = 0
    BY <1>2, <1>4, <2>1 DEF ToSet
  <2>2. CASE n # 0
    <3>1. 1 \in 1..n
      BY <1>4, <2>2
    <3>2. q[1] \in ToSet(q)
      BY <1>4, <3>1 DEF ToSet
    <3> QED
      BY <1>2, <2>2, <3>2
  <2> QED
    BY <2>1, <2>2
<1>7. ToSet(w) = ToSet(q) \cup {h}
  <2>1. \A i \in 1..(n + 1) : i \in 1..n \/ i = n + 1
    BY <1>4
  <2>2. \A i \in 1..n : i \in 1..(n + 1)
    BY <1>4
  <2>3. n + 1 \in 1..(n + 1)
    BY <1>4
  <2> QED
    BY <1>4, <1>5, <2>1, <2>2, <2>3 DEF ToSet
<1>8. \A i \in 1..n : q[i] \in ToSet(q) /\ q[i] # h
  <2>1. h \notin ToSet(q)
    BY <1>2
  <2> QED
    BY <1>4, <2>1 DEF ToSet
<1>9. IsInjective(w)
  <2> SUFFICES ASSUME NEW i \in 1..(n + 1), NEW j \in 1..(n + 1), w[i] = w[j] PROVE i = j
    BY <1>5 DEF IsInjective
  <2>1. CASE i \in 1..n /\ j \in 1..n
    BY <1>2, <1>4, <1>5, <2>1 DEF IsInjective
  <2>2. CASE i = n + 1 /\ j \in 1..n
    BY <1>5, <1>8, <2>2
  <2>3. CASE j = n + 1 /\ i \in 1..n
    BY <1>5, <1>8, <2>3
  <2>4. i \in 1..n \/ i = n + 1
    BY <1>4
  <2>5. j \in 1..n \/ j = n + 1
    BY <1>4
  <2> QED
    BY <2>1, <2>2, <2>3, <2>4, <2>5
<1>10. /\ DOMAIN s.store # {} => ToSet(M[h].parents) \subseteq DOMAIN s.store
       /\ DOMAIN s.store = {} => ToSet(M[h].parents) \subseteq {Genesis}
  BY DEF Enterable
<1>11. /\ ToSet(M[w[1]].parents) \subseteq {Genesis}
       /\ Genesis \in DOMAIN t.store => w[1] = Genesis
  <2>1. CASE n = 0
    BY <1>5, <1>6, <1>10, <2>1
  <2>2. CASE n # 0
    <3>1. 1 \in 1..n
      BY <1>4, <2>2
    <3>2. w[1] = q[1] /\ q # <<>>
      BY <1>4, <1>5, <2>2, <3>1
    <3> QED
      BY <1>2, <3>2
  <2> QED
    BY <2>1, <2>2
<1>12. ASSUME NEW i \in 2..(n + 1) PROVE Attached(M, w, i)
  <2>1. CASE i \in 2..n
    <3>1. Attached(M, q, i) /\ w[i] = q[i]
      BY <1>2, <1>4, <1>5, <2>1
    <3>2. \A j \in 1..(i - 1) : w[j] = q[j]
      BY <1>4, <1>5, <2>1
    <3> QED
      BY <3>1, <3>2 DEF Attached
  <2>2. CASE i = n + 1
    <3>1. i - 1 = n /\ w[i] = h /\ n # 0
      BY <1>4, <1>5, <2>2
    <3>2. {w[j] : j \in 1..n} = ToSet(q)
      BY <1>4, <1>5 DEF ToSet
    <3> QED
      BY <1>2, <1>6, <1>10, <3>1, <3>2 DEF Attached
  <2>3. i \in 2..n \/ i = n + 1
    BY <1>4
  <2> QED
    BY <2>1, <2>2, <2>3
<1>13. \A g \in t.saved : ToSet(M[g].parents) \subseteq t.saved
  BY <1>1, <1>2, <1>3, <1>10
<1>14. DOMAIN t.store \subseteq t.saved /\ (~t.misread => t.saved = DOMAIN t.store)
  BY <1>1, <1>2
<1> QED
  BY <1>2, <1>5, <1>7, <1>9, <1>11, <1>12, <1>13, <1>14

\* The block is ingested, whether or not it can be saved.
LEMMA IngestRuns ==
    ASSUME NEW M, MinedOK(M), NEW s, Runs(M, s), NEW h \in DOMAIN M, h # Genesis, Fits(M, h),
           Enterable(s, M[h]), h \notin s.saved, NEW failed
    PROVE  LET t == ingest_block_only(s, h, M[h], failed)
           IN  /\ Ingesting(M, t, h) /\ DOMAIN t.store = DOMAIN s.store \cup {h}
               /\ t.waiting_on = s.waiting_on /\ t.todo = s.todo /\ t.answering = s.answering
               /\ t.connects = s.connects /\ s.lost \subseteq t.lost
<1> DEFINE t == ingest_block_only(s, h, M[h], failed)
<1>1. IsNode(s) /\ StoredOK(M, s) /\ PoolOK(M, s) /\ Waits(M, s, DOMAIN s.store)
      /\ HistoryOK(M, s) /\ GateOK(s)
  BY DEF Runs
<1>2. /\ Differs(s, t, {"store", "cache", "history", "saved", "lost",
                        "phantom", "disk_phantom", "disk_errors"})
      /\ Enters(s, t, h, M[h].parents)
  BY <1>1, IngestKeeps
<1> HIDE DEF t
<1>3. StoredOK(M, t) /\ DOMAIN t.store = DOMAIN s.store \cup {h}
  BY <1>1, <1>2, InsertOK
<1>4. /\ t.todo = s.todo /\ t.waiting_on = s.waiting_on /\ t.current_size = s.current_size
      /\ t.answering = s.answering /\ t.sync_pending = s.sync_pending
      /\ t.abandoned = s.abandoned /\ t.connects = s.connects /\ t.misread = s.misread
      /\ IsNode(t)
  BY <1>2 DEF Differs, Fields
<1>5. HistoryOK(M, t)
  BY <1>1, <1>2, <1>3, <1>4, HistoryGrows
<1>6. PoolOK(M, t) /\ GateOK(t)
  BY <1>1, <1>4 DEF PoolOK, GateOK
<1>7. Waits(M, t, DOMAIN t.store \ {h})
  BY <1>1, <1>3, <1>4 DEF Waits
<1> QED
  BY <1>2, <1>3, <1>4, <1>5, <1>6, <1>7 DEF Ingesting, Enters, t

\* A block that is accepted continues its parents, which are stored: a block of
\* height 0 claims a reward and is refused by apply_block.
LEMMA AcceptedFits ==
    ASSUME MinedOK(mined), NEW s, StoredOK(mined, s), NEW h \in DOMAIN mined,
           MissingParents(s, mined[h]) = {}, Acceptable(s, mined[h])
    PROVE  /\ Fits(mined, h) /\ ToSet(mined[h].parents) \subseteq DOMAIN s.store
           /\ Enterable(s, mined[h])
<1> DEFINE b == mined[h]
<1>1. FitsDag(b) /\ apply_block(s.ledger, b).ok /\ verify_coinbase_rewards(b)
  BY DEF Acceptable, WellFormed
<1>2. b.height # 0
  <2> SUFFICES ASSUME b.height = 0 PROVE FALSE
    OBVIOUS
  <2>1. b.coinbase = calculate_subsidy_split(0)
    BY <1>1 DEF verify_coinbase_rewards
  <2>2. b.coinbase = [miner |-> 0, dev |-> 0]
    <3> DEFINE empty == b.txs = <<>> /\ b.coinbase = [miner |-> 0, dev |-> 0]
    <3>1. apply_block(s.ledger, b) = [ok |-> empty, ledger |-> s.ledger]
      BY DEF apply_block
    <3> HIDE DEF b, empty
    <3>2. empty
      BY <1>1, <3>1
    <3> QED
      BY <3>2 DEF empty
  <2> QED
    BY <2>1, <2>2, GenesisAssumption
<1>3. ToSet(b.parents) \subseteq DOMAIN s.store
  BY DEF MissingParents, Known, ToSet
<1>4. ToSet(b.parents) # {}
  <2>1. b.parents # <<>> /\ b.parents \in Seq(H)
    BY <1>1, <1>2 DEF FitsDag, MinedOK
  <2> QED
    BY <2>1, ToSetFinite
<1> QED
  BY <1>1, <1>2, <1>3, <1>4 DEF FitsDag, Fits, StoredOK, Enterable

\* The gate is opened.
LEMMA OpenRuns ==
    ASSUME NEW M, NEW s, Runs(M, s)
    PROVE  LET t == GateOpened(s)
           IN  /\ Runs(M, t) /\ Differs(s, t, {"sync_pending", "abandoned"})
               /\ t.sync_pending = FALSE /\ t.abandoned = FALSE
<1> DEFINE t == GateOpened(s)
<1>1. Differs(s, t, {"sync_pending", "abandoned"}) /\ t.sync_pending = FALSE /\ t.abandoned = FALSE
  BY DEF GateOpened, Runs, Differs, IsNode, Fields
<1> HIDE DEF t
<1>2. /\ t.store = s.store /\ t.cache = s.cache /\ t.history = s.history /\ t.saved = s.saved
      /\ t.todo = s.todo /\ t.waiting_on = s.waiting_on /\ t.current_size = s.current_size
      /\ t.lost = s.lost /\ t.answering = s.answering /\ t.connects = s.connects
      /\ t.misread = s.misread /\ IsNode(t)
  BY <1>1 DEF Differs, Fields
<1>3. Runs(M, t)
  BY <1>1, <1>2 DEF Runs, StoredOK, PoolOK, Waits, HistoryOK, GateOK
<1> QED
  BY <1>1, <1>3 DEF t

\* Other calls, another source of them.
LEMMA TodoRuns ==
    ASSUME NEW M, NEW s, Runs(M, s), NEW t, NEW F, Differs(s, t, F),
           F \subseteq Ignored \cup {"todo", "answering", "abandoned"},
           t.todo \in Seq(CallsOf(M)), t.answering \in BOOLEAN, t.abandoned \in BOOLEAN
    PROVE  Runs(M, t)
<1>1. /\ t.store = s.store /\ t.cache = s.cache /\ t.history = s.history /\ t.saved = s.saved
      /\ t.waiting_on = s.waiting_on /\ t.current_size = s.current_size
      /\ t.lost = s.lost /\ t.sync_pending = s.sync_pending /\ t.connects = s.connects
      /\ t.misread = s.misread /\ IsNode(t)
  BY DEF Differs, Fields, Ignored
<1> QED
  BY <1>1 DEF Runs, StoredOK, PoolOK, Waits, HistoryOK, GateOK

-----------------------------------------------------------------------------
(* Steps. *)

\* The messages are well-formed as long as nodes count their connections up.
LEMMA NetKeeps ==
    ASSUME NEW M, NEW N, NEW S, NetOK(M, N, S), N = [n \in Nodes |-> N[n]],
           NEW n \in Nodes, NEW v, v.connects \in Nat, N[n].connects \in Nat,
           v.connects >= N[n].connects
    PROVE  NetOK(M, [N EXCEPT ![n] = v], S)
<1> DEFINE O == [N EXCEPT ![n] = v]
<1>1. O[n] = v /\ \A m \in Nodes : m # n => O[m] = N[m]
  OBVIOUS
<1> HIDE DEF O
<1>2. ASSUME NEW r \in S PROVE r.id < O[r.client].connects
  <2>1. r.id \in Nat /\ r.client \in Nodes /\ r.id < N[r.client].connects
    BY DEF NetOK, MessageOK, Messages
  <2>2. CASE r.client = n
    BY <1>1, <2>1, <2>2
  <2>3. CASE r.client # n
    BY <1>1, <2>1, <2>3
  <2> QED
    BY <2>2, <2>3
<1>3. NetOK(M, O, S)
  BY <1>2 DEF NetOK, MessageOK
<1> QED
  BY <1>3 DEF O

\* A step of node n alone, which takes it to v.
LEMMA Local ==
    ASSUME Inv, NEW n \in Nodes, NEW v, NodeOK(mined, v),
           v.connects = node[n].connects,
           node' = [node EXCEPT ![n] = v], UNCHANGED <<mined, net, now>>
    PROVE  Inv'
<1>1. node[n].connects \in Nat /\ v.connects \in Nat
  BY DEF Inv, NodeOK, Runs, GateOK
<1>2. NetOK(mined, node', net)
  BY <1>1, NetKeeps DEF Inv
<1>3. node' = [m \in Nodes |-> node'[m]] /\ \A m \in Nodes : NodeOK(mined, node'[m])
  BY DEF Inv
<1> QED
  BY <1>2, <1>3 DEF Inv

\* A call returns with the node in state s.
LEMMA ReturnKeeps ==
    ASSUME Inv, NEW n \in Nodes, NEW s, Runs(mined, s),
           s.connects = node[n].connects, Return(n, s)
    PROVE  Inv'
<1> DEFINE u == [s EXCEPT !.answering = FALSE]
           v == IF s.todo = <<>> /\ s.answering THEN GateOpened(u) ELSE s
<1>1. node' = [node EXCEPT ![n] = v] /\ UNCHANGED <<mined, net, now>>
  BY DEF Return
<1>2. CASE s.todo = <<>> /\ s.answering
  <2>1. Differs(s, u, {"answering"}) /\ u.answering = FALSE
    BY DEF Differs, Runs, IsNode, Fields
  <2> HIDE DEF u
  <2>2. u.todo = s.todo /\ u.abandoned = s.abandoned /\ u.lost = s.lost /\ u.connects = s.connects
    BY <2>1 DEF Differs, Fields
  <2>3. s.todo \in Seq(CallsOf(mined)) /\ s.abandoned \in BOOLEAN
    BY DEF Runs, PoolOK, GateOK
  <2>4. Runs(mined, u)
    BY <2>1, <2>2, <2>3, TodoRuns DEF Ignored
  <2>5. v = GateOpened(u)
    BY <1>2
  <2>6. Runs(mined, v) /\ Differs(u, v, {"sync_pending", "abandoned"})
    BY <2>4, <2>5, OpenRuns
  <2> HIDE DEF v
  <2>7. v.answering = FALSE /\ v.lost = s.lost /\ v.connects = s.connects
    BY <2>1, <2>2, <2>6 DEF Differs, Fields
  <2>8. NodeOK(mined, v)
    BY <2>6, <2>7 DEF NodeOK
  <2> QED
    BY <1>1, <2>7, <2>8, Local
<1>3. CASE ~(s.todo = <<>> /\ s.answering)
  <2>1. v = s /\ NodeOK(mined, s)
    BY <1>3 DEF NodeOK
  <2> HIDE DEF v
  <2> QED
    BY <1>1, <2>1, Local
<1> QED
  BY <1>2, <1>3

\* The call on top of the stack, and the node without it.
LEMMA Calling ==
    ASSUME Inv, NEW n \in Nodes, Pending(n)
    PROVE  /\ Runs(mined, Popped(n)) /\ Differs(node[n], Popped(n), {"todo"})
           /\ Call(n) \in CallsOf(mined) /\ IsNode(node[n])
           /\ Popped(n).store = node[n].store /\ Popped(n).saved = node[n].saved
           /\ Popped(n).lost = node[n].lost /\ Popped(n).connects = node[n].connects
           /\ Popped(n).ledger = node[n].ledger
           /\ Call(n).hash \in DOMAIN mined /\ Call(n).hash # Genesis /\ Call(n).hash \in H
<1> DEFINE s == node[n]
<1>1. Runs(mined, s) /\ s.todo # <<>> /\ IsNode(s)
  BY DEF Inv, NodeOK, Pending, Runs
<1> HIDE DEF s
<1>2. Runs(mined, [s EXCEPT !.todo = Tail(@)]) /\ Differs(s, [s EXCEPT !.todo = Tail(@)], {"todo"})
      /\ Head(s.todo) \in CallsOf(mined)
  BY <1>1, PopRuns
<1>3. Popped(n) = [s EXCEPT !.todo = Tail(@)] /\ Call(n) = Head(s.todo)
  BY DEF Popped, Call, s
<1>4. Call(n).hash \in DOMAIN mined \ {Genesis} /\ DOMAIN mined \subseteq H
  BY <1>2, <1>3 DEF CallsOf, Inv, MinedOK
<1>5. /\ Popped(n).store = s.store /\ Popped(n).saved = s.saved /\ Popped(n).ledger = s.ledger
      /\ Popped(n).lost = s.lost /\ Popped(n).connects = s.connects
  BY <1>2, <1>3 DEF Differs, Fields
<1> QED
  BY <1>1, <1>2, <1>3, <1>4, <1>5 DEF s

\* The parent an orphan is kept under is neither known nor still to be mined.
LEMMA MissingParent ==
    ASSUME MinedOK(mined), NEW s, StoredOK(mined, s), NEW h \in DOMAIN mined,
           MissingParents(s, mined[h]) # {}
    PROVE  LET p == FirstMissing(s, mined[h])
           IN  p \in H /\ p \notin DOMAIN s.store /\ p \in DOMAIN mined \cup {OtherGenesis}
<1> DEFINE b == mined[h]
           P == MissingParents(s, b)
           i == Min(P)
<1>1. b.parents \in Seq(H) /\ ToSet(b.parents) \subseteq DOMAIN mined \cup {OtherGenesis}
  BY DEF MinedOK
<1>2. P \subseteq DOMAIN b.parents /\ DOMAIN b.parents \subseteq Nat
  BY <1>1 DEF MissingParents
<1>3. i \in P
  BY <1>2, MinOfNats
<1>4. b.parents[i] \notin DOMAIN s.store
  BY <1>3 DEF MissingParents, Known
<1>5. i \in DOMAIN b.parents
  BY <1>2, <1>3
<1>6. b.parents[i] \in ToSet(b.parents)
  BY <1>5 DEF ToSet
<1>7. b.parents[i] \in H
  BY <1>1, <1>5
<1>8. FirstMissing(s, b) = b.parents[i]
  BY DEF FirstMissing
<1> HIDE DEF i, P
<1> QED
  BY <1>1, <1>4, <1>6, <1>7, <1>8

\* The calls of validate_and_ingest keep the invariant.
LEMMA ProcessKeeps == ASSUME Inv, NEW n \in Nodes, Process(n) PROVE Inv'
<1> DEFINE s == Popped(n)
           h == Call(n).hash
<1>0. Pending(n)
  BY DEF Process, AlreadyKnown, RejectBlock, BufferOrphan, AcceptBlock, LedgerNotSaved, ReadError
<1>1. /\ Runs(mined, s) /\ Differs(node[n], s, {"todo"})
      /\ Call(n) \in CallsOf(mined) /\ IsNode(node[n])
      /\ s.store = node[n].store /\ s.saved = node[n].saved
      /\ s.lost = node[n].lost /\ s.connects = node[n].connects /\ s.ledger = node[n].ledger
      /\ h \in DOMAIN mined /\ h # Genesis /\ h \in H
  BY <1>0, Calling
<1>2. MinedOK(mined) /\ StoredOK(mined, node[n]) /\ Runs(mined, node[n]) /\ GateOK(node[n])
  BY DEF Inv, NodeOK, Runs
<1>3. IsNode(s)
  BY <1>1 DEF Runs
<1>4. CASE AlreadyKnown(n)
  <2>1. Return(n, s)
    BY <1>4 DEF AlreadyKnown
  <2> HIDE DEF s
  <2> QED
    BY <1>1, <2>1, ReturnKeeps
<1>5. CASE RejectBlock(n)
  <2> DEFINE v == [s EXCEPT !.blamed = @ \cup {Call(n).source}]
  <2>1. Return(n, v)
    BY <1>5 DEF RejectBlock
  <2> HIDE DEF s
  <2>2. Differs(s, v, {"blamed"})
    BY <1>3 DEF Differs, IsNode, Fields
  <2> HIDE DEF v
  <2>3. Runs(mined, v) /\ v.lost = s.lost /\ v.connects = s.connects
    BY <1>1, <2>2, IgnoredFields DEF Ignored
  <2> QED
    BY <1>1, <2>1, <2>3, ReturnKeeps
<1>6. CASE BufferOrphan(n)
  <2> DEFINE p == FirstMissing(node[n], mined[h])
             v == InsertOrphan(s, p, Call(n))
  <2>1. Return(n, v) /\ MissingParents(node[n], mined[h]) # {}
    BY <1>6 DEF BufferOrphan
  <2>2. p \in H /\ p \notin DOMAIN node[n].store /\ p \in DOMAIN mined \cup {OtherGenesis}
    BY <1>1, <1>2, <2>1, MissingParent
  <2> HIDE DEF s, p
  <2>3. Runs(mined, v) /\ Differs(s, v, {"waiting_on", "current_size"})
    BY <1>1, <2>2, OrphanRuns
  <2> HIDE DEF v
  <2>4. v.lost = s.lost /\ v.connects = s.connects
    BY <2>3 DEF Differs, Fields
  <2> QED
    BY <1>1, <2>1, <2>3, <2>4, ReturnKeeps
<1>7. CASE AcceptBlock(n)
  <2>1. Accepts(n, h)
    BY <1>7 DEF AcceptBlock
  <2>2. PICK failed \in Failures(n) :
           Return(n, TakeReady(AfterIngest(mined,
                        ingest_block_only(Applied(s, mined[h]), h, mined[h], failed), failed), h))
    BY <1>7 DEF AcceptBlock
  <2> DEFINE a == Applied(s, mined[h])
             i == ingest_block_only(a, h, mined[h], failed)
             r == AfterIngest(mined, i, failed)
             v == TakeReady(r, h)
  <2>3. Return(n, v)
    BY <2>2
  <2>4. Fits(mined, h) /\ Enterable(node[n], mined[h]) /\ h \notin node[n].saved
    BY <1>1, <1>2, <2>1, AcceptedFits DEF Accepts
  <2> HIDE DEF s, h
  <2>5. Differs(s, a, {"ledger", "disk", "disk_phantom"})
    BY <1>3 DEF Applied, Differs, IsNode, Fields
  <2> HIDE DEF a
  <2>6. /\ Runs(mined, a) /\ a.store = s.store /\ a.saved = s.saved
        /\ a.lost = s.lost /\ a.connects = s.connects
    BY <1>1, <2>5, IgnoredFields DEF Ignored
  <2>7. /\ Ingesting(mined, i, h) /\ i.connects = a.connects /\ a.lost \subseteq i.lost
    BY <1>1, <1>2, <2>4, <2>6, IngestRuns DEF Enterable
  <2> HIDE DEF i
  <2>8. Differs(i, r, {"ledger", "disk", "phantom", "disk_phantom", "target"})
    BY <2>7, AfterIngestKeeps DEF Ingesting
  <2> HIDE DEF r
  <2>9. /\ r.store = i.store /\ r.cache = i.cache /\ r.history = i.history /\ r.saved = i.saved
        /\ r.todo = i.todo /\ r.waiting_on = i.waiting_on /\ r.current_size = i.current_size
        /\ r.lost = i.lost /\ r.answering = i.answering /\ r.sync_pending = i.sync_pending
        /\ r.abandoned = i.abandoned /\ r.connects = i.connects /\ IsNode(r)
        /\ r.misread = i.misread
    BY <2>8 DEF Differs, Fields
  <2>10. Ingesting(mined, r, h)
    BY <2>7, <2>9 DEF Ingesting, StoredOK, PoolOK, Waits, HistoryOK, GateOK
  <2>11. Runs(mined, v) /\ Differs(r, v, {"waiting_on", "current_size", "todo"})
    BY <1>1, <2>10, TakeRuns
  <2> HIDE DEF v
  <2>12. v.connects = r.connects
    BY <2>11 DEF Differs, Fields
  <2>13. v.connects = node[n].connects
    BY <1>1, <2>6, <2>7, <2>9, <2>12
  <2> QED
    BY <2>3, <2>11, <2>13, ReturnKeeps
<1>8. CASE LedgerNotSaved(n)
  <2> DEFINE v == [s EXCEPT !.ledger = apply_block(@, mined[h]).ledger,
                            !.phantom = TRUE, !.disk_errors = @ + 1]
  <2>1. Return(n, v)
    BY <1>8 DEF LedgerNotSaved
  <2> HIDE DEF s
  <2>2. Differs(s, v, {"ledger", "phantom", "disk_errors"})
    BY <1>3 DEF Differs, IsNode, Fields
  <2> HIDE DEF v
  <2>3. Runs(mined, v) /\ v.lost = s.lost /\ v.connects = s.connects
    BY <1>1, <2>2, IgnoredFields DEF Ignored
  <2> QED
    BY <1>1, <2>1, <2>3, ReturnKeeps
<1>9. CASE ReadError(n)
  <2> DEFINE u == node[n]
             v == [u EXCEPT !.todo = <<>>, !.answering = FALSE,
                            !.abandoned = node[n].answering \/ @, !.disk_errors = @ + 1]
  <2>1. node' = [node EXCEPT ![n] = v] /\ UNCHANGED <<mined, net, now>>
    BY <1>9 DEF ReadError, Inv
  <2>2. /\ Differs(u, v, {"todo", "answering", "abandoned", "disk_errors"})
        /\ v.todo = <<>> /\ v.answering = FALSE /\ v.abandoned = (u.answering \/ u.abandoned)
    BY <1>1 DEF Differs, IsNode, Fields
  <2> HIDE DEF v
  <2>3. v.abandoned \in BOOLEAN /\ v.todo \in Seq(CallsOf(mined))
    BY <1>2, <2>2 DEF GateOK
  <2>4. Runs(mined, v)
    BY <1>2, <2>2, <2>3, TodoRuns DEF Ignored
  <2>5. v.lost = u.lost /\ v.connects = u.connects
    BY <2>2 DEF Differs, Fields
  <2>6. NodeOK(mined, v)
    BY <2>2, <2>4 DEF NodeOK
  <2> QED
    BY <2>1, <2>5, <2>6, Local
<1> QED
  BY <1>4, <1>5, <1>6, <1>7, <1>8, <1>9 DEF Process

-----------------------------------------------------------------------------
(* A new block. *)

BuildsOn(M, b) ==
    b.parents \in Seq(H) /\ ToSet(b.parents) \subseteq DOMAIN M /\ b.height \in Nat

\* It is added to the blocks there are.
LEMMA MinedGrows ==
    ASSUME NEW M, MinedOK(M), NEW h \in H, h \notin DOMAIN M, NEW b, BuildsOn(M, b)
    PROVE  MinedOK(Extend(M, h, b))
<1> DEFINE N == Extend(M, h, b)
<1>1. /\ DOMAIN N = DOMAIN M \cup {h} /\ N[h] = b /\ \A g \in DOMAIN M : N[g] = M[g]
      /\ N = [g \in DOMAIN N |-> N[g]]
  BY DEF Extend
<1> HIDE DEF N
<1>2. MinedOK(N)
  <2>1. Genesis \in DOMAIN N /\ DOMAIN N \subseteq H /\ N[Genesis] = GenesisBlock
    BY <1>1 DEF MinedOK
  <2>2. ASSUME NEW g \in DOMAIN N
        PROVE  /\ N[g].parents \in Seq(H)
               /\ ToSet(N[g].parents) \subseteq DOMAIN N \cup {OtherGenesis}
               /\ N[g].height \in Nat
    <3>1. CASE g = h
      BY <1>1, <3>1 DEF BuildsOn
    <3>2. CASE g # h
      BY <1>1, <3>2 DEF MinedOK
    <3> QED
      BY <3>1, <3>2
  <2> QED
    BY <1>1, <2>1, <2>2 DEF MinedOK
<1> QED
  BY <1>2 DEF N

\* More blocks change nothing for a node that does not have them.
LEMMA RunsGrow ==
    ASSUME NEW M, MinedOK(M), NEW h, h \notin DOMAIN M, NEW b, NEW s, Runs(M, s)
    PROVE  Runs(Extend(M, h, b), s)
<1> DEFINE N == Extend(M, h, b)
<1>1. DOMAIN N = DOMAIN M \cup {h} /\ \A g \in DOMAIN M : N[g] = M[g]
  BY DEF Extend
<1>2. StoredOK(N, s)
  BY StoredGrows DEF Runs
<1> HIDE DEF N
<1>3. CallsOf(M) \subseteq CallsOf(N)
  BY <1>1 DEF CallsOf
<1>4. Seq(CallsOf(M)) \subseteq Seq(CallsOf(N))
  BY <1>3
<1>5. PoolOK(N, s)
  <2>1. s.todo \in Seq(CallsOf(N))
    BY <1>4 DEF Runs, PoolOK
  <2>2. s.waiting_on \in [H -> Seq(CallsOf(N))]
    BY <1>4 DEF Runs, PoolOK
  <2> QED
    BY <2>1, <2>2 DEF Runs, PoolOK
<1>6. Waits(N, s, DOMAIN s.store)
  BY <1>1 DEF Runs, Waits
<1>7. HistoryOK(N, s)
  <2> SUFFICES ASSUME s.lost = {} PROVE HistoryOK(N, s)
    BY DEF HistoryOK
  <2>1. /\ s.history \in Seq(DOMAIN s.store)
        /\ DOMAIN s.store \subseteq DOMAIN M /\ s.saved \subseteq DOMAIN M
    BY DEF Runs, StoredOK
  <2>2. ASSUME NEW i \in 1..Len(s.history) PROVE N[s.history[i]] = M[s.history[i]]
    BY <1>1, <2>1
  <2>3. ASSUME NEW i \in 2..Len(s.history), Attached(M, s.history, i)
        PROVE  Attached(N, s.history, i)
    <3>1. i \in 1..Len(s.history)
      BY <2>1
    <3> QED
      BY <2>2, <2>3, <3>1 DEF Attached
  <2>4. s.history # <<>> => N[s.history[1]] = M[s.history[1]]
    <3>1. s.history # <<>> => 1 \in 1..Len(s.history)
      BY <2>1
    <3> QED
      BY <2>2, <3>1
  <2>5. \A g \in s.saved : N[g] = M[g]
    BY <1>1, <2>1
  <2>6. HistoryOK(M, s)
    BY DEF Runs
  <2> QED
    BY <2>3, <2>4, <2>5, <2>6 DEF HistoryOK
<1>8. Runs(N, s)
  BY <1>2, <1>5, <1>6, <1>7 DEF Runs
<1> QED
  BY <1>8 DEF N

\* Messages stay well-formed when there is a new block.
LEMMA NetGrows ==
    ASSUME NEW M, MinedOK(M), NEW h, h \notin DOMAIN M, NEW b, NEW nodes, NEW S,
           NetOK(M, nodes, S)
    PROVE  NetOK(Extend(M, h, b), nodes, S)
<1> DEFINE N == Extend(M, h, b)
<1>1. DOMAIN N = DOMAIN M \cup {h} /\ \A g \in DOMAIN M : N[g] = M[g]
  BY DEF Extend
<1> HIDE DEF N
<1>2. Messages(M) \subseteq Messages(N)
  <2>1. Seq(DOMAIN M \ {Genesis}) \subseteq Seq(DOMAIN N \ {Genesis})
    BY <1>1
  <2> QED
    BY <2>1 DEF Messages
<1>3. NetOK(N, nodes, S)
  <2>1. ASSUME NEW r \in S PROVE MessageOK(N, nodes, r)
    <3>1. MessageOK(M, nodes, r)
      BY DEF NetOK
    <3> QED
      BY <1>2, <3>1 DEF MessageOK
  <2> QED
    BY <2>1 DEF NetOK
<1> QED
  BY <1>3 DEF N

\* The block of a mining tick continues the canonical tip, or genesis at a node
\* that has no block.
LEMMA TemplateFits ==
    ASSUME MinedOK(mined), NEW n, NEW s, StoredOK(mined, s), NEW batch,
           NEW h \in Hashes, h \notin DOMAIN mined,
           NEW b, b = Template(s, n, batch), NEW N, N = Extend(mined, h, b)
    PROVE  /\ MinedOK(N) /\ Fits(N, h) /\ N[h] = b /\ h \in H /\ h # Genesis
           /\ Enterable(s, b) /\ h \notin s.saved
           /\ h \notin DOMAIN s.store /\ h # OtherGenesis
<1> DEFINE tip == IF DOMAIN s.store = {} THEN Genesis ELSE select_canonical_tip(s.store, s.cache)
<1>1. /\ DOMAIN s.store # {} => tip \in DOMAIN s.store
      /\ DOMAIN s.store = {} => tip = Genesis
  BY TipIsStored
<1>2. b.parents = <<tip>> /\ b.height = 1 + mined[tip].height
  BY DEF Template
<1> HIDE DEF tip
<1>3. /\ tip \in DOMAIN mined /\ mined[tip].height \in Nat /\ tip \in H
      /\ h \notin DOMAIN s.store /\ h \notin s.saved
  BY <1>1 DEF MinedOK, StoredOK
<1>4. ToSet(b.parents) = {tip} /\ b.parents # <<>>
  BY <1>2 DEF ToSet
<1>5. h \in H /\ h # Genesis /\ h # OtherGenesis
  BY NodeAssumption DEF H, AllHashes
<1>6. ToSet(b.parents) \subseteq DOMAIN mined /\ BuildsOn(mined, b)
  BY <1>2, <1>3, <1>4 DEF BuildsOn
<1>7. /\ MinedOK(N) /\ DOMAIN N = DOMAIN mined \cup {h} /\ N[h] = b
      /\ \A g \in DOMAIN mined : N[g] = mined[g]
  <2>1. MinedOK(Extend(mined, h, b))
    BY <1>5, <1>6, MinedGrows
  <2>2. /\ DOMAIN N = DOMAIN mined \cup {h} /\ N[h] = b
        /\ \A g \in DOMAIN mined : N[g] = mined[g]
    BY DEF Extend
  <2> QED
    BY <2>1, <2>2
<1>8. Fits(N, h)
  <2> DEFINE x == mined[tip].height
  <2>1. {N[p].height : p \in ToSet(N[h].parents)} = {x}
    BY <1>3, <1>4, <1>7
  <2>2. Max({x}) = x
    BY <1>3 DEF Max
  <2> HIDE DEF x
  <2>3. N[h].height = 1 + Max({N[p].height : p \in ToSet(N[h].parents)})
    BY <1>2, <1>7, <2>1, <2>2 DEF x
  <2> QED
    BY <1>4, <1>6, <1>7, <2>3 DEF Fits
<1>9. Enterable(s, b)
  BY <1>1, <1>4 DEF Enterable
<1> QED
  BY <1>3, <1>5, <1>7, <1>8, <1>9

\* The mining tick keeps the invariant.
LEMMA MineKeeps == ASSUME Inv, NEW n \in Nodes, NEW h \in Hashes, Mine(n, h) PROVE Inv'
<1> DEFINE s == node[n]
<1>1. /\ MinedOK(mined) /\ Runs(mined, s) /\ IsNode(s) /\ StoredOK(mined, s)
      /\ s.todo = <<>> /\ s.answering = FALSE /\ s.connects \in Nat
      /\ Waits(mined, s, DOMAIN s.store) 
      /\ h \notin DOMAIN mined
  BY DEF Inv, NodeOK, Runs, GateOK, StoredOK, Mine, MiningAllowed, Ready
<1>2. PICK batch \in Batches(s), failed \in Failures(n) :
          LET b == Template(s, n, batch)
              d == Drained(s, batch)
              i == ingest_block_only(Applied(d, b), h, b, failed)
          IN  IF apply_block(s.ledger, b).ok
              THEN /\ mined' = Extend(mined, h, b)
                   /\ node' = [node EXCEPT ![n] =
                         [AfterIngest(mined', i, failed) EXCEPT !.unpublished =
                             IF "block" \in failed THEN @ \cup {h} ELSE @]]
              ELSE /\ node' = [node EXCEPT ![n] = d]
                   /\ UNCHANGED mined
  BY DEF Mine
<1>3. UNCHANGED <<net, now>>
  BY DEF Mine
<1> DEFINE d == Drained(s, batch)
<1>4. Differs(s, d, {"mempool"})
  BY <1>1 DEF Drained, Differs, IsNode, Fields
<1> DEFINE b == Template(s, n, batch)
           a == Applied(d, b)
           i == ingest_block_only(a, h, b, failed)
           r == AfterIngest(mined', i, failed)
           v == [r EXCEPT !.unpublished = IF "block" \in failed THEN @ \cup {h} ELSE @]
<1>5. CASE ~apply_block(s.ledger, b).ok
  <2>1. node' = [node EXCEPT ![n] = d] /\ UNCHANGED mined
    BY <1>2, <1>5
  <2> HIDE DEF d
  <2>2. Runs(mined, d) /\ d.answering = s.answering /\ d.connects = s.connects /\ d.lost = s.lost
    BY <1>1, <1>4, IgnoredFields DEF Ignored
  <2>3. NodeOK(mined, d)
    BY <1>1, <2>2 DEF NodeOK
  <2> QED
    BY <1>3, <2>1, <2>2, <2>3, Local
<1>6. CASE apply_block(s.ledger, b).ok
  <2> DEFINE N == mined'
  <2>1. N = Extend(mined, h, b) /\ node' = [node EXCEPT ![n] = v]
    BY <1>2, <1>6
  <2>2. /\ MinedOK(N) /\ Fits(N, h) /\ N[h] = b /\ h \in H /\ h # Genesis
        /\ Enterable(s, b) /\ h \notin s.saved
        /\ h \notin DOMAIN s.store /\ h # OtherGenesis
    <3>1. b = Template(s, n, batch)
      OBVIOUS
    <3> HIDE DEF b, a, i, r, v, N, d, s
    <3> QED
      BY <1>1, <2>1, <3>1, TemplateFits
  <2>3. h \in DOMAIN N
    BY <2>1 DEF Extend
  <2> HIDE DEF d, b, N
  <2>4. IsNode(d)
    BY <1>4 DEF Differs
  <2>5. Differs(d, a, {"ledger", "disk", "disk_phantom"})
    BY <2>4 DEF Applied, Differs, IsNode, Fields
  <2> HIDE DEF a
  <2>6. Differs(s, a, {"mempool", "ledger", "disk", "disk_phantom"})
    BY <1>4, <2>5 DEF Differs
  <2>7. Runs(N, s)
    BY <1>1, <2>1, RunsGrow
  <2>8. /\ Runs(N, a) /\ a.store = s.store /\ a.saved = s.saved /\ a.lost = s.lost
        /\ a.todo = s.todo /\ a.answering = s.answering /\ a.connects = s.connects
    BY <2>6, <2>7, IgnoredFields DEF Ignored
  <2>9. a.waiting_on = s.waiting_on
    BY <2>6 DEF Differs, Fields
  <2>10. h \notin a.saved
    BY <1>1, <2>2, <2>8
  <2>11. i = ingest_block_only(a, h, N[h], failed)
    BY <2>2
  <2> HIDE DEF i
  <2>12. /\ Ingesting(N, i, h) /\ DOMAIN i.store = DOMAIN a.store \cup {h}
         /\ i.waiting_on = a.waiting_on /\ i.todo = a.todo /\ i.answering = a.answering
         /\ i.connects = a.connects /\ a.lost \subseteq i.lost
    BY <2>2, <2>3, <2>8, <2>10, <2>11, IngestRuns DEF Enterable
  <2>13. Waits(N, i, DOMAIN i.store)
    <3>1. i.waiting_on[h] = <<>>
      BY <1>1, <2>2, <2>9, <2>12 DEF Waits
    <3> QED
      BY <2>12, <3>1 DEF Ingesting, Waits
  <2>14. Runs(N, i)
    BY <2>12, <2>13 DEF Ingesting, Runs
  <2>15. Differs(i, r, {"ledger", "disk", "phantom", "disk_phantom", "target"})
    BY <2>14, AfterIngestKeeps DEF Runs
  <2> HIDE DEF r
  <2>16. Differs(r, v, {"unpublished"})
    BY <2>15 DEF Differs, IsNode, Fields
  <2> HIDE DEF v
  <2>17. Differs(i, v, {"ledger", "disk", "phantom", "disk_phantom", "target", "unpublished"})
    BY <2>15, <2>16 DEF Differs
  <2>18. /\ Runs(N, v) /\ v.lost = i.lost
         /\ v.todo = i.todo /\ v.answering = i.answering /\ v.connects = i.connects
    BY <2>14, <2>17, IgnoredFields DEF Ignored
  <2>19. NodeOK(N, v) /\ v.connects = s.connects
    BY <1>1, <2>8, <2>12, <2>18 DEF NodeOK
  <2>20. ASSUME NEW m \in Nodes PROVE NodeOK(N, node'[m])
    <3>1. CASE m = n
      BY <2>1, <2>19, <3>1 DEF Inv
    <3>2. CASE m # n
      <4>1. node'[m] = node[m]
        BY <2>1, <3>2 DEF Inv
      <4>2. Runs(mined, node[m]) /\ (node[m].answering => node[m].todo # <<>>)
        BY DEF Inv, NodeOK
      <4> DEFINE u == node[m]
      <4> HIDE DEF u
      <4>3. Runs(N, u)
        BY <1>1, <2>1, <4>2, RunsGrow DEF u
      <4> QED
        BY <4>1, <4>2, <4>3 DEF NodeOK, u
    <3> QED
      BY <3>1, <3>2
  <2>21. NetOK(N, node', net)
    <3>1. NetOK(N, node, net)
      BY <1>1, <2>1, NetGrows DEF Inv
    <3>2. v.connects \in Nat
      BY <1>1, <2>19
    <3>3. node = [m \in Nodes |-> node[m]]
      BY DEF Inv
    <3> QED
      BY <1>1, <2>1, <2>19, <3>1, <3>2, <3>3, NetKeeps
  <2>22. node' = [m \in Nodes |-> node'[m]] /\ now' \in Nat
    BY <1>3, <2>1 DEF Inv
  <2> QED
    BY <1>3, <2>2, <2>20, <2>21, <2>22 DEF Inv, N
<1> QED
  BY <1>5, <1>6

\* The tick that cannot save, transactions and gossip keep it.
LEMMA EventKeeps ==
    ASSUME Inv, NEW n \in Nodes,
           \/ MineNotSaved(n)
           \/ \E tx \in Txs : submit_transaction(n, tx)
           \/ \E m \in Nodes \cup {Stranger}, h \in AllHashes : Gossip(n, m, h)
    PROVE  Inv'
<1> DEFINE s == node[n]
<1>1. /\ Runs(mined, s) /\ IsNode(s) /\ StoredOK(mined, s) /\ GateOK(s)
      /\ (s.answering => s.todo # <<>>) /\ node = [m \in Nodes |-> node[m]]
  BY DEF Inv, NodeOK, Runs
<1>2. CASE MineNotSaved(n)
  <2>1. PICK batch \in Batches(s) :
          node' = [node EXCEPT ![n] =
             [Drained(s, batch) EXCEPT
                       !.ledger = apply_block(s.ledger, Template(s, n, batch)).ledger,
                       !.phantom = TRUE, !.disk_errors = @ + 1]]
    BY <1>2 DEF MineNotSaved
  <2> DEFINE l == apply_block(s.ledger, Template(s, n, batch)).ledger
             v == [Drained(s, batch) EXCEPT !.ledger = l, !.phantom = TRUE, !.disk_errors = @ + 1]
  <2>2. node' = [node EXCEPT ![n] = v] /\ UNCHANGED <<mined, net, now>>
    BY <1>2, <2>1 DEF MineNotSaved
  <2> HIDE DEF l
  <2>3. Differs(s, v, {"mempool", "ledger", "phantom", "disk_errors"})
    BY <1>1 DEF Drained, Differs, IsNode, Fields
  <2> HIDE DEF v
  <2>4. /\ Runs(mined, v) /\ v.todo = s.todo /\ v.answering = s.answering
        /\ v.connects = s.connects /\ v.lost = s.lost
    BY <1>1, <2>3, IgnoredFields DEF Ignored
  <2>5. NodeOK(mined, v)
    BY <1>1, <2>4 DEF NodeOK
  <2> QED
    BY <2>2, <2>4, <2>5, Local
<1>3. ASSUME NEW tx \in Txs, submit_transaction(n, tx) PROVE Inv'
  <2> DEFINE v == [s EXCEPT !.mempool = @ \cup {tx}]
  <2>1. node' = [node EXCEPT ![n] = v] /\ UNCHANGED <<mined, net, now>>
    BY <1>1, <1>3 DEF submit_transaction
  <2>2. Differs(s, v, {"mempool"})
    BY <1>1 DEF Differs, IsNode, Fields
  <2> HIDE DEF v
  <2>3. /\ Runs(mined, v) /\ v.todo = s.todo /\ v.answering = s.answering
        /\ v.connects = s.connects /\ v.lost = s.lost
    BY <1>1, <2>2, IgnoredFields DEF Ignored
  <2>4. NodeOK(mined, v)
    BY <1>1, <2>3 DEF NodeOK
  <2> QED
    BY <2>1, <2>3, <2>4, Local
<1>4. ASSUME NEW m \in Nodes \cup {Stranger}, NEW h \in AllHashes, Gossip(n, m, h) PROVE Inv'
  <2> DEFINE c == [source |-> m, hash |-> h]
             v == [s EXCEPT !.todo = <<c>>]
  <2>1. node' = [node EXCEPT ![n] = v] /\ UNCHANGED <<mined, net, now>>
        /\ h \in DOMAIN mined /\ h \notin s.saved
    BY <1>1, <1>4 DEF Gossip
  <2>2. c \in CallsOf(mined)
    BY <1>1, <2>1 DEF CallsOf, StoredOK
  <2> HIDE DEF c
  <2>3. Differs(s, v, {"todo"}) /\ v.todo = <<c>>
    BY <1>1 DEF Differs, IsNode, Fields
  <2> HIDE DEF v
  <2>4. /\ v.answering = s.answering /\ v.abandoned = s.abandoned
        /\ v.connects = s.connects /\ v.lost = s.lost
    BY <2>3 DEF Differs, Fields
  <2>5. v.todo \in Seq(CallsOf(mined)) /\ v.todo # <<>>
    BY <2>2, <2>3
  <2>6. Runs(mined, v)
    BY <1>1, <2>3, <2>4, <2>5, TodoRuns DEF GateOK
  <2>7. NodeOK(mined, v)
    BY <2>5, <2>6 DEF NodeOK
  <2> QED
    BY <2>1, <2>4, <2>7, Local
<1> QED
  BY <1>2, <1>3, <1>4

-----------------------------------------------------------------------------
(* Messages. *)

\* They do when some are gone,
LEMMA NetLess ==
    ASSUME NEW M, NEW N, NEW S, NetOK(M, N, S), NEW T \in SUBSET S
    PROVE  NetOK(M, N, T)
<1>1. IsFiniteSet(T)
  BY FS_Subset DEF NetOK
<1> QED
  BY <1>1 DEF NetOK

\* and with a new one that has a number of its own.
LEMMA NetMore ==
    ASSUME NEW M, NEW N, NEW S, NetOK(M, N, S), NEW r, MessageOK(M, N, r),
           \A q \in S : q.client = r.client => q.id # r.id
    PROVE  NetOK(M, N, S \cup {r})
<1>1. IsFiniteSet(S \cup {r})
  BY FS_AddElement DEF NetOK
<1> QED
  BY <1>1 DEF NetOK

\* A message of which the type changes, to another one than a request.
LEMMA MessageSame ==
    ASSUME NEW M, NEW N, NEW r, MessageOK(M, N, r), NEW x \in {"mismatch", "failed"}
    PROVE  /\ MessageOK(M, N, [r EXCEPT !.type = x])
           /\ [r EXCEPT !.type = x].client = r.client /\ [r EXCEPT !.type = x].id = r.id
<1> DEFINE q == [r EXCEPT !.type = x]
<1>1. r \in Messages(M)
  BY DEF MessageOK
<1>2. /\ q \in Messages(M) /\ q.client = r.client /\ q.server = r.server /\ q.id = r.id
      /\ q.blocks = r.blocks /\ q.since = r.since /\ q.type = x
  BY <1>1 DEF Messages
<1> HIDE DEF q
<1>3. MessageOK(M, N, q)
  BY <1>2 DEF MessageOK
<1> QED
  BY <1>2, <1>3 DEF q

\* The height a client asks from.
LEMMA SinceType ==
    ASSUME NEW M, MinedOK(M), NEW s, StoredOK(M, s)
    PROVE  Max({0} \cup {M[h].height : h \in ToSet(s.history)}) \in Nat
<1> DEFINE S == ToSet(s.history) \cup {Genesis}
           f == [h \in S |-> M[h].height]
           T == {M[h].height : h \in S}
<1>1. /\ s.history \in Seq(DOMAIN s.store) /\ DOMAIN s.store \subseteq DOMAIN M
      /\ Genesis \in DOMAIN M /\ M[Genesis].height = 0
  BY DEF StoredOK, MinedOK, GenesisBlock
<1>2. IsFiniteSet(S) /\ S # {} /\ S \subseteq DOMAIN M
  <2>1. IsFiniteSet(ToSet(s.history)) /\ ToSet(s.history) \subseteq DOMAIN M
    BY <1>1, ToSetFinite
  <2> QED
    BY <1>1, <2>1, FS_AddElement
<1>3. f \in [S -> Int] /\ (\A h \in S : f[h] = M[h].height /\ f[h] \in Nat)
  BY <1>2 DEF MinedOK
<1>4. Values(T, f, S)
  BY <1>3 DEF Values
<1>5. T = {0} \cup {M[h].height : h \in ToSet(s.history)}
  BY <1>1
<1> HIDE DEF S, f, T
<1>6. \E h \in S : f[h] = Max(T)
  BY <1>2, <1>3, <1>4, MaxOfValues
<1>7. Max(T) \in Nat
  BY <1>3, <1>6
<1> QED
  BY <1>5, <1>7

\* A new connection.
LEMMA ConnectKeeps ==
    ASSUME Inv, NEW n \in Nodes, NEW m \in Nodes \cup {Stranger}, Connect(n, m)
    PROVE  Inv'
<1> DEFINE s == node[n]
           v == [s EXCEPT !.connects = @ + 1, !.sync_pending = TRUE]
           x == Max({0} \cup {mined[h].height : h \in ToSet(s.history)})
           r == [type |-> "request", client |-> n, server |-> m, id |-> s.connects,
                 blocks |-> <<>>, since |-> x]
<1>1. /\ Runs(mined, s) /\ IsNode(s) /\ StoredOK(mined, s) /\ GateOK(s) /\ s.connects \in Nat
      /\ (s.answering => s.todo # <<>>) /\ node = [i \in Nodes |-> node[i]] /\ MinedOK(mined)
      /\ NetOK(mined, node, net)
  BY DEF Inv, NodeOK, Runs, GateOK
<1>2. /\ node' = [node EXCEPT ![n] = v] /\ net' = net \cup {r} /\ m # n /\ UNCHANGED <<mined, now>>
  BY <1>1 DEF Connect
<1>3. x \in Nat
  BY <1>1, SinceType
<1>4. Differs(s, v, {"connects", "sync_pending"}) /\ v.connects = s.connects + 1 /\ v.sync_pending = TRUE
  BY <1>1 DEF Differs, IsNode, Fields
<1> HIDE DEF x, v
<1>5. /\ v.store = s.store /\ v.cache = s.cache /\ v.history = s.history /\ v.saved = s.saved
      /\ v.todo = s.todo /\ v.waiting_on = s.waiting_on /\ v.current_size = s.current_size
      /\ v.lost = s.lost /\ v.answering = s.answering /\ v.abandoned = s.abandoned /\ IsNode(v)
      /\ v.misread = s.misread
  BY <1>4 DEF Differs, Fields
<1>6. GateOK(v)
  <2>1. v.connects \in Nat
    BY <1>1, <1>4
  <2>2. v.answering \in BOOLEAN /\ v.sync_pending \in BOOLEAN /\ v.abandoned \in BOOLEAN
    BY <1>1, <1>4, <1>5, Zenon DEF GateOK
  <2> QED
    BY <2>1, <2>2 DEF GateOK
<1>7. NodeOK(mined, v)
  BY <1>1, <1>5, <1>6 DEF NodeOK, Runs, StoredOK, PoolOK, Waits, HistoryOK
<1>8. NetOK(mined, node', net)
  <2>1. v.connects \in Nat /\ v.connects >= s.connects
    BY <1>1, <1>4
  <2> QED
    BY <1>1, <1>2, <1>5, <2>1, NetKeeps
<1>9. node'[n] = v
  BY <1>1, <1>2
<1>10. MessageOK(mined, node', r)
  <2>1. r \in Messages(mined) /\ r.server = m /\ r.client = n /\ r.id = s.connects /\ r.blocks = <<>>
    BY <1>1, <1>3 DEF Messages
  <2> HIDE DEF r
  <2>2. r.id < node'[r.client].connects
    BY <1>1, <1>4, <1>9, <2>1
  <2> QED
    BY <1>2, <2>1, <2>2 DEF MessageOK
<1>11. ASSUME NEW q \in net, q.client = r.client PROVE q.id # r.id
  <2>1. q.id < s.connects /\ q.id \in Nat
    BY <1>1, <1>11 DEF NetOK, MessageOK, Messages
  <2> QED
    BY <1>1, <2>1
<1> HIDE DEF r
<1>12. NetOK(mined, node', net')
  BY <1>2, <1>8, <1>10, <1>11, NetMore
<1>13. node' = [i \in Nodes |-> node'[i]] /\ \A i \in Nodes : NodeOK(mined, node'[i])
  BY <1>2, <1>7 DEF Inv
<1> QED
  BY <1>1, <1>2, <1>12, <1>13 DEF Inv

\* What is cut from a history keeps its order and loses its end only.
LEMMA BlocksAbove ==
    ASSUME MinedOK(mined), NEW s, StoredOK(mined, s), HistoryOK(mined, s), NEW since \in Nat
    PROVE  LET z == blocks_above(s.history, since)
           IN  /\ z \in Seq(DOMAIN mined \ {Genesis})
               /\ s.lost = {} =>
                     \A i \in DOMAIN z : \A p \in ToSet(mined[z[i]].parents) :
                         mined[p].height <= since \/ \E j \in 1..i-1 : z[j] = p
<1> DEFINE hs == s.history
           at == {i \in DOMAIN hs : mined[hs[i]].height > since}
           w == Filtered(hs, at)
           k == Min({MAX_SYNC_BLOCKS, Len(w)})
           z == SubSeq(w, 1, k)
           D == DOMAIN s.store
<1>1. z = blocks_above(s.history, since)
  BY DEF blocks_above
<1>2. hs \in Seq(D) /\ D \subseteq DOMAIN mined /\ DOMAIN hs = 1..Len(hs) /\ Len(hs) \in Nat
  BY DEF StoredOK
<1>3. at \in SUBSET DOMAIN hs
  OBVIOUS
<1>4. ASSUME NEW i \in at PROVE i \in DOMAIN hs /\ i \in Nat /\ mined[hs[i]].height > since
  BY <1>2
<1>5. ASSUME NEW i \in DOMAIN hs, mined[hs[i]].height > since PROVE i \in at
  BY <1>5
<1> HIDE DEF at, hs, D
<1>6. PICK o : Filters(w, hs, at, o)
  BY <1>2, <1>3, FilteredIs
<1>7. Cardinality(at) \in Nat /\ w \in Seq(D) /\ Len(w) = Cardinality(at)
  BY <1>2, <1>3, FilteredIs
<1> DEFINE c == Cardinality(at)
<1> HIDE DEF w, c
<1>8. /\ o \in [1..c -> at] /\ w = [j \in 1..c |-> hs[o[j]]]
      /\ (\A i \in at : \E j \in 1..c : o[j] = i)
      /\ \A i, j \in 1..c : i < j <=> o[i] < o[j]
  BY <1>6 DEF Filters, c
<1>9. k \in Nat /\ k <= Len(w)
  <2> DEFINE T == {MAX_SYNC_BLOCKS, Len(w)}
  <2>1. T # {} /\ T \subseteq Nat /\ Len(w) \in T
    BY <1>7, NodeAssumption
  <2>2. k = Min(T)
    OBVIOUS
  <2> HIDE DEF T, k
  <2>3. k \in T /\ \A y \in T : k <= y
    BY <2>1, <2>2, MinOfNats
  <2> QED
    BY <2>1, <2>3
<1> HIDE DEF k
<1>10. /\ z \in Seq(D) /\ Len(z) = k /\ DOMAIN z = 1..k
       /\ \A i \in 1..k : z[i] = w[i]
  BY <1>7, <1>9
<1> HIDE DEF z
<1>11. ASSUME NEW i \in 1..k
       PROVE  /\ i \in 1..c /\ z[i] = hs[o[i]] /\ o[i] \in DOMAIN hs /\ o[i] \in Nat
              /\ mined[z[i]].height > since /\ z[i] \in DOMAIN mined
  <2>1. i \in 1..c
    BY <1>7, <1>9 DEF c
  <2>2. z[i] = hs[o[i]] /\ o[i] \in at
    BY <1>8, <1>10, <2>1
  <2> QED
    BY <1>2, <1>4, <1>10, <2>1, <2>2
<1>12. mined[Genesis].height = 0
  BY DEF MinedOK, GenesisBlock
<1>13. z \in Seq(DOMAIN mined \ {Genesis})
  <2>1. ASSUME NEW i \in 1..k PROVE z[i] # Genesis
    BY <1>11, <1>12
  <2>2. z \in [1..k -> DOMAIN mined \ {Genesis}]
    BY <1>10, <1>11, <2>1
  <2> QED
    BY <1>9, <2>2
<1>14. ASSUME s.lost = {}, NEW i \in 1..k, NEW p \in ToSet(mined[z[i]].parents)
       PROVE  mined[p].height <= since \/ \E j \in 1..(i - 1) : z[j] = p
  <2>1. /\ hs # <<>> => ToSet(mined[hs[1]].parents) \subseteq {Genesis}
        /\ \A j \in 2..Len(hs) : Attached(mined, hs, j)
    BY <1>14 DEF HistoryOK, hs
  <2>2. CASE o[i] = 1
    <3>1. hs # <<>> /\ z[i] = hs[1]
      BY <1>2, <1>11, <2>2
    <3>2. p = Genesis
      BY <1>14, <2>1, <3>1
    <3> QED
      BY <1>12, <3>2
  <2>3. CASE o[i] # 1
    <3>1. o[i] \in 2..Len(hs)
      BY <1>2, <1>11, <2>3
    <3>2. PICK j \in 1..(o[i] - 1) : p = hs[j]
      <4>1. Attached(mined, hs, o[i]) /\ z[i] = hs[o[i]]
        BY <1>11, <2>1, <3>1
      <4> QED
        BY <1>14, <4>1 DEF Attached
    <3>3. j \in DOMAIN hs /\ j \in Nat /\ j < o[i]
      BY <1>2, <3>1, <3>2
    <3>4. mined[p].height \in Nat
      BY <1>2, <3>2, <3>3 DEF MinedOK
    <3>5. ASSUME ~(mined[p].height <= since) PROVE \E x \in 1..(i - 1) : z[x] = p
      <4>1. j \in at
        BY <1>5, <3>2, <3>3, <3>4, <3>5
      <4>2. PICK x \in 1..c : o[x] = j
        BY <1>8, <4>1
      <4>3. x < i
        BY <1>8, <1>11, <3>3, <4>2
      <4>4. x \in 1..(i - 1) /\ x \in 1..k
        BY <1>9, <4>3
      <4>5. z[x] = p
        BY <1>11, <3>2, <4>2, <4>4
      <4> QED
        BY <4>4, <4>5
    <3> QED
      BY <3>5
  <2> QED
    BY <2>2, <2>3
<1> QED
  BY <1>1, <1>10, <1>13, <1>14

\* The answer to a request.
LEMMA AnswerOK ==
    ASSUME Inv, NEW r \in net, r.type = "request"
    PROVE  /\ MessageOK(mined, node, build_sync_response(r))
           /\ build_sync_response(r).client = r.client /\ build_sync_response(r).id = r.id
<1> DEFINE z == blocks_above(node[r.server].history, r.since)
           q == [r EXCEPT !.type = "response", !.blocks = z]
<1>1. MinedOK(mined) /\ MessageOK(mined, node, r)
  BY DEF Inv, NetOK
<1>2. /\ r \in Messages(mined) /\ r.server # r.client /\ r.id < node[r.client].connects
      /\ r.blocks = <<>>
  BY <1>1 DEF MessageOK
<1>3. r.client \in Nodes /\ r.server \in Nodes \cup {Stranger} /\ r.since \in Nat
  BY <1>2 DEF Messages
<1>4. CASE Network(r.client) # Network(r.server)
  <2>1. build_sync_response(r) = [r EXCEPT !.type = "mismatch"]
    BY <1>4 DEF build_sync_response
  <2>2. "mismatch" \in {"mismatch", "failed"}
    OBVIOUS
  <2>3. /\ MessageOK(mined, node, [r EXCEPT !.type = "mismatch"])
        /\ [r EXCEPT !.type = "mismatch"].client = r.client
        /\ [r EXCEPT !.type = "mismatch"].id = r.id
    BY <1>1, <2>2, MessageSame
  <2> QED
    BY <2>1, <2>3
<1>5. CASE Network(r.client) = Network(r.server)
  <2>1. build_sync_response(r) = q
    BY <1>5 DEF build_sync_response
  <2>2. r.server # Stranger /\ r.server \in Nodes
    <3>1. r.client # Stranger
      BY <1>3, NodeAssumption
    <3> QED
      BY <1>3, <1>5, <3>1 DEF Network
  <2>3. z \in Seq(DOMAIN mined \ {Genesis})
    <3> DEFINE s == node[r.server]
    <3>1. StoredOK(mined, s) /\ HistoryOK(mined, s)
      BY <2>2 DEF Inv, NodeOK, Runs
    <3> HIDE DEF s
    <3>2. blocks_above(s.history, r.since) \in Seq(DOMAIN mined \ {Genesis})
      BY <1>1, <1>3, <3>1, BlocksAbove
    <3> QED
      BY <3>2 DEF s
  <2> HIDE DEF z
  <2>4. /\ q \in Messages(mined) /\ q.client = r.client /\ q.server = r.server /\ q.id = r.id
        /\ q.type = "response"
    BY <1>2, <2>3 DEF Messages
  <2> HIDE DEF q
  <2>5. MessageOK(mined, node, q)
    BY <1>2, <2>2, <2>4 DEF MessageOK
  <2> QED
    BY <2>1, <2>4, <2>5
<1> QED
  BY <1>4, <1>5

\* The server's answer keeps the invariant.
LEMMA AnswerKeeps == ASSUME Inv, NEW r \in net, AnswerSync(r) PROVE Inv'
<1> DEFINE q == build_sync_response(r)
<1>1. r.type = "request" /\ net' = (net \ {r}) \cup {q} /\ UNCHANGED <<mined, node, now>>
  BY DEF AnswerSync
<1>2. MessageOK(mined, node, q) /\ q.client = r.client /\ q.id = r.id
  BY <1>1, AnswerOK
<1> HIDE DEF q
<1>3. NetOK(mined, node, net) /\ NetOK(mined, node, net \ {r})
  BY NetLess DEF Inv
<1>4. \A x \in net \ {r} : x.client = q.client => x.id # q.id
  BY <1>2, <1>3 DEF NetOK
<1>5. NetOK(mined, node, net')
  BY <1>1, <1>2, <1>3, <1>4, NetMore
<1> QED
  BY <1>1, <1>5 DEF Inv

\* A step of node n that takes it to v and a message from the network.
LEMMA LocalLess ==
    ASSUME Inv, NEW n \in Nodes, NEW v, NodeOK(mined, v),
           v.connects = node[n].connects,
           node' = [node EXCEPT ![n] = v], net' \subseteq net, UNCHANGED <<mined, now>>
    PROVE  Inv'
<1>1. node[n].connects \in Nat /\ v.connects \in Nat
  BY DEF Inv, NodeOK, Runs, GateOK
<1>2. NetOK(mined, node', net)
  BY <1>1, NetKeeps DEF Inv
<1>3. NetOK(mined, node', net')
  BY <1>2, NetLess
<1>4. node' = [m \in Nodes |-> node'[m]] /\ \A m \in Nodes : NodeOK(mined, node'[m])
  BY DEF Inv
<1> QED
  BY <1>3, <1>4 DEF Inv

\* So does the client's handling of it, or its failure.
LEMMA SettleKeeps ==
    ASSUME Inv, NEW r \in net, HandleSync(r) \/ OutboundFailure(r)
    PROVE  Inv'
<1> DEFINE n == r.client
           s == node[n]
           g == GateOpened(s)
           v == [s EXCEPT !.answering = TRUE,
                          !.todo = [i \in DOMAIN r.blocks |->
                                       [source |-> r.server, hash |-> r.blocks[i]]]]
<1>1. r \in Messages(mined) /\ node = [m \in Nodes |-> node[m]]
  BY DEF Inv, NetOK, MessageOK
<1>2. n \in Nodes /\ r.server \in Nodes \cup {Stranger} /\ r.blocks \in Seq(DOMAIN mined \ {Genesis})
  BY <1>1 DEF Messages
<1>3. /\ Runs(mined, s) /\ IsNode(s) /\ GateOK(s) /\ (s.answering => s.todo # <<>>)
      /\ s.todo = <<>> /\ net' \subseteq net /\ UNCHANGED <<mined, now>>
  BY <1>2 DEF Inv, NodeOK, Runs, HandleSync, OutboundFailure, Ready
<1>4. CASE node' = [node EXCEPT ![n] = g]
  <2> HIDE DEF s
  <2>1. Runs(mined, g) /\ Differs(s, g, {"sync_pending", "abandoned"})
    BY <1>3, OpenRuns
  <2> HIDE DEF g
  <2>2. g.answering = s.answering /\ g.todo = s.todo /\ g.lost = s.lost /\ g.connects = s.connects
    BY <2>1 DEF Differs, Fields
  <2>3. NodeOK(mined, g)
    BY <1>3, <2>1, <2>2 DEF NodeOK
  <2> QED
    BY <1>2, <1>3, <1>4, <2>2, <2>3, LocalLess DEF s
<1>5. CASE node' = [node EXCEPT ![n] = v] /\ r.blocks # <<>>
  <2> DEFINE calls == [i \in DOMAIN r.blocks |-> [source |-> r.server, hash |-> r.blocks[i]]]
  <2>1. calls \in Seq(CallsOf(mined)) /\ calls # <<>>
    <3>1. Len(r.blocks) \in Nat /\ DOMAIN r.blocks = 1..Len(r.blocks)
      BY <1>2
    <3>2. calls \in [1..Len(r.blocks) -> CallsOf(mined)]
      BY <1>2, <3>1 DEF CallsOf
    <3>3. Len(r.blocks) # 0
      BY <1>2, <1>5
    <3> HIDE DEF calls
    <3>4. calls \in Seq(CallsOf(mined)) /\ Len(calls) = Len(r.blocks)
      BY <3>1, <3>2
    <3> QED
      BY <3>3, <3>4
  <2>2. v = [s EXCEPT !.answering = TRUE, !.todo = calls]
    OBVIOUS
  <2> HIDE DEF calls, v
  <2>3. Differs(s, v, {"answering", "todo"}) /\ v.todo = calls /\ v.answering = TRUE
    BY <1>3, <2>2 DEF Differs, IsNode, Fields
  <2>4. v.lost = s.lost /\ v.connects = s.connects /\ v.abandoned = s.abandoned
    BY <2>3 DEF Differs, Fields
  <2>5. Runs(mined, v)
    BY <1>3, <2>1, <2>3, <2>4, TodoRuns DEF GateOK
  <2>6. NodeOK(mined, v)
    BY <2>1, <2>3, <2>5 DEF NodeOK
  <2> HIDE DEF s
  <2> QED
    BY <1>2, <1>3, <1>5, <2>4, <2>6, LocalLess DEF s
<1>6. CASE OutboundFailure(r)
  <2>1. node' = [node EXCEPT ![n] = g]
    BY <1>1, <1>2, <1>6 DEF OutboundFailure
  <2> QED
    BY <1>4, <2>1
<1>7. CASE HandleSync(r)
  <2>1. CASE r.blocks = <<>>
    BY <1>1, <1>2, <1>4, <1>7, <2>1 DEF HandleSync
  <2>2. CASE r.blocks # <<>>
    BY <1>1, <1>2, <1>5, <1>7, <2>2 DEF HandleSync
  <2> QED
    BY <2>1, <2>2
<1> QED
  BY <1>6, <1>7

-----------------------------------------------------------------------------
(* Restarts keep the invariant. *)

\* Sorting by height puts a block after its parents.
LEMMA ReplayAttached ==
    ASSUME MinedOK(mined), NEW s, StoredOK(mined, s), HistoryOK(mined, s), NEW failed, NEW t,
           Stage(t, Loaded(s, failed), Cardinality(Read(s, failed))),
           t.saved = s.saved, t.lost = s.lost, "blocks" \in failed => t.misread
    PROVE  StoredOK(mined, t) /\ HistoryOK(mined, t)
<1> DEFINE S == Read(s, failed)
           R == {Genesis} \cup S
           n == Cardinality(S)
           q == Loaded(s, failed)
           w == t.history
<1>1. /\ R \subseteq s.saved /\ s.saved \subseteq DOMAIN mined /\ Genesis \notin S
      /\ "blocks" \notin failed => R = s.saved
      /\ S # {} => R = s.saved
      /\ R = {Genesis} \cup S
  BY DEF StoredOK, Read
<1>2. IsFiniteSet(S) /\ Lists(q, S, LoadOrder(S))
  BY <1>1, LoadedLists
<1>3. n \in Nat
  BY <1>2, FS_CardinalityType
<1>4. /\ t.store = [h \in {Genesis} \cup {q[i] : i \in 1..n} |-> mined[h].parents]
      /\ t.cache \in [{Genesis} \cup {q[i] : i \in 1..n} -> DataOver(H)]
      /\ w = [i \in 1..(n + 1) |-> IF i = 1 THEN Genesis ELSE q[i - 1]]
  BY DEF Stage, UpTo
<1> HIDE DEF q, n, w, S, R
<1>5. /\ q \in [1..n -> S] /\ (\A x \in S : \E i \in 1..n : q[i] = x)
      /\ \A i, j \in 1..n : i < j => q[i] # q[j] /\ <<q[i], q[j]>> \in LoadOrder(S)
  BY <1>2 DEF Lists, n
<1>6. {Genesis} \cup {q[i] : i \in 1..n} = R
  BY <1>1, <1>5
<1>7. DOMAIN t.store = R
  BY <1>4, <1>6
<1>8. /\ DOMAIN w = 1..(n + 1) /\ w[1] = Genesis
      /\ \A i \in 1..n : i + 1 \in 1..(n + 1) /\ w[i + 1] = q[i]
      /\ \A i \in 2..(n + 1) : i - 1 \in 1..n /\ w[i] = q[i - 1] /\ w[i] \in S
  <2>1. DOMAIN w = 1..(n + 1) /\ w[1] = Genesis
    BY <1>3, <1>4
  <2>2. ASSUME NEW i \in 2..(n + 1) PROVE i - 1 \in 1..n /\ w[i] = q[i - 1] /\ w[i] \in S
    <3>1. i - 1 \in 1..n /\ i \in 1..(n + 1) /\ i # 1
      BY <1>3
    <3>2. w[i] = q[i - 1]
      BY <1>4, <3>1
    <3> QED
      BY <1>5, <3>1, <3>2
  <2>3. ASSUME NEW i \in 1..n PROVE i + 1 \in 1..(n + 1) /\ w[i + 1] = q[i]
    <3>1. i + 1 \in 1..(n + 1) /\ i + 1 # 1 /\ (i + 1) - 1 = i
      BY <1>3
    <3> QED
      BY <1>4, <3>1
  <2> QED
    BY <2>1, <2>2, <2>3
<1>9. \A i \in 1..(n + 1) : i = 1 \/ i \in 2..(n + 1)
  BY <1>3
<1>10. ToSet(w) = R
  <2>1. ASSUME NEW x \in R PROVE \E i \in 1..(n + 1) : w[i] = x
    <3>1. CASE x = Genesis
      <4>1. 1 \in 1..(n + 1)
        BY <1>3
      <4> QED
        BY <1>8, <3>1, <4>1
    <3>2. CASE x # Genesis
      BY <1>1, <1>5, <1>8, <3>2
    <3> QED
      BY <3>1, <3>2
  <2>2. ASSUME NEW i \in 1..(n + 1) PROVE w[i] \in R
    BY <1>1, <1>8, <1>9
  <2> QED
    BY <1>8, <2>1, <2>2 DEF ToSet
<1>11. w \in Seq(R) /\ w # <<>> /\ Len(w) = n + 1
  <2>1. w = [i \in 1..(n + 1) |-> w[i]]
    BY <1>4
  <2>2. \A i \in 1..(n + 1) : w[i] \in R
    BY <1>8, <1>10 DEF ToSet
  <2>3. w \in [1..(n + 1) -> R]
    BY <2>1, <2>2
  <2>4. n + 1 \in Nat /\ n + 1 # 0
    BY <1>3
  <2> QED
    BY <2>3, <2>4
<1>12. StoredOK(mined, t)
  <2>1. Genesis \in s.saved /\ \A h \in (s.saved \cup R) \ {Genesis} : Fits(mined, h)
    BY <1>1 DEF StoredOK
  <2> QED
    BY <1>1, <1>4, <1>6, <1>7, <1>11, <2>1 DEF StoredOK, w
<1>13. ASSUME s.lost = {} PROVE HistoryOK(mined, t)
  <2>1. \A h \in s.saved : ToSet(mined[h].parents) \subseteq s.saved
    BY <1>13 DEF HistoryOK
  <2>2. IsInjective(w)
    <3> SUFFICES ASSUME NEW i \in 1..(n + 1), NEW j \in 1..(n + 1), w[i] = w[j], i < j PROVE FALSE
      <4>1. \A i, j \in 1..(n + 1) : i < j \/ j < i \/ i = j
        BY <1>3
      <4> QED
        BY <1>8, <4>1 DEF IsInjective
    <3>1. j \in 2..(n + 1)
      BY <1>3
    <3>2. w[j] \in S /\ w[j] = q[j - 1] /\ j - 1 \in 1..n
      BY <1>8, <3>1
    <3>3. CASE i = 1
      BY <1>1, <1>8, <3>2, <3>3
    <3>4. CASE i # 1
      <4>1. i - 1 \in 1..n /\ w[i] = q[i - 1] /\ i - 1 < j - 1
        BY <1>3, <1>8, <1>9, <3>4
      <4>2. q[i - 1] # q[j - 1]
        BY <1>5, <3>2, <4>1
      <4> QED
        BY <3>2, <4>1, <4>2
    <3> QED
      BY <3>3, <3>4
  <2>3. ASSUME NEW i \in 2..(n + 1) PROVE Attached(mined, w, i)
    <3> SUFFICES ASSUME NEW p \in ToSet(mined[w[i]].parents)
                 PROVE  \E j \in 1..(i - 1) : w[j] = p
      BY DEF Attached
    <3>1. w[i] \in S /\ w[i] = q[i - 1] /\ i - 1 \in 1..n
      BY <1>8
    <3>2. Fits(mined, w[i]) /\ w[i] \in DOMAIN mined
      BY <1>1, <3>1 DEF StoredOK
    <3>3. p \in R
      BY <1>1, <2>1, <3>1
    <3>4. mined[p].height < mined[w[i]].height /\ mined[p].height \in Nat /\ mined[w[i]].height \in Nat
      <4> DEFINE h == w[i]
      <4> HIDE DEF h
      <4>1. \A x \in ToSet(mined[h].parents) : x \in DOMAIN mined /\ mined[x].height < mined[h].height
        BY <3>2, HigherThanParents DEF h
      <4>2. p \in DOMAIN mined /\ mined[p].height < mined[h].height /\ h \in DOMAIN mined
        BY <3>2, <4>1 DEF h
      <4> QED
        BY <4>2 DEF MinedOK, h
    <3>5. CASE p = Genesis
      <4>1. 1 \in 1..(i - 1)
        BY <1>3
      <4> QED
        BY <1>8, <3>5, <4>1
    <3>6. CASE p # Genesis
      <4>1. PICK k \in 1..n : q[k] = p
        BY <1>1, <1>5, <3>3, <3>6
      <4> DEFINE m == i - 1
      <4>2. m \in 1..n /\ w[i] = q[m]
        BY <3>1
      <4> HIDE DEF m
      <4>3. k # m
        BY <3>4, <4>1, <4>2
      <4>4. ASSUME m < k PROVE FALSE
        <5>1. <<q[m], q[k]>> \in LoadOrder(S)
          BY <1>5, <4>2, <4>4
        <5>2. <<q[m], q[k]>>[1] = q[m] /\ <<q[m], q[k]>>[2] = q[k]
          OBVIOUS
        <5>3. mined[q[m]].height < mined[q[k]].height \/ mined[q[m]].height = mined[q[k]].height
          BY <5>1, <5>2 DEF LoadOrder
        <5> QED
          BY <3>4, <4>1, <4>2, <5>3
      <4>5. k + 1 \in 1..(i - 1)
        BY <1>3, <4>2, <4>3, <4>4 DEF m
      <4>6. w[k + 1] = p
        BY <1>8, <4>1
      <4> QED
        BY <4>5, <4>6
    <3> QED
      BY <3>5, <3>6
  <2>4. ToSet(mined[w[1]].parents) \subseteq {Genesis}
    BY <1>8 DEF MinedOK, GenesisBlock, ToSet
  <2> QED
    BY <1>1, <1>7, <1>8, <1>10, <1>11, <2>1, <2>2, <2>3, <2>4 DEF HistoryOK, w
<1>14. HistoryOK(mined, t)
  BY <1>13 DEF HistoryOK
<1> QED
  BY <1>12, <1>14

\* A node with an empty pool and nothing to do.
LEMMA IdleRuns ==
    ASSUME NEW M, NEW t, IsNode(t), StoredOK(M, t), HistoryOK(M, t), t.connects \in Nat,
           t.waiting_on = NewNode.waiting_on, t.current_size = NewNode.current_size,
           t.todo = NewNode.todo, t.answering = NewNode.answering,
           t.sync_pending = NewNode.sync_pending, t.abandoned = NewNode.abandoned
    PROVE  NodeOK(M, t)
<1>1. /\ t.waiting_on = [h \in H |-> <<>>] /\ t.current_size = 0 /\ t.todo = <<>>
      /\ t.answering = FALSE /\ t.sync_pending = FALSE /\ t.abandoned = FALSE
  BY DEF NewNode, H
<1>2. GateOK(t)
  BY <1>1 DEF GateOK
<1>3. t.waiting_on \in [H -> Seq(CallsOf(M))] /\ t.todo \in Seq(CallsOf(M))
  BY <1>1
<1>4. t.current_size = SumFunction([h \in H |-> Len(t.waiting_on[h])])
  <2>1. [h \in H |-> Len(t.waiting_on[h])] = [h \in H |-> 0]
    BY <1>1
  <2> QED
    BY <1>1, <2>1, SumZero, HashesFinite
<1>5. t.current_size <= ORPHAN_POOL_MAX
  BY <1>1, NodeAssumption
<1>6. PoolOK(M, t)
  BY <1>3, <1>4, <1>5 DEF PoolOK
<1>7. Waits(M, t, DOMAIN t.store)
  BY <1>1 DEF Waits
<1> QED
  BY <1>1, <1>2, <1>6, <1>7 DEF NodeOK, Runs

\* A node that comes back with the disk of s, and with what it can read of it.
Starts(s, failed) ==
    IF "genesis" \in failed THEN RestartedEmpty(s, failed) ELSE Restarted(s, failed)

\* It goes on from what it was resumed with, as far as that is not read.
LEMMA StartsFrom ==
    ASSUME MinedOK(mined), NEW s, StoredOK(mined, s), HistoryOK(mined, s), NEW failed, NEW t,
           t = Starts(s, failed)
    PROVE  /\ Differs(NewNode, t, {"store", "cache", "history", "saved", "disk", "lost",
                                   "disk_phantom", "misread", "unpublished", "disk_errors",
                                   "connects", "restarts", "ledger", "phantom", "target"})
           /\ t.saved = s.saved /\ t.lost = s.lost /\ t.connects = s.connects
           /\ t.misread = (failed \ {"recomputed"} # {}) /\ t.restarts = s.restarts + 1
           /\ "genesis" \notin failed =>
                 /\ Stage(t, Loaded(s, failed), Cardinality(Read(s, failed)))
                 /\ Differs(Replayed(s, failed), t,
                            {"ledger", "disk", "phantom", "disk_phantom", "target"})
           /\ "genesis" \in failed =>
                 /\ t.store = [h \in {} |-> <<>>] /\ t.cache = [h \in {} |-> GenesisData]
                 /\ t.history = <<>>
                 /\ Differs(Resumed(s, failed), t, {"store", "cache", "history"})
<1> DEFINE b == Resumed(s, failed)
           r == Replayed(s, failed)
           n == Cardinality(Read(s, failed))
           X == {"saved", "disk", "lost", "disk_phantom", "misread", "unpublished",
                 "disk_errors", "connects", "restarts"}
<1>1. s.saved \subseteq DOMAIN mined
  BY DEF StoredOK
<1>2. Differs(b, r, {"store", "cache", "history"}) /\ Stage(r, Loaded(s, failed), n)
  BY <1>1, ReplayedIs
<1>3. /\ Differs(NewNode, b, X)
      /\ b.saved = s.saved /\ b.lost = s.lost /\ b.connects = s.connects
      /\ b.misread = (failed \ {"recomputed"} # {}) /\ b.restarts = s.restarts + 1
  BY ResumedIs, SMTT(30)
<1>4. CASE "genesis" \notin failed
  <2>1. IsNode(r) /\ t = Restarted(s, failed)
    BY <1>2, <1>4 DEF Differs, Starts
  <2>2. Differs(r, t, {"ledger", "disk", "phantom", "disk_phantom", "target"})
    BY <2>1 DEF Restarted, Differs, IsNode, Fields
  <2> HIDE DEF b, r, n, X
  <2>3. /\ t.store = r.store /\ t.cache = r.cache /\ t.history = r.history
        /\ t.saved = b.saved /\ t.lost = b.lost /\ t.connects = b.connects
        /\ t.misread = b.misread /\ t.restarts = b.restarts
    BY <1>2, <2>2 DEF Differs, Fields
  <2>4. Stage(t, Loaded(s, failed), n)
    BY <1>2, <2>3 DEF Stage
  <2>5. Differs(NewNode, t, X \cup {"store", "cache", "history", "ledger", "phantom", "target"})
    BY <1>2, <1>3, <2>2 DEF Differs, X
  <2> QED
    BY <1>3, <1>4, <2>2, <2>3, <2>4, <2>5 DEF Differs, X, r, n
<1>5. CASE "genesis" \in failed
  <2>1. IsNode(b) /\ t = RestartedEmpty(s, failed)
    BY <1>3, <1>5 DEF Differs, Starts
  <2>2. /\ Differs(b, t, {"store", "cache", "history"})
        /\ t.store = [h \in {} |-> <<>>] /\ t.cache = [h \in {} |-> GenesisData]
        /\ t.history = <<>>
    BY <2>1 DEF RestartedEmpty, Differs, IsNode, Fields
  <2> HIDE DEF b, r, n, X
  <2>3. /\ t.saved = b.saved /\ t.lost = b.lost /\ t.connects = b.connects
        /\ t.misread = b.misread /\ t.restarts = b.restarts
    BY <2>2 DEF Differs, Fields
  <2>4. Differs(NewNode, t, X \cup {"store", "cache", "history"})
    BY <1>3, <2>2 DEF Differs, X
  <2> QED
    BY <1>3, <1>5, <2>2, <2>3, <2>4 DEF Differs, X, b
<1> QED
  BY <1>4, <1>5

\* It keeps to the invariant, with nothing left to do.
LEMMA RestartedOK ==
    ASSUME MinedOK(mined), NEW s, StoredOK(mined, s), HistoryOK(mined, s), s.connects \in Nat,
           NEW failed, NEW t, t = Starts(s, failed)
    PROVE  /\ NodeOK(mined, t)
           /\ t.connects = s.connects /\ t.lost = s.lost
           /\ t.answering = FALSE /\ t.todo = <<>>
           /\ t.sync_pending = FALSE /\ t.abandoned = FALSE
<1>1. /\ Differs(NewNode, t, {"store", "cache", "history", "saved", "disk", "lost",
                              "disk_phantom", "misread", "unpublished", "disk_errors",
                              "connects", "restarts", "ledger", "phantom", "target"})
      /\ t.saved = s.saved /\ t.lost = s.lost /\ t.connects = s.connects
      /\ t.misread = (failed \ {"recomputed"} # {})
      /\ "genesis" \notin failed => Stage(t, Loaded(s, failed), Cardinality(Read(s, failed)))
      /\ "genesis" \in failed =>
            /\ t.store = [h \in {} |-> <<>>] /\ t.cache = [h \in {} |-> GenesisData]
            /\ t.history = <<>>
  BY StartsFrom
<1>2. StoredOK(mined, t) /\ HistoryOK(mined, t)
  <2>1. CASE "genesis" \notin failed
    <3>1. "blocks" \in failed => failed \ {"recomputed"} # {}
      OBVIOUS
    <3>2. "blocks" \in failed => t.misread
      BY <1>1, <3>1
    <3> QED
      BY <1>1, <2>1, <3>2, ReplayAttached
  <2>2. CASE "genesis" \in failed
    <3> DEFINE e == [h \in {} |-> <<>>]
               c == [h \in {} |-> GenesisData]
    <3>0. failed \ {"recomputed"} # {}
      BY <2>2
    <3>1. t.store = e /\ t.cache = c /\ t.history = <<>> /\ t.misread
      BY <1>1, <2>2, <3>0
    <3>2. DOMAIN e = {} /\ e = [h \in {} |-> mined[h].parents] /\ c \in [{} -> DataOver(H)]
      OBVIOUS
    <3> HIDE DEF e, c
    <3>3. StoredOK(mined, t)
      BY <1>1, <3>1, <3>2 DEF StoredOK
    <3>4. ToSet(t.history) = {} /\ IsInjective(t.history) /\ 2..Len(t.history) = {}
      BY <3>1 DEF ToSet, IsInjective
    <3>5. HistoryOK(mined, t)
      BY <1>1, <3>1, <3>2, <3>4 DEF HistoryOK
    <3> QED
      BY <3>3, <3>5
  <2> QED
    BY <2>1, <2>2
<1>3. /\ t.waiting_on = NewNode.waiting_on /\ t.current_size = NewNode.current_size
      /\ t.todo = NewNode.todo /\ t.answering = NewNode.answering
      /\ t.sync_pending = NewNode.sync_pending /\ t.abandoned = NewNode.abandoned /\ IsNode(t)
  BY <1>1 DEF Differs, Fields
<1>4. NodeOK(mined, t)
  BY <1>1, <1>2, <1>3, IdleRuns
<1>5. /\ NewNode.answering = FALSE /\ NewNode.todo = <<>>
      /\ NewNode.sync_pending = FALSE /\ NewNode.abandoned = FALSE
  BY DEF NewNode
<1> QED
  BY <1>1, <1>3, <1>4, <1>5

\* The messages that are left, and what becomes of one of them.
Turned(r, n) == IF r.server = n /\ r.type = "request" THEN [r EXCEPT !.type = "failed"] ELSE r

\* What is left of the messages is well-formed.
LEMMA NetTurned ==
    ASSUME NEW M, NEW N, NEW S, NetOK(M, N, S), NEW n, NEW T,
           T = {Turned(r, n) : r \in {q \in S : q.client # n}}
    PROVE  NetOK(M, N, T)
<1> DEFINE L == {q \in S : q.client # n}
           f == [r \in L |-> Turned(r, n)]
<1>1. f \in Surjection(L, T)
  BY DEF Surjection
<1>2. IsFiniteSet(T)
  <2>1. IsFiniteSet(L)
    BY FS_Subset DEF NetOK
  <2> HIDE DEF L, f
  <2> QED
    BY <1>1, <2>1, FS_Surjection
<1>3. ASSUME NEW r \in S
      PROVE  MessageOK(M, N, Turned(r, n)) /\ Turned(r, n).client = r.client /\ Turned(r, n).id = r.id
  <2>1. MessageOK(M, N, r) /\ "failed" \in {"mismatch", "failed"}
    BY DEF NetOK
  <2>2. /\ MessageOK(M, N, [r EXCEPT !.type = "failed"])
        /\ [r EXCEPT !.type = "failed"].client = r.client /\ [r EXCEPT !.type = "failed"].id = r.id
    BY <2>1, MessageSame
  <2> QED
    BY <2>1, <2>2 DEF Turned
<1>4. ASSUME NEW x \in T, NEW y \in T, x.client = y.client, x.id = y.id PROVE x = y
  <2>1. PICK r \in S : x = Turned(r, n)
    OBVIOUS
  <2>2. PICK q \in S : y = Turned(q, n)
    OBVIOUS
  <2>3. r.client = q.client /\ r.id = q.id
    BY <1>3, <1>4, <2>1, <2>2
  <2>4. r = q
    BY <2>3 DEF NetOK
  <2> QED
    BY <2>1, <2>2, <2>4
<1> QED
  BY <1>2, <1>3, <1>4 DEF NetOK

\* A restart from a disk like the node's keeps the invariant.
LEMMA RestartFromKeeps ==
    ASSUME Inv, NEW n \in Nodes, NEW s, NEW F, Differs(node[n], s, F), F \subseteq Ignored,
           RestartFrom(n, s)
    PROVE  Inv'
<1> PICK failed \in StartFailures(n, s) :
        node' = [node EXCEPT ![n] = Starts(s, failed)]
  BY DEF RestartFrom, Starts
<1> DEFINE v == Starts(s, failed)
<1>1. Runs(mined, node[n]) /\ MinedOK(mined) /\ node = [m \in Nodes |-> node[m]]
      /\ NetOK(mined, node, net) /\ node[n].connects \in Nat
  BY DEF Inv, NodeOK, Runs, GateOK
<1>2. Runs(mined, s) /\ s.lost = node[n].lost /\ s.connects = node[n].connects
  BY <1>1, IgnoredFields
<1>3. StoredOK(mined, s) /\ HistoryOK(mined, s) /\ s.connects \in Nat
  BY <1>2 DEF Runs, GateOK
<1>4. NodeOK(mined, v) /\ v.connects = s.connects /\ v.lost = s.lost
  BY <1>1, <1>3, RestartedOK
<1>5. /\ node' = [node EXCEPT ![n] = v] /\ UNCHANGED <<mined, now>>
      /\ net' = {Turned(r, n) : r \in {q \in net : q.client # n}}
  BY DEF RestartFrom, Turned
<1> HIDE DEF v
<1>6. NetOK(mined, node', net)
  BY <1>1, <1>2, <1>4, <1>5, NetKeeps
<1>7. NetOK(mined, node', net')
  BY <1>5, <1>6, NetTurned
<1>8. node' = [m \in Nodes |-> node'[m]] /\ \A m \in Nodes : NodeOK(mined, node'[m])
  BY <1>4, <1>5 DEF Inv
<1> QED
  BY <1>1, <1>5, <1>7, <1>8 DEF Inv

\* A restart at any time, or in the middle of an ingestion or a mining tick.
LEMMA RestartKeeps ==
    ASSUME Inv, NEW n \in Nodes, Restart(n) \/ CrashIngesting(n) \/ CrashMining(n)
    PROVE  Inv'
<1> DEFINE s == node[n]
<1>1. IsNode(s)
  BY DEF Inv, NodeOK, Runs
<1>2. CASE Restart(n)
  <2>1. Differs(s, s, {})
    BY <1>1 DEF Differs
  <2> QED
    BY <1>2, <2>1, RestartFromKeeps DEF Restart
<1>3. ASSUME NEW b, RestartFrom(n, [Applied(s, b) EXCEPT !.disk_phantom = TRUE]) PROVE Inv'
  <2> DEFINE t == [Applied(s, b) EXCEPT !.disk_phantom = TRUE]
  <2>1. Differs(s, t, {"ledger", "disk", "disk_phantom"})
    BY <1>1 DEF Applied, Differs, IsNode, Fields
  <2> HIDE DEF t
  <2> QED
    BY <1>3, <2>1, RestartFromKeeps DEF Ignored, t
<1>4. CASE CrashIngesting(n)
  BY <1>3, <1>4 DEF CrashIngesting
<1>5. CASE CrashMining(n)
  BY <1>3, <1>5 DEF CrashMining
<1> QED
  BY <1>2, <1>4, <1>5

-----------------------------------------------------------------------------
(* The invariant holds throughout. *)

\* It holds at the start.
LEMMA InitHolds == Init => Inv
<1> SUFFICES ASSUME Init PROVE Inv
  OBVIOUS
<1> DEFINE block(h) == (CHOOSE f \in ForeignBlocks : f.hash = h).block
<1>1. /\ DOMAIN mined = {Genesis} \cup ForeignHashes /\ mined = [h \in DOMAIN mined |-> mined[h]]
      /\ mined[Genesis] = GenesisBlock
      /\ \A h \in ForeignHashes : h # Genesis => mined[h] = block(h)
  <2> HIDE DEF block
  <2> QED
    BY DEF Init, block
<1>2. ASSUME NEW h \in ForeignHashes
      PROVE  /\ block(h).parents \in Seq(H) /\ block(h).height \in Nat
             /\ ToSet(block(h).parents) \subseteq DOMAIN mined \cup {OtherGenesis}
  <2> DEFINE P == ForeignHashes \cup {Genesis, OtherGenesis}
  <2>1. \E f \in ForeignBlocks : f.hash = h
    BY DEF ForeignHashes
  <2>2. PICK f \in ForeignBlocks : block(h) = f.block
    BY <2>1
  <2> HIDE DEF block
  <2>3. block(h).parents \in Seq(P) /\ block(h).height \in Nat
    BY <2>2, ForeignAssumption
  <2>4. P \subseteq H /\ P \subseteq DOMAIN mined \cup {OtherGenesis}
    BY <1>1 DEF H, AllHashes
  <2> HIDE DEF P
  <2>5. ToSet(block(h).parents) \subseteq P
    BY <2>3, ToSetFinite
  <2> QED
    BY <2>3, <2>4, <2>5
<1> HIDE DEF block
<1>3. MinedOK(mined)
  <2>1. DOMAIN mined \subseteq H
    BY <1>1 DEF H, AllHashes
  <2>2. ASSUME NEW h \in DOMAIN mined
        PROVE  /\ mined[h].parents \in Seq(H) /\ mined[h].height \in Nat
               /\ ToSet(mined[h].parents) \subseteq DOMAIN mined \cup {OtherGenesis}
    <3>1. CASE h = Genesis
      <4>1. mined[h] = GenesisBlock /\ GenesisBlock.parents = <<>> /\ GenesisBlock.height = 0
        BY <1>1, <3>1 DEF GenesisBlock
      <4>2. mined[h].parents \in Seq(H) /\ mined[h].parents = <<>> /\ mined[h].height \in Nat
        BY <4>1
      <4>3. ToSet(mined[h].parents) = {}
        BY <4>2, ToSetFinite
      <4> QED
        BY <4>2, <4>3
    <3>2. CASE h # Genesis
      BY <1>1, <1>2, <3>2
    <3> QED
      BY <3>1, <3>2
  <2> QED
    BY <1>1, <2>1, <2>2 DEF MinedOK
<1>4. node = [n \in Nodes |-> NewNode] /\ net = {} /\ now = 0
  BY DEF Init
<1>5. NodeOK(mined, NewNode)
  <2>1. StoredOK(mined, NewNode)
    BY <1>3, NewNodeStored
  <2>2. NewNode.connects \in Nat
    BY DEF NewNode
  <2>3. HistoryOK(mined, NewNode)
    <3>1. /\ NewNode.history = <<Genesis>> /\ NewNode.saved = {Genesis} /\ DOMAIN NewNode.store = {Genesis}
      BY DEF NewNode
    <3> DEFINE q == <<Genesis>>
    <3>2. ToSet(q) = {Genesis} /\ IsInjective(q) /\ q[1] = Genesis /\ 2..Len(q) = {}
      BY DEF ToSet, IsInjective
    <3>3. ToSet(mined[Genesis].parents) = {}
      BY <1>3 DEF MinedOK, GenesisBlock, ToSet
    <3> QED
      BY <3>1, <3>2, <3>3 DEF HistoryOK
  <2> QED
    BY <2>1, <2>2, <2>3, NewNodeIsNode, IdleRuns
<1>6. NetOK(mined, node, net)
  BY <1>4, FS_EmptySet DEF NetOK
<1> QED
  BY <1>3, <1>4, <1>5, <1>6 DEF Inv

\* Every step keeps it.
LEMMA NextKeeps == Inv /\ [Next]_vars => Inv'
<1> SUFFICES ASSUME Inv, [Next]_vars PROVE Inv'
  OBVIOUS
<1>1. ASSUME NEW n \in Nodes, Event(n) PROVE Inv'
  BY <1>1, EventKeeps, MineKeeps, ConnectKeeps, RestartKeeps DEF Event
<1>2. CASE Tick
  BY <1>2 DEF Tick, Inv
<1>3. CASE UNCHANGED vars
  BY <1>3 DEF vars, Inv
<1> QED
  BY <1>1, <1>2, <1>3, ProcessKeeps, AnswerKeeps, SettleKeeps DEF Next

\* So it holds throughout.
LEMMA Invariance == Spec => []Inv
  BY InitHolds, NextKeeps, PTL DEF Spec

-----------------------------------------------------------------------------
(* What the invariant says. *)

\* The orphan pool's current_size is the number of orphans in it, and within
\* ORPHAN_POOL_MAX, through inserts, refusals, replays and restarts.
THEOREM PoolIsCounted == Spec => []OrphansCounted
<1>1. ASSUME Inv PROVE OrphansCounted
  BY <1>1 DEF Inv, NodeOK, Runs, PoolOK, OrphansCounted, H
<1> QED
  BY <1>1, Invariance, PTL

\* An orphan never waits on a block that is stored: what take_ready has to
\* replay is replayed when the block is accepted, or was never kept.
THEOREM OrphansAreRemembered == Spec => []NoOrphanForgotten
<1>1. ASSUME Inv PROVE NoOrphanForgotten
  BY <1>1 DEF Inv, NodeOK, Runs, Waits, NoOrphanForgotten, Known, H
<1> QED
  BY <1>1, Invariance, PTL

\* block_history lists the stored blocks once and after their parents, through
\* gossip, sync, orphan replay, mining and restarts in any order.
THEOREM HistoryIsTopological == Spec => []HistoryTopological
<1>1. ASSUME Inv PROVE HistoryTopological
  <2> SUFFICES ASSUME NEW n \in Nodes, node[n].lost = {}
               PROVE  /\ ToSet(node[n].history) = DOMAIN node[n].store /\ IsInjective(node[n].history)
                      /\ \A i \in 2..Len(node[n].history) :
                            LET b == mined[node[n].history[i]] IN
                            /\ ToSet(b.parents) \subseteq {node[n].history[j] : j \in 1..(i - 1)}
                            /\ b.height = 1 + Max({mined[p].height : p \in ToSet(b.parents)})
    BY DEF HistoryTopological
  <2>1. StoredOK(mined, node[n]) /\ HistoryOK(mined, node[n])
    BY <1>1 DEF Inv, NodeOK, Runs
  <2>2. ASSUME NEW i \in 2..Len(node[n].history)
        PROVE  node[n].history[i] \in DOMAIN node[n].store \ {Genesis}
    <3> DEFINE q == node[n].history
    <3>1. /\ q \in Seq(DOMAIN node[n].store) /\ IsInjective(q)
          /\ Genesis \in DOMAIN node[n].store => q[1] = Genesis
      BY <2>1 DEF StoredOK, HistoryOK
    <3> HIDE DEF q
    <3>2. i \in 2..Len(q)
      BY DEF q
    <3>3. i \in DOMAIN q /\ 1 \in DOMAIN q /\ i # 1
      BY <3>1, <3>2
    <3>4. q[i] # q[1] /\ q[i] \in DOMAIN node[n].store
      BY <3>1, <3>3 DEF IsInjective
    <3> QED
      BY <3>1, <3>4 DEF q
  <2>3. ASSUME NEW i \in 2..Len(node[n].history)
        PROVE  LET b == mined[node[n].history[i]] IN
               /\ ToSet(b.parents) \subseteq {node[n].history[j] : j \in 1..(i - 1)}
               /\ b.height = 1 + Max({mined[p].height : p \in ToSet(b.parents)})
    <3>1. Attached(mined, node[n].history, i)
      BY <2>1 DEF HistoryOK
    <3>2. Fits(mined, node[n].history[i])
      BY <2>1, <2>2 DEF StoredOK
    <3> QED
      BY <3>1, <3>2 DEF Attached, Fits
  <2> QED
    BY <2>1, <2>3 DEF HistoryOK
<1> QED
  BY <1>1, Invariance, PTL

\* Whatever height a peer asks from, the blocks build_sync_response cuts out of
\* block_history come after those of their parents that lie above it: also
\* where the answer is cut off and where the server has restarted meanwhile.
THEOREM AnswersAttach == Spec => []SyncAnswersAttach
<1>1. ASSUME Inv PROVE SyncAnswersAttach
  <2> SUFFICES ASSUME NEW n \in Nodes, NEW h \in DOMAIN mined, node[n].lost = {}
               PROVE  LET answer == blocks_above(node[n].history, mined[h].height)
                      IN  \A i \in DOMAIN answer : \A p \in ToSet(mined[answer[i]].parents) :
                              \/ mined[p].height <= mined[h].height
                              \/ \E j \in 1..i-1 : answer[j] = p
    BY DEF SyncAnswersAttach
  <2> DEFINE s == node[n]
             since == mined[h].height
  <2>1. MinedOK(mined) /\ StoredOK(mined, s) /\ HistoryOK(mined, s)
    BY <1>1 DEF Inv, NodeOK, Runs
  <2>2. since \in Nat /\ s.lost = {}
    BY <2>1 DEF MinedOK
  <2> HIDE DEF s, since
  <2>3. LET answer == blocks_above(s.history, since)
        IN  \A i \in DOMAIN answer : \A p \in ToSet(mined[answer[i]].parents) :
                mined[p].height <= since \/ \E j \in 1..i-1 : answer[j] = p
    BY <2>1, <2>2, BlocksAbove
  <2> QED
    BY <2>3 DEF s, since
<1> QED
  BY <1>1, Invariance, PTL

-----------------------------------------------------------------------------
(* Ledgers: what a node holds is backed by its blocks, and is what a replay *)
(* of them gives.                                                          *)

\* The blocks have payloads, times and targets.
SoundBlocks(M) ==
    \A h \in DOMAIN M : Payload(M[h]) /\ M[h].time \in Nat /\ M[h].target \in Targets

\* The replay of the canonical order of s.
Tip(s) == select_canonical_tip(s.store, s.cache)
Recomputed(M, s) == recompute_ledger(M, s, Tip(s))

\* The ledger of s is that replay or, where it fails, the one on disk.
Follows(M, s) ==
    IF Recomputed(M, s).ok THEN s.ledger = Recomputed(M, s).ledger ELSE s.disk = s.ledger

\* The ledger on the disk of s comes from the blocks there, unless one that was
\* applied to it is not among them.
DiskOK(M, s) ==
    /\ s.disk \in Ledgers /\ s.disk_phantom \in BOOLEAN
    /\ s.lost = {} /\ ~s.disk_phantom => BackedBy(s.disk, M, s.saved)

\* The ledgers of node s, unless writes or the reads of its start-up failed.
Money(M, s) ==
    /\ s.ledger \in Ledgers /\ s.target \in Targets /\ s.phantom \in BOOLEAN
    /\ ~s.phantom => BackedBy(s.ledger, M, DOMAIN s.store)
    /\ DiskOK(M, s)
    /\ s.lost = {} /\ ~s.misread => Coherent(s.store, s.cache)
    /\ s.lost = {} /\ ~s.misread /\ ~s.phantom => Follows(M, s)

\* What else the invariant of the event loop does not look at.
Pools(s) ==
    /\ s.mempool \subseteq Txs /\ IsFiniteSet(s.mempool)
    /\ s.blamed \subseteq Nodes \cup {Stranger}
    /\ s.restarts \in Nat

Rich ==
    /\ SoundBlocks(mined) /\ now \in 0..MaxTime
    /\ \A n \in Nodes : Money(mined, node[n]) /\ Pools(node[n])

\* The canonical order lists hashes, none of them twice.
LEMMA SortOf ==
    ASSUME NEW M, MinedOK(M), NEW s, StoredOK(M, s), DOMAIN s.store # {}
    PROVE  \E n \in Nat : /\ get_linear_sort(s.cache, Tip(s)) \in [1..n -> H]
                          /\ IsInjective(get_linear_sort(s.cache, Tip(s)))
<1>1. Tip(s) \in DOMAIN s.store
  BY TipIsStored DEF Tip
<1>2. DOMAIN s.store \in SUBSET H /\ s.cache \in [DOMAIN s.store -> DataOver(H)]
  BY DEF StoredOK, MinedOK
<1> QED
  BY <1>1, <1>2, HashesFinite, SortIsList

\* The replay yields a ledger that the stored blocks back.
LEMMA RecomputedIs ==
    ASSUME NEW M, MinedOK(M), SoundBlocks(M), NEW s, StoredOK(M, s), DOMAIN s.store # {}
    PROVE  /\ Recomputed(M, s) \in Results
           /\ BackedBy(Recomputed(M, s).ledger, M, DOMAIN s.store)
<1> DEFINE D == DOMAIN s.store
           q == get_linear_sort(s.cache, Tip(s))
<1>1. PICK n \in Nat : q \in [1..n -> H] /\ IsInjective(q)
  BY SortOf
<1>2. D \subseteq DOMAIN M /\ D \subseteq H
  BY DEF StoredOK, MinedOK
<1>3. IsFiniteSet(D) /\ \A h \in D : Payload(M[h])
  BY <1>2, HashesFinite, FS_Subset DEF SoundBlocks
<1>4. Recomputed(M, s) = ReplayAll(M, D, q)
  BY DEF Recomputed, recompute_ledger
<1> HIDE DEF D, q
<1>5. /\ ReplayAll(M, D, q) \in Results
      /\ BackedBy(ReplayAll(M, D, q).ledger, M, D)
  BY <1>1, <1>3, ReplayIs
<1> QED
  BY <1>4, <1>5 DEF D

\* A node with the same store and data replays the same.
LEMMA RecomputedSame ==
    ASSUME NEW M, NEW s, NEW t, t.store = s.store, t.cache = s.cache
    PROVE  Recomputed(M, t) = Recomputed(M, s)
  BY DEF Recomputed, recompute_ledger, Tip

\* A step that does not concern the ledgers.
LEMMA MoneyKept ==
    ASSUME NEW M, NEW s, Money(M, s), NEW t, NEW F, Differs(s, t, F),
           F \cap {"store", "cache", "ledger", "disk", "saved", "target", "phantom", "disk_phantom",
                  "misread", "lost"} = {}
    PROVE  Money(M, t)
<1>1. /\ t.store = s.store /\ t.cache = s.cache /\ t.ledger = s.ledger /\ t.disk = s.disk
      /\ t.target = s.target /\ t.phantom = s.phantom /\ t.lost = s.lost /\ t.saved = s.saved
      /\ t.disk_phantom = s.disk_phantom /\ t.misread = s.misread
  BY DEF Differs, Fields
<1>2. Recomputed(M, t) = Recomputed(M, s)
  BY <1>1, RecomputedSame
<1> QED
  BY <1>1, <1>2 DEF Money, DiskOK, Follows

\* A block that is applied without being ingested.
LEMMA MoneyPhantom ==
    ASSUME NEW M, NEW s, Money(M, s), NEW t, NEW F, Differs(s, t, F),
           F \cap {"store", "cache", "disk", "saved", "target", "disk_phantom", "misread", "lost"} = {},
           t.ledger \in Ledgers, t.phantom = TRUE
    PROVE  Money(M, t)
<1>1. /\ t.store = s.store /\ t.cache = s.cache /\ t.target = s.target /\ t.lost = s.lost
      /\ t.disk = s.disk /\ t.saved = s.saved /\ t.disk_phantom = s.disk_phantom
      /\ t.misread = s.misread
  BY DEF Differs, Fields
<1> QED
  BY <1>1 DEF Money, DiskOK

\* A step that does not concern transactions or peers.
LEMMA PoolsKept ==
    ASSUME NEW s, Pools(s), NEW t, NEW F, Differs(s, t, F),
           F \cap {"mempool", "blamed", "restarts"} = {}
    PROVE  Pools(t)
<1>1. t.mempool = s.mempool /\ t.blamed = s.blamed /\ t.restarts = s.restarts
  BY DEF Differs, Fields
<1> QED
  BY <1>1 DEF Pools

\* A block with a payload applies to a ledger or leaves it.
LEMMA AppliedLedger ==
    ASSUME NEW l \in Ledgers, NEW b, Payload(b)
    PROVE  apply_block(l, b).ledger \in Ledgers
<1>1. apply_block(l, b) \in Results
  BY ApplyBlockIs
<1> QED
  BY <1>1 DEF Results

\* A ledger that some blocks back is backed by more of them.
LEMMA BackedMore ==
    ASSUME NEW M, NEW T, IsFiniteSet(T), Payloads(M, T), NEW S \in SUBSET T,
           NEW l \in Ledgers, BackedBy(l, M, S)
    PROVE  BackedBy(l, M, T)
<1> DEFINE f == [h \in S |-> M[h].coinbase.miner + M[h].coinbase.dev]
           e == [h \in T |-> M[h].coinbase.miner + M[h].coinbase.dev]
<1>1. IsFiniteSet(S) /\ S \in SUBSET (S \cap T)
  BY FS_Subset
<1>2. f \in [S -> Nat] /\ e \in [T -> Nat] /\ f \in [S -> Int] /\ e \in [T -> Int]
  BY DEF Payload, Payloads
<1>3. \A h \in S : f[h] = e[h]
  OBVIOUS
<1>4. Rewards(M, S) = SumFunction(f) /\ Rewards(M, T) = SumFunction(e)
  BY DEF Rewards
<1> HIDE DEF f, e
<1>5. PICK g : Sums(g, f, S) /\ SumFunction(f) = g[S]
  BY <1>1, <1>2, SumIsSum
<1>6. PICK k : Sums(k, e, T) /\ SumFunction(e) = k[T]
  BY <1>2, SumIsSum
<1>7. g[S] = k[S]
  BY <1>1, <1>2, <1>3, <1>5, <1>6, SumsAgree
<1>8. k[S] <= k[T] /\ k[S] \in Int /\ k[T] \in Int
  BY <1>2, <1>6, SumsMonotone DEF Sums
<1>9. Worth(l) \in Int
  BY WorthType
<1>10. Worth(l) <= Rewards(M, S)
  BY DEF BackedBy
<1>11. Worth(l) <= Rewards(M, T)
  BY <1>4, <1>5, <1>6, <1>7, <1>8, <1>9, <1>10
<1> QED
  BY <1>11 DEF BackedBy

\* Any blocks back the ledger nodes start with.
LEMMA DefaultBacked ==
    ASSUME NEW M, NEW T, IsFiniteSet(T), Payloads(M, T)
    PROVE  BackedBy(DefaultLedger, M, T)
<1>1. Worth(DefaultLedger) = 0
  BY SumZero, AddrAssumption DEF Worth, DefaultLedger
<1>2. Rewards(M, {}) = 0
  <2>1. [h \in {} |-> M[h].coinbase.miner + M[h].coinbase.dev] = [h \in {} |-> 0]
    OBVIOUS
  <2> QED
    BY <2>1, FS_EmptySet, SumZero DEF Rewards
<1>3. BackedBy(DefaultLedger, M, {})
  BY <1>1, <1>2 DEF BackedBy, DefaultLedger
<1> QED
  BY <1>3, BackedMore, DefaultType

\* More blocks change nothing for the ledgers of those that are there.
LEMMA MoneyGrows ==
    ASSUME NEW M, MinedOK(M), SoundBlocks(M), NEW h, h \notin DOMAIN M, NEW b,
           NEW s, StoredOK(M, s), HistoryOK(M, s), Money(M, s)
    PROVE  Money(Extend(M, h, b), s)
<1> DEFINE N == Extend(M, h, b)
           D == DOMAIN s.store
           q == get_linear_sort(s.cache, Tip(s))
<1>1. D \subseteq DOMAIN M /\ s.saved \subseteq DOMAIN M
  BY DEF StoredOK
<1>2. \A g \in DOMAIN M : N[g] = M[g]
  BY DEF Extend
<1>3. \A g \in D \cup s.saved : N[g] = M[g]
  BY <1>1, <1>2
<1>4. ASSUME D # {} PROVE q \in Seq(H)
  <2>1. PICK n \in Nat : q \in [1..n -> H]
    BY <1>4, SortOf
  <2> QED
    BY <2>1
<1>5. Recomputed(M, s) = ReplayAll(M, D, q) /\ Recomputed(N, s) = ReplayAll(N, D, q)
  BY DEF Recomputed, recompute_ledger
<1>6. \A g \in D : Payload(M[g])
  BY <1>1 DEF SoundBlocks
<1> HIDE DEF D, q, N
<1>7. ASSUME D # {} PROVE ReplayAll(N, D, q) = ReplayAll(M, D, q)
  <2>1. Payloads(M, D) /\ SameOn(N, M, D)
    BY <1>3, <1>6 DEF Payloads, SameOn
  <2>2. q \in Seq(H)
    BY <1>4, <1>7
  <2> QED
    BY <2>1, <2>2, ReplayAgree
<1>8. BackedBy(s.ledger, M, D) => BackedBy(s.ledger, N, D)
  BY <1>3, BackedAgree
<1>9. DiskOK(N, s)
  <2> DEFINE S == s.saved
  <2>1. \A g \in S : N[g] = M[g]
    BY <1>3
  <2> HIDE DEF S
  <2>2. BackedBy(s.disk, M, S) => BackedBy(s.disk, N, S)
    BY <2>1, BackedAgree
  <2> QED
    BY <2>2 DEF S, Money, DiskOK
<1>10. ASSUME s.lost = {}, ~s.misread, Follows(M, s) PROVE Follows(N, s)
  <2>1. D # {}
    BY <1>10 DEF HistoryOK, StoredOK, D
  <2> QED
    BY <1>5, <1>7, <1>10, <2>1 DEF Follows
<1>11. Money(N, s)
  BY <1>8, <1>9, <1>10 DEF Money, D
<1> QED
  BY <1>11 DEF N

\* The greater and the lesser of two numbers.
LEMMA OfTwo ==
    ASSUME NEW x \in Nat, NEW y \in Nat
    PROVE  /\ Max({x, y}) \in Nat /\ x <= Max({x, y}) /\ y <= Max({x, y})
           /\ Min({x, y}) \in Nat
<1> DEFINE S == {x, y}
<1>1. S # {} /\ S \subseteq Int /\ S \subseteq Nat /\ x \in S /\ y \in S
  OBVIOUS
<1>2. IsFiniteSet(S)
  <2>1. IsFiniteSet({x}) /\ S = {x} \cup {y}
    BY FS_Singleton
  <2> QED
    BY <2>1, FS_AddElement
<1> HIDE DEF S
<1>3. Max(S) \in S /\ \A z \in S : z <= Max(S)
  BY <1>1, <1>2, MaxOfFinite
<1>4. Min(S) \in S
  BY <1>1, MinOfNats
<1> QED
  BY <1>1, <1>3, <1>4 DEF S

\* The target stays within its width: a product that does not fit is not taken.
LEMMA NextTargetType ==
    ASSUME NEW M, SoundBlocks(M), NEW hs \in Seq(DOMAIN M), NEW target \in Targets
    PROVE  calculate_next_target(M, hs, target) \in Targets
<1> DEFINE window   == SubSeq(hs, Len(hs) - WINDOW_SIZE + 1, Len(hs))
           earliest == M[Head(window)].time
           latest   == M[Last(window)].time
           elapsed  == IF latest > earliest THEN latest - earliest ELSE 1
           y        == TARGET_INTERVAL * (WINDOW_SIZE - 1)
           expected == Max({1, y})
           m        == Min({4 * expected, elapsed})
           clamped  == Max({expected \div 4, m})
           x        == target.leading
           z        == x * clamped
           next     == IF z > MAX_U128 THEN x ELSE z \div expected
<1>1. calculate_next_target(M, hs, target)
        = IF Len(hs) < WINDOW_SIZE THEN target ELSE [leading |-> next, padded |-> TRUE]
  BY DEF calculate_next_target
<1>2. CASE Len(hs) < WINDOW_SIZE
  BY <1>1, <1>2
<1>4. x \in 0..MAX_U128
  BY DEF Targets
<1> HIDE DEF x
<1>3. CASE ~(Len(hs) < WINDOW_SIZE)
  <2>1. WINDOW_SIZE \in Nat \ {0} /\ TARGET_INTERVAL \in Nat /\ MAX_U128 \in Nat /\ x \in Nat
    BY <1>4, NodeAssumption
  <2>2. Head(window) \in DOMAIN M /\ Last(window) \in DOMAIN M
    <3> DEFINE k == Len(hs) - WINDOW_SIZE + 1
    <3>1. k \in 1..Len(hs) /\ Len(hs) \in Nat
      BY <1>3, <2>1
    <3>2. window = SubSeq(hs, k, Len(hs))
      OBVIOUS
    <3> HIDE DEF k, window
    <3>3. window \in Seq(DOMAIN M) /\ Len(window) = Len(hs) - k + 1
      BY <3>1, <3>2
    <3>4. Len(window) \in Nat \ {0}
      BY <3>1, <3>3
    <3>5. window[1] \in DOMAIN M /\ window[Len(window)] \in DOMAIN M
      BY <3>3, <3>4
    <3>6. Head(window) = window[1]
      BY <3>3, <3>4
    <3> QED
      BY <3>5, <3>6 DEF Last
  <2>3. earliest \in Nat /\ latest \in Nat
    BY <2>2 DEF SoundBlocks
  <2> HIDE DEF earliest, latest
  <2>4. elapsed \in Nat
    BY <2>3
  <2>5. y \in Nat
    BY <2>1
  <2> HIDE DEF elapsed, y
  <2>6. expected \in Nat /\ 1 <= expected
    BY <2>5, OfTwo
  <2> HIDE DEF expected
  <2>7. 4 * expected \in Nat /\ expected \div 4 \in Nat
    BY <2>6
  <2>8. m \in Nat
    BY <2>4, <2>7, OfTwo
  <2> HIDE DEF m
  <2>9. clamped \in Nat
    BY <2>7, <2>8, OfTwo
  <2> HIDE DEF clamped
  <2>10. z \in Nat
    BY <2>1, <2>9
  <2> HIDE DEF z
  <2>11. z \div expected \in Nat /\ z \div expected <= z
    <3> DEFINE d == z \div expected
    <3>1. d \in Int /\ expected * d <= z /\ z < expected * (d + 1)
      BY <2>6, <2>10
    <3> HIDE DEF d
    <3>2. d \in Nat
      BY <2>6, <2>10, <3>1
    <3>3. d <= expected * d
      BY <2>6, <3>2
    <3>4. expected * d \in Nat
      BY <2>6, <3>2
    <3>5. d <= z
      BY <2>10, <3>1, <3>2, <3>3, <3>4
    <3> QED
      BY <3>2, <3>5 DEF d
  <2>12. next \in 0..MAX_U128
    BY <1>4, <2>1, <2>10, <2>11
  <2> HIDE DEF next
  <2> QED
    BY <1>1, <1>3, <2>12 DEF Targets
<1> QED
  BY <1>2, <1>3

\* The order it is computed from holds stored blocks.
LEMMA CanonicalOrder ==
    ASSUME NEW M, MinedOK(M), NEW s, StoredOK(M, s), DOMAIN s.store # {}
    PROVE  canonical_block_order(s, Tip(s)) \in Seq(DOMAIN s.store)
<1> DEFINE D == DOMAIN s.store
           q == get_linear_sort(s.cache, Tip(s))
           at == {i \in DOMAIN q : q[i] \in D}
           w == Filtered(q, at)
           n == Cardinality(at)
<1>1. q \in Seq(H)
  <2>1. PICK n0 \in Nat : q \in [1..n0 -> H]
    BY SortOf
  <2> QED
    BY <2>1
<1>2. at \in SUBSET DOMAIN q /\ \A i \in at : q[i] \in D
  OBVIOUS
<1>3. canonical_block_order(s, Tip(s)) = w
  BY DEF canonical_block_order
<1> HIDE DEF q, at, D
<1>4. PICK o : Filters(w, q, at, o)
  BY <1>1, <1>2, FilteredIs
<1>5. n \in Nat
  BY <1>1, <1>2, FilteredIs
<1>6. w \in [1..n -> D]
  <2>1. o \in [1..n -> at] /\ w = [k \in 1..n |-> q[o[k]]]
    BY <1>4 DEF Filters
  <2> HIDE DEF n, w
  <2> QED
    BY <1>2, <2>1
<1> HIDE DEF n, w
<1>7. w \in Seq(D)
  BY <1>5, <1>6
<1> QED
  BY <1>3, <1>7 DEF D

\* What an ingestion does to the flags.
LEMMA IngestPhantom ==
    ASSUME NEW s, IsNode(s), NEW h, NEW b, NEW failed
    PROVE  /\ ingest_block_only(s, h, b, failed).phantom = (s.phantom \/ Known(s, h))
           /\ ingest_block_only(s, h, b, failed).disk_phantom = (s.disk_phantom \/ Known(s, h))
<1> DEFINE i == InsertBlock(s, h, b)
<1>1. Differs(s, i, {"store", "cache", "history"})
  BY InsertKeeps
<1>2. IsNode(i) /\ i.phantom = s.phantom /\ i.disk_phantom = s.disk_phantom
  BY <1>1 DEF Differs, Fields
<1>3. ingest_block_only(s, h, b, failed)
        = [i EXCEPT !.saved        = IF "block" \in failed THEN @ ELSE @ \cup {h},
                    !.lost         = IF "block" \in failed THEN @ \cup {h} ELSE @,
                    !.phantom      = @ \/ Known(s, h),
                    !.disk_phantom = @ \/ Known(s, h),
                    !.disk_errors  = @ + Cardinality(failed)]
  BY DEF ingest_block_only
<1> HIDE DEF i
<1>4. /\ ingest_block_only(s, h, b, failed).phantom = (i.phantom \/ Known(s, h))
      /\ ingest_block_only(s, h, b, failed).disk_phantom = (i.disk_phantom \/ Known(s, h))
  BY <1>2, <1>3 DEF IsNode, Fields
<1> QED
  BY <1>2, <1>4

\* A new block with the data it has now keeps the data of a node coherent.
LEMMA IngestCoherent ==
    ASSUME NEW M, MinedOK(M), NEW s, StoredOK(M, s), HistoryOK(M, s),
           s.lost = {} /\ ~s.misread => Coherent(s.store, s.cache),
           NEW h \in DOMAIN M, Enterable(s, M[h]), h \notin s.saved,
           NEW t, Enters(s, t, h, M[h].parents), t.lost = {}, ~s.misread
    PROVE  Coherent(t.store, t.cache)
<1> DEFINE D == DOMAIN s.store
           p == M[h].parents
           d == calculate_ghostdag_data(s.store, s.cache, p)
<1>1. s.lost = {} /\ t.store = Extend(s.store, h, p) /\ t.cache = Extend(s.cache, h, d)
  BY DEF Enters
<1>2. Coherent(s.store, s.cache) /\ h \notin D
  BY <1>1 DEF HistoryOK
<1>3. h \in Nat
  BY HashesFinite DEF MinedOK
<1>4. p \in Seq(D)
  <2>0. Genesis \in D
    BY <1>1 DEF HistoryOK, StoredOK
  <2>1. p \in Seq(H) /\ ToSet(p) \subseteq D
    BY <2>0 DEF MinedOK, Enterable
  <2> HIDE DEF p, D
  <2>2. \A k \in 1..Len(p) : p[k] \in D
    BY <2>1 DEF ToSet
  <2> QED
    BY <2>1, <2>2
<1>5. DOMAIN s.cache = D
  BY DEF StoredOK
<1> HIDE DEF p, d
<1>6. Joins(s.store, s.cache, t.store, t.cache, h, p, d)
  <2>1. DOMAIN t.store = D \cup {h} /\ t.store[h] = p /\ \A x \in D : t.store[x] = s.store[x]
    BY <1>1, <1>2 DEF Extend
  <2>2. t.cache = [x \in D \cup {h} |-> IF x = h THEN d ELSE s.cache[x]]
    BY <1>1, <1>5 DEF Extend
  <2> QED
    BY <2>1, <2>2 DEF Joins
<1> QED
  BY <1>2, <1>3, <1>4, <1>6, CoherentGrows DEF d

\* A block that is applied: to the ledger in memory and on disk.
LEMMA AppliedIs ==
    ASSUME NEW s, IsNode(s), NEW b
    PROVE  LET a == Applied(s, b)
           IN  /\ Differs(s, a, {"ledger", "disk", "disk_phantom"})
               /\ a.ledger = apply_block(s.ledger, b).ledger /\ a.disk = a.ledger
               /\ a.disk_phantom = s.phantom
  BY DEF Applied, Differs, IsNode, Fields

\* After an ingestion with its recomputation the ledger is right, whatever the
\* writes that failed.
LEMMA MoneyIngested ==
    ASSUME NEW M, MinedOK(M), SoundBlocks(M), NEW s, Runs(M, s), Money(M, s),
           NEW h \in DOMAIN M, h # Genesis, Fits(M, h),
           Enterable(s, M[h]), h \notin s.saved, NEW failed
    PROVE  LET i == ingest_block_only(Applied(s, M[h]), h, M[h], failed)
               t == AfterIngest(M, i, failed)
           IN  Money(M, t) /\ (Pools(s) => Pools(t))
<1> DEFINE b == M[h]
           l == apply_block(s.ledger, b).ledger
           a == Applied(s, b)
           i == ingest_block_only(a, h, b, failed)
           r == Recomputed(M, i)
           t == AfterIngest(M, i, failed)
           D == DOMAIN s.store
<1>1. IsNode(s) /\ StoredOK(M, s) /\ HistoryOK(M, s) /\ s.ledger \in Ledgers /\ Payload(b)
  BY DEF Runs, Money, SoundBlocks
<1>2. l \in Ledgers
  BY <1>1, AppliedLedger
<1>3. /\ Differs(s, a, {"ledger", "disk", "disk_phantom"})
      /\ a.ledger = l /\ a.disk = l /\ a.disk_phantom = s.phantom
  BY <1>1, AppliedIs
<1> HIDE DEF l, a
<1>4. IsNode(a) /\ a.store = s.store /\ a.cache = s.cache /\ a.saved = s.saved /\ a.lost = s.lost
      /\ a.phantom = s.phantom /\ a.target = s.target /\ a.history = s.history
      /\ a.misread = s.misread
  BY <1>3 DEF Differs, Fields
<1>5. StoredOK(M, a) /\ HistoryOK(M, a) /\ Enterable(a, b)
  BY <1>1, <1>4 DEF StoredOK, HistoryOK, Enterable
<1>6. /\ Differs(a, i, {"store", "cache", "history", "saved", "lost", "phantom",
                       "disk_phantom", "disk_errors"})
      /\ Enters(a, i, h, b.parents) /\ i.phantom = (a.phantom \/ Known(a, h))
      /\ i.disk_phantom = (a.disk_phantom \/ Known(a, h))
  BY <1>4, IngestKeeps, IngestPhantom
<1> HIDE DEF i
<1>7. IsNode(i) /\ i.ledger = l /\ i.disk = l /\ i.target = s.target /\ i.misread = s.misread
  BY <1>3, <1>4, <1>6 DEF Differs, Fields
<1>8. StoredOK(M, i) /\ DOMAIN i.store = D \cup {h}
  BY <1>4, <1>5, <1>6, InsertOK
<1>9. r \in Results /\ BackedBy(r.ledger, M, D \cup {h})
  BY <1>8, RecomputedIs
<1>10. r = recompute_ledger(M, i, Tip(i))
  BY DEF Recomputed
<1> HIDE DEF r
<1> DEFINE m == IF r.ok THEN r.ledger ELSE l
           w == r.ok /\ "recomputed" \notin failed
           g == calculate_next_target(M, canonical_block_order(i, Tip(i)), i.target)
<1>11. t = [i EXCEPT !.ledger = m, !.disk = IF w THEN m ELSE @,
                     !.phantom = @ /\ ~r.ok, !.disk_phantom = @ /\ ~w, !.target = g]
  BY <1>7, <1>10 DEF AfterIngest, Tip
<1> HIDE DEF t, g
<1>12. /\ Differs(i, t, {"ledger", "disk", "phantom", "disk_phantom", "target"})
       /\ t.ledger = m /\ t.disk = (IF w THEN m ELSE l) /\ t.target = g
       /\ t.phantom = (i.phantom /\ ~r.ok) /\ t.disk_phantom = (i.disk_phantom /\ ~w)
  BY <1>7, <1>11 DEF Differs, IsNode, Fields
<1>13. /\ t.store = i.store /\ t.cache = i.cache /\ t.lost = i.lost /\ t.saved = i.saved
       /\ t.misread = i.misread
  BY <1>12 DEF Differs, Fields
<1>14. m \in Ledgers /\ r.ok \in BOOLEAN
  BY <1>2, <1>9 DEF Results
<1>15. t.ledger \in Ledgers /\ t.disk \in Ledgers
  BY <1>2, <1>12, <1>14
<1>16. t.target \in Targets
  <2> DEFINE v == canonical_block_order(i, Tip(i))
  <2>1. v \in Seq(DOMAIN i.store) /\ DOMAIN i.store \subseteq DOMAIN M
    BY <1>8, CanonicalOrder DEF StoredOK
  <2> HIDE DEF v
  <2>2. v \in Seq(DOMAIN M)
    BY <2>1
  <2>3. i.target \in Targets
    BY <1>7 DEF Money
  <2> QED
    BY <1>12, <2>2, <2>3, NextTargetType DEF g, v
<1>17. ASSUME ~s.phantom, h \notin D PROVE BackedBy(l, M, D \cup {h})
  <2>1. BackedBy(s.ledger, M, D)
    BY <1>17 DEF Money
  <2>2. IsFiniteSet(D) /\ Payloads(M, D \cup {h})
    <3>1. D \subseteq DOMAIN M /\ D \subseteq H
      BY <1>1 DEF StoredOK, MinedOK
    <3> QED
      BY <3>1, HashesFinite, FS_Subset DEF Payloads, SoundBlocks
  <2> QED
    BY <1>1, <1>17, <2>1, <2>2, BackedGrows DEF l
<1>18. ASSUME ~t.phantom PROVE BackedBy(t.ledger, M, DOMAIN t.store)
  <2>1. CASE r.ok
    BY <1>8, <1>9, <1>12, <1>13, <2>1
  <2>2. CASE ~r.ok
    <3>1. ~i.phantom
      BY <1>12, <1>18, <2>2
    <3>2. ~s.phantom /\ h \notin D
      BY <1>4, <1>6, <3>1 DEF Known
    <3> QED
      BY <1>8, <1>12, <1>13, <1>17, <2>2, <3>2
  <2> QED
    BY <2>1, <2>2
<1>19. DiskOK(M, t)
  <2>1. ASSUME t.lost = {}, ~t.disk_phantom PROVE BackedBy(t.disk, M, t.saved)
    <3>1. s.lost = {} /\ t.saved = s.saved \cup {h}
      BY <1>4, <1>6, <1>13, <2>1 DEF Enters
    <3>2. D \cup {h} \in SUBSET t.saved
      BY <1>1, <3>1 DEF HistoryOK
    <3>3. IsFiniteSet(t.saved) /\ Payloads(M, t.saved)
      <4>1. t.saved \subseteq DOMAIN M /\ t.saved \subseteq H
        BY <1>1, <3>1 DEF StoredOK, MinedOK
      <4> QED
        BY <4>1, HashesFinite, FS_Subset DEF Payloads, SoundBlocks
    <3>4. BackedBy(t.disk, M, D \cup {h})
      <4>1. CASE w
        BY <1>9, <1>12, <4>1
      <4>2. CASE ~w
        <5>1. ~i.disk_phantom /\ t.disk = l
          BY <1>12, <2>1, <4>2
        <5>2. ~s.phantom /\ h \notin D
          BY <1>3, <1>4, <1>6, <5>1 DEF Known
        <5> QED
          BY <1>17, <5>1, <5>2
      <4> QED
        BY <4>1, <4>2
    <3> QED
      BY <1>15, <3>2, <3>3, <3>4, BackedMore
  <2>2. t.disk_phantom \in BOOLEAN
    BY <1>12, Zenon
  <2> QED
    BY <1>15, <2>1, <2>2 DEF DiskOK
<1>20. ASSUME t.lost = {}, ~t.misread PROVE Coherent(t.store, t.cache)
  <2>1. a.lost = {} /\ ~a.misread => Coherent(a.store, a.cache)
    BY <1>4 DEF Money
  <2>2. ~a.misread /\ i.lost = {}
    BY <1>4, <1>7, <1>13, <1>20
  <2>3. Coherent(i.store, i.cache)
    BY <1>4, <1>5, <1>6, <2>1, <2>2, IngestCoherent
  <2> QED
    BY <1>13, <2>3
<1>21. Follows(M, t)
  <2>1. Recomputed(M, t) = r
    BY <1>13, RecomputedSame DEF r
  <2> QED
    BY <1>12, <2>1 DEF Follows
<1>22. t.phantom \in BOOLEAN
  BY <1>12, Zenon
<1>23. Money(M, t)
  BY <1>15, <1>16, <1>18, <1>19, <1>20, <1>21, <1>22 DEF Money
<1>24. ASSUME Pools(s) PROVE Pools(t)
  <2>1. t.mempool = s.mempool /\ t.blamed = s.blamed /\ t.restarts = s.restarts
    BY <1>3, <1>6, <1>12 DEF Differs, Fields
  <2> QED
    BY <1>24, <2>1 DEF Pools
<1> QED
  BY <1>23, <1>24 DEF t, i, a

\* What a restart that reads genesis does to the ledgers, if its replay gives r.
Restores(s, failed, t, r) ==
    LET saved == r.ok /\ "recomputed" \notin failed
    IN  /\ t.ledger = (IF r.ok THEN r.ledger ELSE persisted(s, failed))
        /\ t.disk = (IF saved THEN r.ledger ELSE s.disk)
        /\ t.phantom = (/\ ~r.ok /\ "state" \notin failed
                        /\ s.disk_phantom \/ s.lost # {})
        /\ t.disk_phantom = (s.disk_phantom /\ ~saved)
        /\ t.target = mined[Last(t.history)].target

\* A restart that reads genesis does so.
LEMMA RestartedIs ==
    ASSUME MinedOK(mined), NEW s, StoredOK(mined, s), NEW failed, NEW t, t = Restarted(s, failed),
           NEW r, r = Recomputed(mined, t)
    PROVE  Restores(s, failed, t, r)
<1> DEFINE b == Resumed(s, failed)
           v == Replayed(s, failed)
<1>1. s.saved \subseteq DOMAIN mined
  BY DEF StoredOK
<1>2. Differs(b, v, {"store", "cache", "history"})
  BY <1>1, ReplayedIs
<1>3. b.disk = s.disk /\ b.disk_phantom = s.disk_phantom
  BY ResumedIs
<1> HIDE DEF b, v
<1>4. IsNode(v) /\ v.disk = s.disk /\ v.disk_phantom = s.disk_phantom
  BY <1>2, <1>3 DEF Differs, Fields
<1> DEFINE x == Recomputed(mined, v)
           l == IF x.ok THEN x.ledger ELSE persisted(s, failed)
           w == x.ok /\ "recomputed" \notin failed
           p == ~x.ok /\ "state" \notin failed /\ (s.disk_phantom \/ s.lost # {})
           g == mined[Last(v.history)].target
<1>5. t = [v EXCEPT !.ledger = l, !.disk = IF w THEN l ELSE @, !.phantom = p,
                    !.disk_phantom = @ /\ ~w, !.target = g]
  BY DEF Restarted, v, Recomputed, Tip
<1> HIDE DEF x, g, l, p, w
<1>6. /\ Differs(v, t, {"ledger", "disk", "phantom", "disk_phantom", "target"})
      /\ t.ledger = l /\ t.disk = (IF w THEN l ELSE v.disk) /\ t.phantom = p
      /\ t.disk_phantom = (v.disk_phantom /\ ~w) /\ t.target = g
  BY <1>4, <1>5 DEF Differs, IsNode, Fields
<1>7. t.store = v.store /\ t.cache = v.cache /\ t.history = v.history
  BY <1>6 DEF Differs, Fields
<1>8. r = x
  BY <1>7, RecomputedSame DEF x
<1> QED
  BY <1>4, <1>6, <1>7, <1>8 DEF g, l, p, w, Restores

\* Blocks are read back after their parents.
LEMMA ReadInSequence ==
    ASSUME NEW t, NEW n \in Nat, NEW q, Stage(t, q, n), HistoryOK(mined, t), t.lost = {}
    PROVE  InSequence(q, n)
<1> DEFINE w == t.history
<1>1. /\ w = [i \in 1..(n + 1) |-> IF i = 1 THEN Genesis ELSE q[i - 1]]
      /\ IsInjective(w) /\ \A i \in 2..Len(w) : Attached(mined, w, i)
  BY DEF Stage, HistoryOK
<1>2. DOMAIN w = 1..(n + 1) /\ Len(w) = n + 1 /\ w[1] = Genesis /\ \A i \in 1..n : w[i + 1] = q[i]
  <2>1. 1 \in 1..(n + 1)
    OBVIOUS
  <2>2. ASSUME NEW i \in 1..n PROVE w[i + 1] = q[i]
    <3>1. i + 1 \in 1..(n + 1) /\ i + 1 # 1 /\ (i + 1) - 1 = i
      OBVIOUS
    <3> QED
      BY <1>1, <3>1
  <2> QED
    BY <1>1, <2>1, <2>2
<1> HIDE DEF w
<1>3. ASSUME NEW i \in 1..n PROVE UpTo(q, i - 1) = {w[j] : j \in 1..i}
  <2>1. ASSUME NEW x \in UpTo(q, i - 1) PROVE \E j \in 1..i : x = w[j]
    <3>1. CASE x = Genesis
      BY <1>2, <3>1
    <3>2. CASE x # Genesis
      <4>1. PICK k \in 1..(i - 1) : x = q[k]
        BY <3>2 DEF UpTo
      <4>2. k + 1 \in 1..i /\ k \in 1..n
        OBVIOUS
      <4> QED
        BY <1>2, <4>1, <4>2
    <3> QED
      BY <3>1, <3>2
  <2>2. ASSUME NEW j \in 1..i PROVE w[j] \in UpTo(q, i - 1)
    <3>1. CASE j = 1
      BY <1>2, <3>1 DEF UpTo
    <3>2. CASE j # 1
      <4> DEFINE k == j - 1
      <4>1. k \in 1..(i - 1) /\ k \in 1..n /\ k + 1 = j
        BY <3>2
      <4> HIDE DEF k
      <4>2. w[j] = q[k]
        BY <1>2, <4>1
      <4> QED
        BY <4>1, <4>2 DEF UpTo
    <3> QED
      BY <3>1, <3>2
  <2> QED
    BY <2>1, <2>2
<1> SUFFICES ASSUME NEW i \in 1..n
             PROVE  /\ q[i] \notin UpTo(q, i - 1)
                    /\ ToSet(mined[q[i]].parents) \subseteq UpTo(q, i - 1)
  BY DEF InSequence
<1>4. i + 1 \in 2..Len(w) /\ i + 1 \in DOMAIN w /\ (i + 1) - 1 = i /\ w[i + 1] = q[i]
  BY <1>2
<1>5. q[i] \notin {w[j] : j \in 1..i}
  <2> SUFFICES ASSUME NEW j \in 1..i, q[i] = w[j] PROVE FALSE
    OBVIOUS
  <2>1. j \in DOMAIN w /\ j # i + 1
    BY <1>2
  <2> QED
    BY <1>1, <1>4, <2>1 DEF IsInjective
<1>6. ToSet(mined[q[i]].parents) \subseteq {w[j] : j \in 1..i}
  <2>1. Attached(mined, w, i + 1)
    BY <1>1, <1>4
  <2> QED
    BY <1>4, <2>1 DEF Attached
<1> QED
  BY <1>3, <1>5, <1>6

\* Two nodes with the same blocks have the same data, if both have the data
\* that would be computed now.
LEMMA DataOnce ==
    ASSUME NEW M, MinedOK(M), NEW s, NEW t, StoredOK(M, s), StoredOK(M, t),
           DOMAIN t.store = DOMAIN s.store, Coherent(s.store, s.cache), Coherent(t.store, t.cache)
    PROVE  t.store = s.store /\ t.cache = s.cache
<1> DEFINE D == DOMAIN s.store
           rank == [h \in D |-> M[h].height]
<1>1. t.store = s.store
  BY DEF StoredOK
<1>2. D \subseteq DOMAIN M /\ s.store = [h \in D |-> M[h].parents]
  BY DEF StoredOK
<1>3. rank \in [D -> Nat]
  BY <1>2 DEF MinedOK
<1>4. ASSUME NEW h \in D, NEW p \in ToSet(s.store[h]) PROVE rank[p] < rank[h]
  <2>1. s.store[h] = M[h].parents /\ p \in D
    <3>1. s.store[h] \in Seq(D)
      BY DEF Coherent
    <3> QED
      BY <1>2, <3>1, ToSetFinite
  <2>2. h # Genesis
    <3>1. CASE h = Genesis
      <4>1. s.store[h] = <<>>
        BY <2>1, <3>1 DEF MinedOK, GenesisBlock
      <4> QED
        BY <4>1 DEF ToSet
    <3> QED
      BY <3>1
  <2>3. Fits(M, h)
    BY <2>2 DEF StoredOK
  <2>4. M[p].height < M[h].height
    BY <1>2, <2>1, <2>3, HigherThanParents
  <2> QED
    BY <2>1, <2>4
<1> HIDE DEF rank
<1>5. t.cache = s.cache
  BY <1>1, <1>3, <1>4, CoherentOnce
<1> QED
  BY <1>1, <1>5

\* The data of a node that read genesis are those that would be computed now, if
\* no block was lost or none was read.
LEMMA StartCoherent ==
    ASSUME MinedOK(mined), NEW s, Runs(mined, s), NEW failed, "genesis" \notin failed,
           NEW t, t = Starts(s, failed), s.lost = {} \/ "blocks" \in failed
    PROVE  Coherent(t.store, t.cache)
<1> DEFINE n == Cardinality(Read(s, failed))
           q == Loaded(s, failed)
<1>1. StoredOK(mined, s) /\ HistoryOK(mined, s) /\ s.connects \in Nat
  BY DEF Runs, GateOK
<1>2. Stage(t, q, n) /\ t.lost = s.lost
  BY <1>1, StartsFrom
<1>3. InSequence(q, n)
  <2>1. CASE "blocks" \in failed
    <3>1. n = 0
      BY <2>1, FS_EmptySet DEF Read
    <3> QED
      BY <3>1 DEF InSequence
  <2>2. CASE s.lost = {}
    <3>1. HistoryOK(mined, t)
      BY <1>1, RestartedOK DEF NodeOK, Runs
    <3>2. n \in Nat
      <4>1. IsFiniteSet(Read(s, failed))
        BY <1>1, LoadedLists DEF StoredOK
      <4> QED
        BY <4>1, FS_CardinalityType
    <3> HIDE DEF n, q
    <3> QED
      BY <1>2, <2>2, <3>1, <3>2, ReadInSequence
  <2> QED
    BY <2>1, <2>2
<1> HIDE DEF n, q
<1> QED
  BY <1>2, <1>3 DEF Stage

\* A node that read everything has the store and the data it had, if nothing was
\* lost and it had read everything before.
LEMMA RestartedSame ==
    ASSUME MinedOK(mined), NEW s, Runs(mined, s), s.lost = {}, ~s.misread,
           Coherent(s.store, s.cache), NEW failed, NEW t, t = Starts(s, failed), ~t.misread
    PROVE  t.store = s.store /\ t.cache = s.cache
<1>1. StoredOK(mined, s) /\ HistoryOK(mined, s) /\ s.connects \in Nat
  BY DEF Runs, GateOK
<1>2. t.saved = s.saved /\ t.lost = s.lost /\ t.misread = (failed \ {"recomputed"} # {})
  BY <1>1, StartsFrom
<1>3. "genesis" \notin failed
  <2> SUFFICES ASSUME "genesis" \in failed PROVE FALSE
    OBVIOUS
  <2>1. "genesis" \in failed \ {"recomputed"}
    OBVIOUS
  <2>2. failed \ {"recomputed"} = {}
    BY <1>2
  <2> QED
    BY <2>1, <2>2
<1>4. StoredOK(mined, t) /\ HistoryOK(mined, t)
  BY <1>1, RestartedOK DEF NodeOK, Runs
<1>5. Coherent(t.store, t.cache)
  BY <1>3, StartCoherent
<1>6. DOMAIN t.store = DOMAIN s.store
  BY <1>1, <1>2, <1>4 DEF HistoryOK
<1> QED
  BY <1>1, <1>4, <1>5, <1>6, DataOnce

\* A replay of genesis alone succeeds, and gives the ledger nodes start with.
LEMMA ReplayGenesis ==
    ASSUME NEW M, M[Genesis] = GenesisBlock, NEW q \in Seq({Genesis})
    PROVE  ReplayAll(M, {Genesis}, q) = [ok |-> TRUE, ledger |-> DefaultLedger]
<1> DEFINE n == Len(q)
           fresh == [ok |-> TRUE, ledger |-> DefaultLedger]
<1>1. n \in Nat /\ q \in [1..n -> {Genesis}]
  OBVIOUS
<1>2. Payload(GenesisBlock)
  BY AddrAssumption DEF Payload, GenesisBlock
<1>3. \A h \in {Genesis} : Payload(M[h])
  BY <1>2
<1> HIDE DEF n
<1>4. PICK r \in [0..n -> Results] : IsReplayRun(r, M, {Genesis}, q, n)
  BY <1>1, <1>3, ReplayAllRun
<1> HIDE DEF fresh
<1> DEFINE Q == {k \in Nat : k <= n => r[k] = fresh}
<1>5. 0 \in Q
  BY <1>4 DEF IsReplayRun, Fresh, fresh
<1>6. ASSUME NEW k \in Nat, k \in Q PROVE k + 1 \in Q
  <2> SUFFICES ASSUME k + 1 <= n PROVE r[k + 1] = fresh
    OBVIOUS
  <2>1. k + 1 \in 1..n /\ (k + 1) - 1 = k /\ k \in 0..n
    BY <1>1
  <2>2. r[k] = fresh
    BY <1>6, <2>1
  <2>3. r[k + 1] = ReplayOne(r[k], M, {Genesis}, q[k + 1]) /\ q[k + 1] = Genesis
    BY <1>1, <1>4, <2>1 DEF IsReplayRun
  <2>4. apply_block(DefaultLedger, M[Genesis]) = fresh
    <3> DEFINE b == M[Genesis]
               empty == b.txs = <<>> /\ b.coinbase = [miner |-> 0, dev |-> 0]
    <3>1. b.height = 0 /\ empty
      BY DEF GenesisBlock
    <3>2. apply_block(DefaultLedger, b) = [ok |-> empty, ledger |-> DefaultLedger]
      BY <3>1 DEF apply_block
    <3> HIDE DEF b
    <3>3. empty = TRUE
      BY <3>1
    <3> HIDE DEF empty
    <3> QED
      BY <3>2, <3>3 DEF b, fresh
  <2>5. ReplayOne(fresh, M, {Genesis}, Genesis) = apply_block(DefaultLedger, M[Genesis])
    BY DEF ReplayOne, fresh
  <2> QED
    BY <2>2, <2>3, <2>4, <2>5
<1>7. n \in Q
  <2> HIDE DEF Q
  <2> QED
    BY <1>1, <1>5, <1>6, NatSetInduction
<1>8. n <= n /\ r[n] = fresh
  BY <1>1, <1>7
<1> QED
  BY <1>4, <1>8 DEF IsReplayRun, fresh

\* A node with nothing but genesis replays it.
LEMMA GenesisReplays ==
    ASSUME NEW M, MinedOK(M), NEW s, StoredOK(M, s), DOMAIN s.store = {Genesis},
           Coherent(s.store, s.cache)
    PROVE  Recomputed(M, s) = [ok |-> TRUE, ledger |-> DefaultLedger]
<1> DEFINE D == {Genesis}
           q == get_linear_sort(s.cache, Tip(s))
<1>1. Recomputed(M, s) = ReplayAll(M, D, q)
  BY DEF Recomputed, recompute_ledger
<1>2. q \in Seq(D)
  <2>1. Tip(s) \in D
    BY TipIsStored DEF Tip
  <2>2. s.cache \in [D -> DataOver(D)]
    BY DEF Coherent
  <2>3. IsFiniteSet(D) /\ D \subseteq Nat
    BY FS_Singleton DEF Genesis
  <2>4. PICK n \in Nat : q \in [1..n -> D]
    <3> HIDE DEF D
    <3>1. D \in SUBSET D
      OBVIOUS
    <3> QED
      BY <2>1, <2>2, <2>3, <3>1, SortIsList
  <2> QED
    BY <2>4
<1>3. M[Genesis] = GenesisBlock
  BY DEF MinedOK
<1> HIDE DEF q
<1> QED
  BY <1>1, <1>2, <1>3, ReplayGenesis

\* The target a restart takes from the last block of history.
LEMMA LastTarget ==
    ASSUME NEW M, MinedOK(M), SoundBlocks(M), NEW s, StoredOK(M, s), s.history # <<>>
    PROVE  M[Last(s.history)].target \in Targets
<1> DEFINE w == s.history
<1>1. w \in Seq(DOMAIN s.store) /\ w # <<>> /\ DOMAIN s.store \subseteq DOMAIN M
  BY DEF StoredOK
<1> HIDE DEF w
<1>2. Len(w) \in Nat \ {0}
  BY <1>1
<1>3. w[Len(w)] \in DOMAIN M
  BY <1>1, <1>2
<1> QED
  BY <1>3 DEF w, Last, SoundBlocks

\* A restart that reads genesis leaves the ledgers right.
LEMMA MoneyReplayed ==
    ASSUME MinedOK(mined), SoundBlocks(mined), NEW s, Runs(mined, s), DiskOK(mined, s),
           NEW failed \in SUBSET {"state", "genesis", "blocks", "recomputed"},
           "genesis" \notin failed, NEW t, t = Starts(s, failed),
           NEW r, r = Recomputed(mined, t)
    PROVE  /\ Money(mined, t)
           /\ t.ledger = (IF r.ok THEN r.ledger ELSE persisted(s, failed))
           /\ t.phantom = (/\ ~r.ok /\ "state" \notin failed
                           /\ s.disk_phantom \/ s.lost # {})
<1> DEFINE n == Cardinality(Read(s, failed))
           q == Loaded(s, failed)
           D == DOMAIN t.store
           saved == r.ok /\ "recomputed" \notin failed
<1>1. StoredOK(mined, s) /\ HistoryOK(mined, s) /\ s.connects \in Nat
  BY DEF Runs, GateOK
<1>2. /\ t.saved = s.saved /\ t.lost = s.lost
      /\ t.misread = (failed \ {"recomputed"} # {}) /\ Stage(t, q, n)
  BY <1>1, StartsFrom
<1>3. StoredOK(mined, t) /\ HistoryOK(mined, t)
  BY <1>1, RestartedOK DEF NodeOK, Runs
<1>4. t = Restarted(s, failed)
  BY DEF Starts
<1>5. /\ t.ledger = (IF r.ok THEN r.ledger ELSE persisted(s, failed))
      /\ t.disk = (IF saved THEN r.ledger ELSE s.disk)
      /\ t.phantom = (/\ ~r.ok /\ "state" \notin failed
                      /\ s.disk_phantom \/ s.lost # {})
      /\ t.disk_phantom = (s.disk_phantom /\ ~saved)
      /\ t.target = mined[Last(t.history)].target
  <2>1. Restores(s, failed, t, r)
    BY <1>1, <1>4, RestartedIs
  <2> HIDE DEF n, q, D
  <2> QED
    BY <2>1 DEF Restores
<1>6. Genesis \in D /\ t.history # <<>>
  <2>1. n \in Nat
    <3>1. IsFiniteSet(Read(s, failed))
      BY <1>1, LoadedLists DEF StoredOK
    <3> QED
      BY <3>1, FS_CardinalityType
  <2> HIDE DEF n, q
  <2>2. DOMAIN t.history = 1..(n + 1)
    BY <1>2 DEF Stage
  <2>3. t.history # <<>>
    <3>1. 1 \in DOMAIN t.history
      BY <2>1, <2>2
    <3> QED
      BY <3>1
  <2>4. D = UpTo(q, n)
    BY <1>2 DEF Stage
  <2> QED
    BY <2>3, <2>4 DEF UpTo
<1>7. r \in Results /\ BackedBy(r.ledger, mined, D)
  BY <1>3, <1>6, RecomputedIs
<1>8. /\ IsFiniteSet(D) /\ Payloads(mined, D)
      /\ IsFiniteSet(s.saved) /\ Payloads(mined, s.saved)
  <2>1. D \subseteq DOMAIN mined /\ s.saved \subseteq DOMAIN mined /\ DOMAIN mined \subseteq H
    BY <1>1, <1>3 DEF StoredOK, MinedOK
  <2> QED
    BY <2>1, HashesFinite, FS_Subset DEF Payloads, SoundBlocks
<1> HIDE DEF n, q
<1>9. r.ok \in BOOLEAN /\ r.ledger \in Ledgers /\ s.disk \in Ledgers
      /\ persisted(s, failed) \in Ledgers
  BY <1>7, DefaultType DEF Results, DiskOK, persisted
<1>10. t.ledger \in Ledgers /\ t.disk \in Ledgers
  BY <1>5, <1>9
<1>11. t.target \in Targets
  BY <1>3, <1>5, <1>6, LastTarget
<1>12. ASSUME ~t.phantom PROVE BackedBy(t.ledger, mined, D)
  <2>1. CASE r.ok
    BY <1>5, <1>7, <2>1
  <2>2. CASE ~r.ok /\ "state" \in failed
    <3>1. t.ledger = DefaultLedger
      BY <1>5, <2>2 DEF persisted
    <3> QED
      BY <1>8, <3>1, DefaultBacked
  <2>3. CASE ~r.ok /\ "state" \notin failed
    <3>1. t.ledger = s.disk /\ ~s.disk_phantom /\ s.lost = {}
      BY <1>5, <1>12, <2>3 DEF persisted
    <3>2. BackedBy(s.disk, mined, s.saved)
      BY <3>1 DEF DiskOK
    <3>3. CASE "blocks" \in failed
      <4>1. Coherent(t.store, t.cache)
        BY <3>3, StartCoherent
      <4>2. D = {Genesis}
        <5>1. n = 0
          BY <3>3, FS_EmptySet DEF Read, n
        <5> QED
          BY <1>2, <5>1 DEF Stage, UpTo
      <4> QED
        BY <1>3, <2>3, <4>1, <4>2, GenesisReplays
    <3>4. CASE "blocks" \notin failed
      <4>1. failed \ {"recomputed"} = {}
        BY <2>3, <3>4
      <4>2. t.saved = D
        BY <1>2, <1>3, <3>1, <4>1 DEF HistoryOK
      <4> QED
        BY <1>2, <3>1, <3>2, <4>2
    <3> QED
      BY <3>3, <3>4
  <2> QED
    BY <2>1, <2>2, <2>3
<1>13. DiskOK(mined, t)
  <2>1. ASSUME t.lost = {}, ~t.disk_phantom PROVE BackedBy(t.disk, mined, t.saved)
    <3>1. CASE saved
      <4>1. D \in SUBSET s.saved
        BY <1>2, <1>3, <2>1 DEF HistoryOK
      <4> QED
        BY <1>2, <1>5, <1>7, <1>8, <1>9, <3>1, <4>1, BackedMore
    <3>2. CASE ~saved
      BY <1>2, <1>5, <2>1, <3>2 DEF DiskOK
    <3> QED
      BY <3>1, <3>2
  <2>2. t.disk_phantom \in BOOLEAN
    BY <1>5, Zenon
  <2> QED
    BY <1>10, <2>1, <2>2 DEF DiskOK
<1>14. ASSUME t.lost = {} PROVE Coherent(t.store, t.cache)
  BY <1>2, <1>14, StartCoherent
<1>15. ASSUME ~t.misread PROVE Follows(mined, t)
  <2>1. "state" \notin failed
    <3> SUFFICES ASSUME "state" \in failed PROVE FALSE
      OBVIOUS
    <3>1. "state" \in failed \ {"recomputed"}
      OBVIOUS
    <3> QED
      BY <1>2, <1>15, <3>1
  <2> QED
    BY <1>5, <2>1 DEF Follows, persisted
<1>16. t.phantom \in BOOLEAN
  BY <1>5, Zenon
<1> QED
  BY <1>5, <1>10, <1>11, <1>12, <1>13, <1>14, <1>15, <1>16 DEF Money

\* One that does not read it starts with the ledger nodes start with.
LEMMA MoneyEmpty ==
    ASSUME MinedOK(mined), SoundBlocks(mined), NEW s, Runs(mined, s), DiskOK(mined, s),
           NEW failed, "genesis" \in failed, NEW t, t = Starts(s, failed)
    PROVE  Money(mined, t)
<1> DEFINE b == Resumed(s, failed)
           e == [h \in {} |-> <<>>]
<1>1. StoredOK(mined, s) /\ HistoryOK(mined, s)
  BY DEF Runs
<1>2. t.store = e /\ Differs(b, t, {"store", "cache", "history"})
  BY <1>1, StartsFrom
<1>3. /\ Differs(NewNode, b, {"saved", "disk", "lost", "disk_phantom", "misread",
                              "unpublished", "disk_errors", "connects", "restarts"})
      /\ b.saved = s.saved /\ b.lost = s.lost /\ b.disk = s.disk
      /\ b.disk_phantom = s.disk_phantom /\ b.misread = (failed \ {"recomputed"} # {})
  BY ResumedIs
<1>4. NewNode.ledger = DefaultLedger /\ NewNode.target = InitialTarget /\ NewNode.phantom = FALSE
  BY DEF NewNode
<1>5. DOMAIN e = {}
  OBVIOUS
<1>6. "genesis" \in failed \ {"recomputed"}
  OBVIOUS
<1> HIDE DEF b, e
<1>7. /\ t.saved = s.saved /\ t.lost = s.lost /\ t.disk = s.disk
      /\ t.disk_phantom = s.disk_phantom /\ t.misread
      /\ t.ledger = DefaultLedger /\ t.target = InitialTarget /\ t.phantom = FALSE
  BY <1>2, <1>3, <1>4, <1>6 DEF Differs, Fields
<1>8. InitialTarget \in Targets
  BY NodeAssumption DEF InitialTarget, Targets
<1>9. BackedBy(t.ledger, mined, DOMAIN t.store)
  BY <1>2, <1>5, <1>7, FS_EmptySet, DefaultBacked DEF Payloads
<1>10. DiskOK(mined, t)
  BY <1>7 DEF DiskOK
<1> QED
  BY <1>7, <1>8, <1>9, <1>10, DefaultType DEF Money

\* However a node starts its ledgers are right; and the ledger it finds is the one
\* there was, if all was read.
LEMMA MoneyRestarted ==
    ASSUME MinedOK(mined), SoundBlocks(mined), NEW s, Runs(mined, s), DiskOK(mined, s),
           s.restarts \in Nat, NEW failed \in SUBSET {"state", "genesis", "blocks", "recomputed"},
           NEW t, t = Starts(s, failed), NEW r, r = Recomputed(mined, t)
    PROVE  /\ Money(mined, t) /\ Pools(t) /\ t.restarts = s.restarts + 1
           /\ ~t.misread =>
                 /\ t.ledger = (IF r.ok THEN r.ledger ELSE s.disk)
                 /\ ~t.phantom => r.ok \/ (~s.disk_phantom /\ s.lost = {})
<1>1. StoredOK(mined, s) /\ HistoryOK(mined, s)
  BY DEF Runs
<1>2. /\ Differs(NewNode, t, {"store", "cache", "history", "saved", "disk", "lost",
                              "disk_phantom", "misread", "unpublished", "disk_errors",
                              "connects", "restarts", "ledger", "phantom", "target"})
      /\ t.misread = (failed \ {"recomputed"} # {}) /\ t.restarts = s.restarts + 1
  BY <1>1, StartsFrom
<1>3. Pools(t)
  <2>1. t.mempool = {} /\ t.blamed = {}
    BY <1>2 DEF Differs, Fields, NewNode
  <2> QED
    BY <1>2, <2>1, FS_EmptySet DEF Pools
<1>4. CASE "genesis" \in failed
  <2>1. "genesis" \in failed \ {"recomputed"}
    BY <1>4
  <2>2. t.misread
    BY <1>2, <2>1
  <2> QED
    BY <1>2, <1>3, <1>4, <2>2, MoneyEmpty
<1>5. CASE "genesis" \notin failed
  <2>1. /\ Money(mined, t)
        /\ t.ledger = (IF r.ok THEN r.ledger ELSE persisted(s, failed))
        /\ t.phantom = (/\ ~r.ok /\ "state" \notin failed
                        /\ s.disk_phantom \/ s.lost # {})
    BY <1>5, MoneyReplayed
  <2>2. ASSUME ~t.misread PROVE "state" \notin failed
    <3> SUFFICES ASSUME "state" \in failed PROVE FALSE
      OBVIOUS
    <3>1. "state" \in failed \ {"recomputed"}
      OBVIOUS
    <3> QED
      BY <1>2, <2>2, <3>1
  <2> QED
    BY <1>2, <1>3, <2>1, <2>2 DEF persisted
<1> QED
  BY <1>4, <1>5

-----------------------------------------------------------------------------
(* The steps keep the ledgers right. *)

\* A restart from s to t gives the ledger back.
Kept(s, t) ==
    /\ t.restarts > s.restarts
    /\ s.lost = {} /\ ~s.phantom /\ ~t.phantom
    /\ ~s.misread /\ ~t.misread
    => t.ledger = s.ledger
KeepsMoney == Rich' /\ \A m \in Nodes : Kept(node[m], node'[m])

\* A step of node n, which takes it to v.
LEMMA LocalMoney ==
    ASSUME Inv, Rich, NEW n \in Nodes, NEW v, Money(mined, v), Pools(v), Kept(node[n], v),
           node' = [node EXCEPT ![n] = v], UNCHANGED <<mined, now>>
    PROVE  KeepsMoney
<1>1. node'[n] = v /\ \A m \in Nodes : m # n => node'[m] = node[m]
  BY DEF Inv
<1>2. Rich'
  BY <1>1 DEF Rich
<1>3. ASSUME NEW m \in Nodes PROVE Kept(node[m], node'[m])
  <2>1. CASE m = n
    BY <1>1, <2>1
  <2>2. CASE m # n
    <3>1. node'[m] = node[m] /\ node[m].restarts \in Nat
      BY <1>1, <2>2 DEF Rich, Pools
    <3> QED
      BY <3>1 DEF Kept
  <2> QED
    BY <2>1, <2>2
<1> QED
  BY <1>2, <1>3 DEF KeepsMoney

\* A step that does not concern the ledgers, and is no restart.
LEMMA QuietMoney ==
    ASSUME Inv, Rich, NEW n \in Nodes, NEW v, NEW F, Differs(node[n], v, F),
           F \cap {"store", "cache", "ledger", "disk", "saved", "target", "phantom",
                   "disk_phantom", "misread", "lost", "mempool", "blamed", "restarts"} = {},
           node' = [node EXCEPT ![n] = v], UNCHANGED <<mined, now>>
    PROVE  KeepsMoney
<1> DEFINE s == node[n]
<1>1. Money(mined, s) /\ Pools(s)
  BY DEF Rich
<1> HIDE DEF s
<1>2. Differs(s, v, F)
  BY DEF s
<1>3. Money(mined, v)
  BY <1>1, <1>2, MoneyKept
<1>4. Pools(v)
  BY <1>1, <1>2, PoolsKept
<1>5. v.restarts = s.restarts /\ s.restarts \in Nat
  BY <1>1, <1>2 DEF Differs, Fields, Pools
<1>6. Kept(s, v)
  BY <1>5 DEF Kept
<1> QED
  BY <1>3, <1>4, <1>6, LocalMoney DEF s

\* A call returns with the node in state s.
LEMMA ReturnMoney ==
    ASSUME Inv, Rich, NEW n \in Nodes, NEW s, IsNode(s), Money(mined, s), Pools(s),
           s.restarts = node[n].restarts, Return(n, s)
    PROVE  KeepsMoney
<1> DEFINE u == GateOpened([s EXCEPT !.answering = FALSE])
           v == IF s.todo = <<>> /\ s.answering THEN u ELSE s
<1>1. node' = [node EXCEPT ![n] = v] /\ UNCHANGED <<mined, now>>
  BY DEF Return
<1>2. Differs(s, u, {"answering", "sync_pending", "abandoned"})
  BY DEF GateOpened, Differs, IsNode, Fields
<1> HIDE DEF u
<1>3. Money(mined, u)
  BY <1>2, MoneyKept
<1>4. Pools(u)
  BY <1>2, PoolsKept
<1>5. u.restarts = s.restarts
  BY <1>2 DEF Differs, Fields
<1>6. Money(mined, v) /\ Pools(v) /\ v.restarts = node[n].restarts
  BY <1>3, <1>4, <1>5
<1> HIDE DEF v
<1>7. Kept(node[n], v)
  <2>1. node[n].restarts \in Nat
    BY DEF Rich, Pools
  <2> QED
    BY <1>6, <2>1 DEF Kept
<1> QED
  BY <1>1, <1>6, <1>7, LocalMoney

\* The calls of validate_and_ingest.
LEMMA ProcessMoney == ASSUME Inv, Rich, NEW n \in Nodes, Process(n) PROVE KeepsMoney
<1> DEFINE s == Popped(n)
           h == Call(n).hash
<1>0. Pending(n)
  BY DEF Process, AlreadyKnown, RejectBlock, BufferOrphan, AcceptBlock, LedgerNotSaved, ReadError
<1>1. /\ Runs(mined, s) /\ Differs(node[n], s, {"todo"})
      /\ Call(n) \in CallsOf(mined) /\ IsNode(node[n])
      /\ s.store = node[n].store /\ s.saved = node[n].saved
      /\ h \in DOMAIN mined /\ h # Genesis
  BY <1>0, Calling
<1>2. MinedOK(mined) /\ StoredOK(mined, node[n]) /\ SoundBlocks(mined) /\ Payload(mined[h])
  BY <1>1 DEF Inv, NodeOK, Runs, Rich, SoundBlocks
<1>3. IsNode(s)
  BY <1>1 DEF Runs
<1>4. Money(mined, s) /\ Pools(s) /\ s.restarts = node[n].restarts
  <2> DEFINE u == node[n]
  <2>1. Money(mined, u) /\ Pools(u)
    BY DEF Rich
  <2> HIDE DEF u, s
  <2>2. Differs(u, s, {"todo"})
    BY <1>1 DEF u
  <2>3. Money(mined, s)
    BY <2>1, <2>2, MoneyKept
  <2>4. Pools(s)
    BY <2>1, <2>2, PoolsKept
  <2>5. s.restarts = u.restarts
    BY <2>2 DEF Differs, Fields
  <2> QED
    BY <2>3, <2>4, <2>5 DEF u
<1>5. CASE AlreadyKnown(n)
  <2>1. Return(n, s)
    BY <1>5 DEF AlreadyKnown
  <2> HIDE DEF s
  <2> QED
    BY <1>3, <1>4, <2>1, ReturnMoney
<1>6. CASE RejectBlock(n)
  <2> DEFINE v == [s EXCEPT !.blamed = @ \cup {Call(n).source}]
  <2>1. Return(n, v)
    BY <1>6 DEF RejectBlock
  <2> HIDE DEF s
  <2>2. Differs(s, v, {"blamed"}) /\ v.blamed = s.blamed \cup {Call(n).source}
    BY <1>3 DEF Differs, IsNode, Fields
  <2> HIDE DEF v
  <2>3. Money(mined, v)
    BY <1>4, <2>2, MoneyKept
  <2>4. v.mempool = s.mempool /\ v.restarts = s.restarts /\ IsNode(v)
    BY <2>2 DEF Differs, Fields
  <2>5. Call(n).source \in Nodes \cup {Stranger}
    BY <1>1 DEF CallsOf
  <2>6. Pools(v)
    BY <1>4, <2>2, <2>4, <2>5 DEF Pools
  <2> QED
    BY <1>4, <2>1, <2>3, <2>4, <2>6, ReturnMoney
<1>7. CASE BufferOrphan(n)
  <2> DEFINE p == FirstMissing(node[n], mined[h])
             v == InsertOrphan(s, p, Call(n))
  <2>1. Return(n, v)
    BY <1>7 DEF BufferOrphan
  <2> HIDE DEF s, p
  <2>2. Differs(s, v, {"waiting_on", "current_size"})
    BY <1>3 DEF InsertOrphan, Differs, IsNode, Fields
  <2> HIDE DEF v
  <2>3. Money(mined, v)
    BY <1>4, <2>2, MoneyKept
  <2>4. Pools(v)
    BY <1>4, <2>2, PoolsKept
  <2>5. v.restarts = s.restarts /\ IsNode(v)
    BY <2>2 DEF Differs, Fields
  <2> QED
    BY <1>4, <2>1, <2>3, <2>4, <2>5, ReturnMoney
<1>8. CASE AcceptBlock(n)
  <2>1. Accepts(n, h)
    BY <1>8 DEF AcceptBlock
  <2>2. PICK failed \in Failures(n) :
           Return(n, TakeReady(AfterIngest(mined,
                        ingest_block_only(Applied(s, mined[h]), h, mined[h], failed), failed), h))
    BY <1>8 DEF AcceptBlock
  <2> DEFINE i == ingest_block_only(Applied(s, mined[h]), h, mined[h], failed)
             r == AfterIngest(mined, i, failed)
             v == TakeReady(r, h)
  <2>3. Return(n, v)
    BY <2>2
  <2>4. Fits(mined, h) /\ Enterable(s, mined[h]) /\ h \notin s.saved
    <3>1. Enterable(node[n], mined[h]) /\ Fits(mined, h)
      BY <1>1, <1>2, <2>1, AcceptedFits DEF Accepts
    <3> QED
      BY <1>1, <2>1, <3>1 DEF Accepts, Enterable
  <2> HIDE DEF s, h
  <2>5. Money(mined, r) /\ Pools(r)
    BY <1>1, <1>2, <1>4, <2>4, MoneyIngested
  <2>6. IsNode(r) /\ r.restarts = s.restarts
    <3> DEFINE a == Applied(s, mined[h])
    <3>1. Differs(s, a, {"ledger", "disk", "disk_phantom"})
      BY <1>3, AppliedIs
    <3>2. i = ingest_block_only(a, h, mined[h], failed)
      OBVIOUS
    <3> HIDE DEF a, i
    <3>3. IsNode(a)
      BY <3>1 DEF Differs
    <3>4. Differs(a, i, {"store", "cache", "history", "saved", "lost", "phantom",
                       "disk_phantom", "disk_errors"})
      BY <3>2, <3>3, IngestKeeps
    <3>5. IsNode(i)
      BY <3>4 DEF Differs
    <3>6. Differs(i, r, {"ledger", "disk", "phantom", "disk_phantom", "target"})
      BY <3>5, AfterIngestKeeps
    <3> HIDE DEF r
    <3> QED
      BY <3>1, <3>4, <3>6 DEF Differs, Fields
  <2> HIDE DEF r
  <2>7. Differs(r, v, {"waiting_on", "current_size", "todo"})
    BY <2>6 DEF TakeReady, Differs, IsNode, Fields
  <2> HIDE DEF v
  <2>8. Money(mined, v)
    BY <2>5, <2>7, MoneyKept
  <2>9. Pools(v)
    BY <2>5, <2>7, PoolsKept
  <2>10. v.restarts = r.restarts /\ IsNode(v)
    BY <2>7 DEF Differs, Fields
  <2> QED
    BY <1>4, <2>3, <2>6, <2>8, <2>9, <2>10, ReturnMoney
<1>9. CASE LedgerNotSaved(n)
  <2> DEFINE l == apply_block(s.ledger, mined[h]).ledger
             v == [s EXCEPT !.ledger = l, !.phantom = TRUE, !.disk_errors = @ + 1]
  <2>1. Return(n, v)
    BY <1>9 DEF LedgerNotSaved
  <2> HIDE DEF s
  <2>2. l \in Ledgers
    BY <1>2, <1>4, AppliedLedger DEF Money
  <2> HIDE DEF l
  <2>3. Differs(s, v, {"ledger", "phantom", "disk_errors"}) /\ v.ledger = l /\ v.phantom = TRUE
    BY <1>3 DEF Differs, IsNode, Fields
  <2> HIDE DEF v
  <2>4. v.restarts = s.restarts /\ IsNode(v)
    BY <2>3 DEF Differs, Fields
  <2>5. Money(mined, v)
    BY <1>4, <2>2, <2>3, MoneyPhantom
  <2>6. Pools(v)
    BY <1>4, <2>3, PoolsKept
  <2> QED
    BY <1>4, <2>1, <2>4, <2>5, <2>6, ReturnMoney
<1>10. CASE ReadError(n)
  <2> DEFINE u == node[n]
             v == [u EXCEPT !.todo = <<>>, !.answering = FALSE,
                            !.abandoned = node[n].answering \/ @, !.disk_errors = @ + 1]
  <2>1. node' = [node EXCEPT ![n] = v] /\ UNCHANGED <<mined, net, now>>
    BY <1>10 DEF ReadError, Inv
  <2>2. Differs(u, v, {"todo", "answering", "abandoned", "disk_errors"})
    BY <1>1 DEF Differs, IsNode, Fields
  <2> HIDE DEF v
  <2> QED
    BY <2>1, <2>2, QuietMoney
<1> QED
  BY <1>5, <1>6, <1>7, <1>8, <1>9, <1>10 DEF Process

\* A batch lists transactions of the mempool, which is left with the others.
LEMMA BatchIs ==
    ASSUME NEW s, IsNode(s), Pools(s), NEW batch \in Batches(s)
    PROVE  /\ batch \in Seq(Txs)
           /\ Differs(s, Drained(s, batch), {"mempool"}) /\ Pools(Drained(s, batch))
<1> DEFINE d == Drained(s, batch)
<1>1. PICK S \in SUBSET s.mempool : batch \in SetToSeqs(S)
  BY DEF Batches, kSubset
<1>2. IsFiniteSet(S) /\ S \subseteq Txs
  BY FS_Subset DEF Pools
<1>3. batch \in Seq(S)
  BY <1>1, <1>2, OrdersAre
<1>4. batch \in Seq(Txs)
  BY <1>2, <1>3
<1>5. Differs(s, d, {"mempool"}) /\ d.mempool = s.mempool \ ToSet(batch)
  BY DEF Drained, Differs, IsNode, Fields
<1> HIDE DEF d
<1>6. d.blamed = s.blamed /\ d.restarts = s.restarts
  BY <1>5 DEF Differs, Fields
<1>7. Pools(d)
  BY <1>5, <1>6, FS_Subset DEF Pools
<1> QED
  BY <1>4, <1>5, <1>7 DEF d

\* The block of a mining tick has a payload, a time and a target.
LEMMA TemplateSound ==
    ASSUME Inv, Rich, NEW n \in Nodes, NEW batch \in Batches(node[n]),
           NEW b, b = Template(node[n], n, batch)
    PROVE  Payload(b) /\ b.time \in Nat /\ b.target \in Targets
<1> DEFINE s == node[n]
           tip == IF DOMAIN s.store = {} THEN Genesis ELSE Tip(s)
           x == 1 + mined[tip].height
           txs == select_affordable(s.ledger, batch, MinerOf[n])
<1>1. MinedOK(mined) /\ StoredOK(mined, s) /\ Money(mined, s) /\ Pools(s) /\ now \in Nat
  BY NodeAssumption DEF Inv, NodeOK, Runs, Rich
<1>2. b = [parents |-> <<tip>>, height |-> x, target |-> s.target, time |-> now,
           miner |-> MinerOf[n], dev |-> DEV_TREASURY_ADDRESS,
           coinbase |-> calculate_subsidy_split(x), txs |-> txs, fault |-> "none"]
  BY DEF Template, Tip
<1>3. x \in Nat
  <2>1. tip \in DOMAIN mined
    <3>1. DOMAIN s.store # {} => Tip(s) \in DOMAIN s.store
      BY <1>1, TipIsStored DEF Tip
    <3> QED
      BY <1>1, <3>1 DEF StoredOK, MinedOK
  <2> QED
    BY <1>1, <2>1 DEF MinedOK
<1>4. MinerOf[n] \in Addr
  BY NodeAssumption
<1>5. txs \in Seq(Txs)
  <2>1. IsNode(s)
    BY DEF Inv, NodeOK, Runs
  <2>2. batch \in Seq(Txs)
    BY <1>1, <2>1, BatchIs
  <2>3. s.ledger \in Ledgers
    BY <1>1 DEF Money
  <2> HIDE DEF s
  <2> QED
    BY <1>4, <2>2, <2>3, SelectedType
<1> HIDE DEF x, txs, tip, s
<1>6. calculate_subsidy_split(x) \in [miner : Nat, dev : Nat]
  BY <1>3, SubsidyType
<1> DEFINE c == calculate_subsidy_split(x)
<1>7. c.miner \in Nat /\ c.dev \in Nat
  BY <1>6
<1> HIDE DEF c
<1>8. /\ b.miner = MinerOf[n] /\ b.coinbase = c /\ b.txs = txs /\ b.time = now
      /\ b.target = s.target
  BY <1>2 DEF c
<1> QED
  BY <1>1, <1>4, <1>5, <1>7, <1>8 DEF Payload, Money

\* The mining tick.
LEMMA MineMoney == ASSUME Inv, Rich, NEW n \in Nodes, NEW h \in Hashes, Mine(n, h) PROVE KeepsMoney
<1> DEFINE s == node[n]
<1>1. /\ MinedOK(mined) /\ Runs(mined, s) /\ IsNode(s) /\ StoredOK(mined, s)
      /\ h \notin DOMAIN mined
      /\ SoundBlocks(mined) /\ Money(mined, s) /\ Pools(s) /\ s.restarts \in Nat
  BY DEF Inv, NodeOK, Runs, StoredOK, Mine, Rich, Pools
<1>2. PICK batch \in Batches(s), failed \in Failures(n) :
          LET b == Template(s, n, batch)
              d == Drained(s, batch)
              i == ingest_block_only(Applied(d, b), h, b, failed)
          IN  IF apply_block(s.ledger, b).ok
              THEN /\ mined' = Extend(mined, h, b)
                   /\ node' = [node EXCEPT ![n] =
                         [AfterIngest(mined', i, failed) EXCEPT !.unpublished =
                             IF "block" \in failed THEN @ \cup {h} ELSE @]]
              ELSE /\ node' = [node EXCEPT ![n] = d]
                   /\ UNCHANGED mined
  BY DEF Mine
<1>3. UNCHANGED now
  BY DEF Mine
<1> DEFINE d == Drained(s, batch)
<1>4. Differs(s, d, {"mempool"}) /\ Pools(d)
  BY <1>1, BatchIs
<1> DEFINE b == Template(s, n, batch)
           a == Applied(d, b)
           i == ingest_block_only(a, h, b, failed)
           r == AfterIngest(mined', i, failed)
           v == [r EXCEPT !.unpublished = IF "block" \in failed THEN @ \cup {h} ELSE @]
<1>5. d.blamed = s.blamed /\ d.restarts = s.restarts /\ d.store = s.store /\ d.saved = s.saved
      /\ IsNode(d)
  BY <1>4 DEF Differs, Fields
<1>6. CASE ~apply_block(s.ledger, b).ok
  <2>1. node' = [node EXCEPT ![n] = d] /\ UNCHANGED mined
    BY <1>2, <1>6
  <2> HIDE DEF d
  <2>2. Money(mined, d)
    BY <1>1, <1>4, MoneyKept
  <2>3. Kept(node[n], d)
    BY <1>1, <1>5 DEF Kept
  <2> QED
    BY <1>3, <1>4, <2>1, <2>2, <2>3, LocalMoney
<1>7. CASE apply_block(s.ledger, b).ok
  <2> DEFINE N == mined'
  <2>1. N = Extend(mined, h, b) /\ node' = [node EXCEPT ![n] = v]
    BY <1>2, <1>7
  <2>2. /\ MinedOK(N) /\ Fits(N, h) /\ N[h] = b /\ h # Genesis
        /\ Enterable(s, b) /\ h \notin s.saved
    <3>1. b = Template(s, n, batch)
      OBVIOUS
    <3> HIDE DEF b, a, i, r, v, N, d, s
    <3> QED
      BY <1>1, <2>1, <3>1, TemplateFits
  <2>3. Payload(b) /\ b.time \in Nat /\ b.target \in Targets
    BY TemplateSound
  <2> HIDE DEF d, b, N
  <2>4. h \in DOMAIN N /\ SoundBlocks(N)
    BY <1>1, <2>1, <2>3 DEF Extend, SoundBlocks
  <2>5. Money(N, s) /\ Runs(N, s)
    BY <1>1, <2>1, MoneyGrows, RunsGrow DEF Runs
  <2>6. Money(N, d)
    BY <1>4, <2>5, MoneyKept
  <2>7. Runs(N, d)
    BY <1>4, <2>5, IgnoredFields DEF Ignored
  <2>8. r = AfterIngest(N, ingest_block_only(Applied(d, N[h]), h, N[h], failed), failed)
    BY <2>2 DEF N
  <2>9. Money(N, r) /\ Pools(r)
    <3> HIDE DEF r
    <3>1. Enterable(d, N[h]) /\ h \notin d.saved
      BY <1>5, <2>2 DEF Enterable
    <3> QED
      BY <1>4, <2>2, <2>4, <2>6, <2>7, <2>8, <3>1, MoneyIngested
  <2>10. IsNode(r) /\ r.restarts = d.restarts
    <3>1. Differs(d, a, {"ledger", "disk", "disk_phantom"})
      BY <1>5, AppliedIs
    <3> HIDE DEF a
    <3>2. IsNode(a)
      BY <3>1 DEF Differs
    <3>3. Differs(a, i, {"store", "cache", "history", "saved", "lost", "phantom",
                       "disk_phantom", "disk_errors"})
      BY <3>2, IngestKeeps
    <3> HIDE DEF i
    <3>4. IsNode(i)
      BY <3>3 DEF Differs
    <3>5. Differs(i, r, {"ledger", "disk", "phantom", "disk_phantom", "target"})
      BY <3>4, AfterIngestKeeps
    <3> HIDE DEF r
    <3> QED
      BY <3>1, <3>3, <3>5 DEF Differs, Fields
  <2> HIDE DEF r
  <2>11. Differs(r, v, {"unpublished"})
    BY <2>10 DEF Differs, IsNode, Fields
  <2> HIDE DEF v
  <2>12. Money(N, v)
    BY <2>9, <2>11, MoneyKept
  <2>13. Pools(v)
    BY <2>9, <2>11, PoolsKept
  <2>14. v.restarts = s.restarts
    BY <1>5, <2>10, <2>11 DEF Differs, Fields
  <2>15. ASSUME NEW m \in Nodes
         PROVE  Money(N, node'[m]) /\ Pools(node'[m]) /\ Kept(node[m], node'[m])
    <3>1. CASE m = n
      <4>1. node'[m] = v
        BY <2>1, <3>1 DEF Inv
      <4>2. Kept(node[m], v)
        BY <1>1, <2>14, <3>1 DEF Kept
      <4> QED
        BY <2>12, <2>13, <4>1, <4>2
    <3>2. CASE m # n
      <4> DEFINE u == node[m]
      <4>1. node'[m] = u
        BY <2>1, <3>2 DEF Inv
      <4>2. Money(mined, u) /\ Pools(u) /\ StoredOK(mined, u) /\ HistoryOK(mined, u)
        BY DEF Rich, Inv, NodeOK, Runs
      <4> HIDE DEF u
      <4>3. Money(N, u)
        BY <1>1, <2>1, <4>2, MoneyGrows
      <4>4. Kept(u, u)
        BY <4>2 DEF Kept, Pools
      <4> QED
        BY <4>1, <4>2, <4>3, <4>4 DEF u
    <3> QED
      BY <3>1, <3>2
  <2> QED
    BY <1>3, <2>4, <2>15 DEF KeepsMoney, Rich, N
<1> QED
  BY <1>6, <1>7

\* The tick that cannot save, transactions, gossip and connections.
LEMMA EventMoney ==
    ASSUME Inv, Rich, NEW n \in Nodes,
           \/ MineNotSaved(n)
           \/ \E tx \in Txs : submit_transaction(n, tx)
           \/ \E m \in Nodes \cup {Stranger}, h \in AllHashes : Gossip(n, m, h)
           \/ \E m \in Nodes \cup {Stranger} : Connect(n, m)
    PROVE  KeepsMoney
<1> DEFINE s == node[n]
<1>1. IsNode(s) /\ node = [m \in Nodes |-> node[m]] /\ Money(mined, s) /\ Pools(s)
  BY DEF Inv, NodeOK, Runs, Rich
<1>2. CASE MineNotSaved(n)
  <2>1. PICK batch \in Batches(s) :
          node' = [node EXCEPT ![n] =
             [Drained(s, batch) EXCEPT
                       !.ledger = apply_block(s.ledger, Template(s, n, batch)).ledger,
                       !.phantom = TRUE, !.disk_errors = @ + 1]]
    BY <1>2 DEF MineNotSaved
  <2> DEFINE b == Template(s, n, batch)
             d == Drained(s, batch)
             l == apply_block(s.ledger, b).ledger
             v == [d EXCEPT !.ledger = l, !.phantom = TRUE, !.disk_errors = @ + 1]
  <2>2. node' = [node EXCEPT ![n] = v] /\ UNCHANGED <<mined, now>>
    BY <1>2, <2>1 DEF MineNotSaved
  <2>3. Payload(b)
    BY TemplateSound
  <2>4. l \in Ledgers
    <3> HIDE DEF b
    <3> QED
      BY <1>1, <2>3, AppliedLedger DEF Money
  <2>5. Differs(s, d, {"mempool"}) /\ Pools(d)
    BY <1>1, BatchIs
  <2> HIDE DEF l, b, d
  <2>6. /\ Differs(d, v, {"ledger", "phantom", "disk_errors"})
        /\ v.ledger = l /\ v.phantom = TRUE
    BY <2>5 DEF Differs, IsNode, Fields
  <2> HIDE DEF v
  <2>7. Money(mined, d)
    BY <1>1, <2>5, MoneyKept
  <2>8. Money(mined, v)
    BY <2>4, <2>6, <2>7, MoneyPhantom
  <2>9. Pools(v)
    BY <2>5, <2>6, PoolsKept
  <2>10. Kept(s, v)
    <3>1. v.restarts = s.restarts
      BY <2>5, <2>6 DEF Differs, Fields
    <3> QED
      BY <1>1, <3>1 DEF Pools, Kept
  <2> QED
    BY <2>2, <2>8, <2>9, <2>10, LocalMoney
<1>3. ASSUME NEW tx \in Txs, submit_transaction(n, tx) PROVE KeepsMoney
  <2> DEFINE v == [s EXCEPT !.mempool = @ \cup {tx}]
  <2>1. node' = [node EXCEPT ![n] = v] /\ UNCHANGED <<mined, now>>
    BY <1>1, <1>3 DEF submit_transaction
  <2>2. Differs(s, v, {"mempool"}) /\ v.mempool = s.mempool \cup {tx}
    BY <1>1 DEF Differs, IsNode, Fields
  <2> HIDE DEF v
  <2>3. Money(mined, v)
    BY <1>1, <2>2, MoneyKept
  <2>4. v.blamed = s.blamed /\ v.restarts = s.restarts
    BY <2>2 DEF Differs, Fields
  <2>5. IsFiniteSet(v.mempool) /\ v.mempool \subseteq Txs
    BY <1>1, <2>2, FS_AddElement DEF Pools
  <2>6. Pools(v) /\ Kept(s, v)
    BY <1>1, <2>4, <2>5 DEF Pools, Kept
  <2> QED
    BY <2>1, <2>3, <2>6, LocalMoney
<1>4. ASSUME NEW m \in Nodes \cup {Stranger}, NEW h \in AllHashes, Gossip(n, m, h) PROVE KeepsMoney
  <2> DEFINE v == [s EXCEPT !.todo = <<[source |-> m, hash |-> h]>>]
  <2>1. node' = [node EXCEPT ![n] = v] /\ UNCHANGED <<mined, now>>
    BY <1>1, <1>4 DEF Gossip
  <2>2. Differs(s, v, {"todo"})
    BY <1>1 DEF Differs, IsNode, Fields
  <2> HIDE DEF v
  <2> QED
    BY <2>1, <2>2, QuietMoney
<1>5. ASSUME NEW m \in Nodes \cup {Stranger}, Connect(n, m) PROVE KeepsMoney
  <2> DEFINE v == [s EXCEPT !.connects = @ + 1, !.sync_pending = TRUE]
  <2>1. node' = [node EXCEPT ![n] = v] /\ UNCHANGED <<mined, now>>
    BY <1>1, <1>5 DEF Connect
  <2>2. Differs(s, v, {"connects", "sync_pending"})
    BY <1>1 DEF Differs, IsNode, Fields
  <2> HIDE DEF v
  <2> QED
    BY <2>1, <2>2, QuietMoney
<1> QED
  BY <1>2, <1>3, <1>4, <1>5

\* The client's handling of an answer, or its failure.
LEMMA SettleMoney ==
    ASSUME Inv, Rich, NEW r \in net, HandleSync(r) \/ OutboundFailure(r)
    PROVE  KeepsMoney
<1> DEFINE n == r.client
           s == node[n]
           g == GateOpened(s)
           v == [s EXCEPT !.answering = TRUE,
                          !.todo = [i \in DOMAIN r.blocks |->
                                       [source |-> r.server, hash |-> r.blocks[i]]]]
<1>1. n \in Nodes /\ node = [m \in Nodes |-> node[m]]
  BY DEF Inv, NetOK, MessageOK, Messages
<1>2. IsNode(s) /\ UNCHANGED <<mined, now>>
  BY <1>1 DEF Inv, NodeOK, Runs, HandleSync, OutboundFailure
<1>3. node' = [node EXCEPT ![n] = g] \/ node' = [node EXCEPT ![n] = v]
  BY <1>1, SMTT(30) DEF HandleSync, OutboundFailure
<1>4. Differs(s, g, {"sync_pending", "abandoned"}) /\ Differs(s, v, {"answering", "todo"})
  BY <1>2 DEF GateOpened, Differs, IsNode, Fields
<1> HIDE DEF g, v, n
<1>5. CASE node' = [node EXCEPT ![n] = g]
  BY <1>1, <1>2, <1>4, <1>5, QuietMoney
<1>6. CASE node' = [node EXCEPT ![n] = v]
  BY <1>1, <1>2, <1>4, <1>6, QuietMoney
<1> QED
  BY <1>3, <1>5, <1>6

\* A restart from a disk like the node's, or from one to which a block was
\* applied that is not there.
LEMMA RestartFromMoney ==
    ASSUME Inv, Rich, NEW n \in Nodes, NEW s, s = node[n] \/ s.disk_phantom = TRUE,
           NEW F, Differs(node[n], s, F), F \subseteq {"ledger", "disk", "disk_phantom"},
           DiskOK(mined, s), RestartFrom(n, s)
    PROVE  KeepsMoney
<1> PICK failed \in StartFailures(n, s) : node' = [node EXCEPT ![n] = Starts(s, failed)]
  BY DEF RestartFrom, Starts
<1> DEFINE u == node[n]
           t == Starts(s, failed)
           r == Recomputed(mined, t)
<1>1. /\ MinedOK(mined) /\ Runs(mined, u) /\ SoundBlocks(mined) /\ Money(mined, u) /\ Pools(u)
  BY DEF Inv, NodeOK, Rich
<1>2. /\ s.store = u.store /\ s.cache = u.cache /\ s.lost = u.lost /\ s.restarts = u.restarts
      /\ s.misread = u.misread
  BY DEF Differs, Fields
<1>3. Runs(mined, s) /\ s.restarts \in Nat
  <2>1. F \subseteq Ignored /\ Differs(u, s, F)
    BY DEF Ignored
  <2> HIDE DEF u
  <2>2. Runs(mined, s)
    BY <1>1, <2>1, IgnoredFields
  <2> QED
    BY <1>1, <1>2, <2>2 DEF Pools
<1>4. failed \in SUBSET {"state", "genesis", "blocks", "recomputed"}
  BY DEF StartFailures
<1>5. /\ Money(mined, t) /\ Pools(t) /\ t.restarts = s.restarts + 1
      /\ ~t.misread =>
            /\ t.ledger = (IF r.ok THEN r.ledger ELSE s.disk)
            /\ ~t.phantom => r.ok \/ (~s.disk_phantom /\ s.lost = {})
  BY <1>1, <1>3, <1>4, MoneyRestarted
<1>6. node' = [node EXCEPT ![n] = t] /\ UNCHANGED <<mined, now>>
  BY DEF RestartFrom
<1>7. ASSUME u.lost = {}, ~u.misread, ~t.misread PROVE r = Recomputed(mined, u)
  <2>1. Coherent(s.store, s.cache)
    BY <1>1, <1>2, <1>7 DEF Money
  <2>2. t.store = s.store /\ t.cache = s.cache
    BY <1>1, <1>2, <1>3, <1>7, <2>1, RestartedSame
  <2> HIDE DEF t
  <2> QED
    BY <1>2, <2>2, RecomputedSame
<1> HIDE DEF t, r
<1>8. Kept(u, t)
  <2> SUFFICES ASSUME u.lost = {}, ~u.phantom, ~t.phantom, ~u.misread, ~t.misread
               PROVE  t.ledger = u.ledger
    BY DEF Kept
  <2>1. Follows(mined, u) /\ r = Recomputed(mined, u)
    BY <1>1, <1>7 DEF Money
  <2>2. CASE r.ok
    BY <1>5, <2>1, <2>2 DEF Follows
  <2>3. CASE ~r.ok
    <3>1. ~s.disk_phantom
      BY <1>5, <2>3
    <3>2. s = u
      BY <3>1
    <3> QED
      BY <1>5, <2>1, <2>3, <3>2 DEF Follows
  <2> QED
    BY <2>2, <2>3
<1> QED
  BY <1>5, <1>6, <1>8, LocalMoney

\* A restart at any time, or in the middle of an ingestion or a mining tick.
LEMMA RestartMoney ==
    ASSUME Inv, Rich, NEW n \in Nodes, Restart(n) \/ CrashIngesting(n) \/ CrashMining(n)
    PROVE  KeepsMoney
<1> DEFINE s == node[n]
<1>1. IsNode(s) /\ Money(mined, s)
  BY DEF Inv, NodeOK, Runs, Rich
<1>2. CASE Restart(n)
  <2>1. Differs(s, s, {})
    BY <1>1 DEF Differs
  <2> QED
    BY <1>1, <1>2, <2>1, RestartFromMoney DEF Restart, Money
<1>3. ASSUME NEW b, Payload(b), RestartFrom(n, [Applied(s, b) EXCEPT !.disk_phantom = TRUE])
      PROVE  KeepsMoney
  <2> DEFINE l == apply_block(s.ledger, b).ledger
             a == Applied(s, b)
             t == [a EXCEPT !.disk_phantom = TRUE]
  <2>1. l \in Ledgers
    BY <1>1, <1>3, AppliedLedger DEF Money
  <2>2. Differs(s, a, {"ledger", "disk", "disk_phantom"}) /\ a.disk = l
    BY <1>1, AppliedIs
  <2>3. RestartFrom(n, t)
    BY <1>3
  <2> HIDE DEF l, a
  <2>4. /\ Differs(a, t, {"disk_phantom"}) /\ t.disk_phantom = TRUE
    BY <2>2 DEF Differs, IsNode, Fields
  <2> HIDE DEF t
  <2>5. Differs(s, t, {"ledger", "disk", "disk_phantom"}) /\ t.disk = l
    BY <2>2, <2>4 DEF Differs, Fields
  <2>6. DiskOK(mined, t)
    BY <2>1, <2>4, <2>5 DEF DiskOK
  <2> QED
    BY <2>3, <2>4, <2>5, <2>6, RestartFromMoney
<1>4. CASE CrashIngesting(n)
  <2>1. Call(n).hash \in DOMAIN mined
    BY <1>4, Calling DEF CrashIngesting
  <2>2. Payload(mined[Call(n).hash])
    BY <2>1 DEF Rich, SoundBlocks
  <2> QED
    BY <1>3, <1>4, <2>2 DEF CrashIngesting
<1>5. CASE CrashMining(n)
  <2>1. PICK batch \in Batches(s) :
           RestartFrom(n, [Applied(s, Template(s, n, batch)) EXCEPT !.disk_phantom = TRUE])
    BY <1>5 DEF CrashMining
  <2>2. Payload(Template(s, n, batch))
    BY TemplateSound
  <2> QED
    BY <1>3, <2>1, <2>2
<1> QED
  BY <1>2, <1>4, <1>5

\* Every step does.
LEMMA NextMoney == ASSUME Inv, Rich, [Next]_vars PROVE KeepsMoney
<1>1. ASSUME NEW n \in Nodes, Event(n) PROVE KeepsMoney
  BY <1>1, EventMoney, MineMoney, RestartMoney DEF Event
<1>2. ASSUME node' = node, mined' = mined, now' \in 0..MaxTime PROVE KeepsMoney
  <2>1. Rich'
    BY <1>2 DEF Rich
  <2>2. ASSUME NEW m \in Nodes PROVE Kept(node[m], node'[m])
    <3>1. node'[m] = node[m] /\ node[m].restarts \in Nat
      BY <1>2 DEF Rich, Pools
    <3> QED
      BY <3>1 DEF Kept
  <2> QED
    BY <2>1, <2>2 DEF KeepsMoney
<1>3. now \in 0..MaxTime /\ MaxTime \in Nat
  BY NodeAssumption DEF Rich
<1>4. CASE Tick
  <2>1. now' \in 0..MaxTime
    BY <1>3, <1>4 DEF Tick
  <2> QED
    BY <1>2, <1>4, <2>1 DEF Tick
<1>5. CASE UNCHANGED vars
  BY <1>2, <1>3, <1>5 DEF vars
<1>6. ASSUME NEW r \in net, AnswerSync(r) PROVE KeepsMoney
  BY <1>2, <1>3, <1>6 DEF AnswerSync
<1> QED
  BY <1>1, <1>4, <1>5, <1>6, ProcessMoney, SettleMoney DEF Next

\* A new node has the ledger it should have.
LEMMA NewMoney ==
    ASSUME NEW M, MinedOK(M), SoundBlocks(M)
    PROVE  Money(M, NewNode) /\ Pools(NewNode)
<1> DEFINE s == NewNode
<1>1. /\ DOMAIN s.store = {Genesis} /\ s.ledger = DefaultLedger /\ s.disk = DefaultLedger
      /\ s.target = InitialTarget /\ s.phantom = FALSE /\ s.mempool = {} /\ s.blamed = {}
      /\ s.restarts = 0 /\ s.disk_phantom = FALSE /\ s.saved = {Genesis}
  BY DEF NewNode
<1>2. Coherent(s.store, s.cache)
  BY NewNodeCoherent
<1>3. StoredOK(M, s)
  BY NewNodeStored
<1> HIDE DEF s
<1>4. Follows(M, s)
  <2>1. Recomputed(M, s) = [ok |-> TRUE, ledger |-> DefaultLedger]
    BY <1>1, <1>2, <1>3, GenesisReplays
  <2> QED
    BY <1>1, <2>1 DEF Follows
<1>5. BackedBy(DefaultLedger, M, {Genesis})
  <2>1. IsFiniteSet({Genesis}) /\ Payloads(M, {Genesis})
    BY FS_Singleton DEF MinedOK, SoundBlocks, Payloads
  <2> QED
    BY <2>1, DefaultBacked
<1>6. Money(M, s)
  <2>1. DiskOK(M, s)
    BY <1>1, <1>5, DefaultType DEF DiskOK
  <2>2. s.target \in Targets
    BY <1>1, NodeAssumption DEF InitialTarget, Targets
  <2> QED
    BY <1>1, <1>2, <1>4, <1>5, <2>1, <2>2, DefaultType DEF Money
<1>7. Pools(s)
  BY <1>1, FS_EmptySet DEF Pools
<1> QED
  BY <1>6, <1>7 DEF s

\* The ledgers are right at the start.
LEMMA InitMoney == Init => Rich
<1> SUFFICES ASSUME Init PROVE Rich
  OBVIOUS
<1> DEFINE block(h) == (CHOOSE f \in ForeignBlocks : f.hash = h).block
<1>1. /\ DOMAIN mined = {Genesis} \cup ForeignHashes /\ mined[Genesis] = GenesisBlock
      /\ \A h \in ForeignHashes : h # Genesis => mined[h] = block(h)
  <2> HIDE DEF block
  <2> QED
    BY DEF Init, block
<1>2. ASSUME NEW h \in ForeignHashes
      PROVE  Payload(block(h)) /\ block(h).time \in Nat /\ block(h).target \in Targets
  <2>1. \E f \in ForeignBlocks : f.hash = h
    BY DEF ForeignHashes
  <2>2. PICK f \in ForeignBlocks : block(h) = f.block
    BY <2>1
  <2> HIDE DEF block
  <2> QED
    BY <2>2, ForeignAssumption DEF Payload
<1> HIDE DEF block
<1>3. Payload(GenesisBlock) /\ GenesisBlock.time \in Nat /\ GenesisBlock.target \in Targets
  BY AddrAssumption, NodeAssumption DEF Payload, GenesisBlock, InitialTarget, Targets
<1>4. SoundBlocks(mined)
  BY <1>1, <1>2, <1>3 DEF SoundBlocks
<1>5. MinedOK(mined)
  BY InitHolds DEF Inv
<1>6. Money(mined, NewNode) /\ Pools(NewNode)
  BY <1>4, <1>5, NewMoney
<1>7. node = [n \in Nodes |-> NewNode] /\ now \in 0..MaxTime
  BY NodeAssumption DEF Init
<1> QED
  BY <1>4, <1>6, <1>7 DEF Rich

\* They are throughout.
LEMMA RichAlways == Spec => []Rich
<1>1. Inv /\ Rich /\ [Next]_vars => Rich'
  BY NextMoney DEF KeepsMoney
<1> QED
  BY <1>1, InitMoney, Invariance, PTL DEF Spec

\* Every value stays in its type: the ledgers and their widths through gossip,
\* orphan replay, failed writes and restarts, the target through every
\* adjustment, and the calls to be made.
THEOREM NodeTypes == Spec => []TypeOK
<1>1. ASSUME Inv, Rich PROVE TypeOK
  <2>1. DOMAIN mined \subseteq AllHashes \cup {Genesis} /\ now \in 0..MaxTime
    BY <1>1 DEF Inv, MinedOK, H, Rich
  <2>2. ASSUME NEW n \in Nodes
        PROVE  /\ DOMAIN node[n].store \subseteq DOMAIN mined
               /\ DOMAIN node[n].cache = DOMAIN node[n].store
               /\ Genesis \in node[n].saved /\ node[n].saved \subseteq DOMAIN mined
               /\ node[n].answering => node[n].todo # <<>>
    BY <1>1 DEF Inv, NodeOK, Runs, StoredOK
  <2>3. ASSUME NEW n \in Nodes
        PROVE  /\ node[n].ledger \in Ledgers /\ node[n].disk \in Ledgers
               /\ node[n].target \in Targets
               /\ node[n].blamed \subseteq Nodes \cup {Stranger} /\ node[n].mempool \subseteq Txs
    BY <1>1 DEF Rich, Money, DiskOK, Pools
  <2>4. ASSUME NEW n \in Nodes PROVE ToSet(node[n].todo) \subseteq Calls
    <3> DEFINE q == node[n].todo
    <3>1. q \in Seq(CallsOf(mined))
      BY <1>1 DEF Inv, NodeOK, Runs, PoolOK
    <3>2. CallsOf(mined) \subseteq Calls
      BY <2>1 DEF CallsOf, Calls
    <3> HIDE DEF q
    <3>3. ToSet(q) \subseteq CallsOf(mined)
      BY <3>1, ToSetFinite
    <3> QED
      BY <3>2, <3>3 DEF q
  <2>5. ASSUME NEW r \in net
        PROVE  r.client \in Nodes /\ r.server \in (Nodes \cup {Stranger}) \ {r.client}
    BY <1>1 DEF Inv, NetOK, MessageOK, Messages
  <2> QED
    BY <2>1, <2>2, <2>3, <2>4, <2>5 DEF TypeOK
<1> QED
  BY <1>1, Invariance, RichAlways, PTL

\* What a node's ledger_state holds comes from the blocks of its block_store:
\* no reward is counted twice and no transaction confirmed without its block,
\* whatever was applied, replayed, saved or lost, but for what phantom excepts.
THEOREM LedgerIsBacked == Spec => []LedgerBacked
<1>1. ASSUME Inv, Rich PROVE LedgerBacked
  <2> SUFFICES ASSUME NEW n \in Nodes, ~node[n].phantom,
                      NEW S, S = DOMAIN node[n].store \ {Genesis}
               PROVE  /\ node[n].ledger.confirmed \subseteq UNION {ToSet(mined[h].txs) : h \in S}
                      /\ SumFunction(node[n].ledger.balances)
                           <= SumFunction([h \in S |-> mined[h].coinbase.miner + mined[h].coinbase.dev])
    BY DEF LedgerBacked
  <2> DEFINE l == node[n].ledger
             D == DOMAIN node[n].store
  <2>1. /\ BackedBy(l, mined, D) /\ D \subseteq DOMAIN mined /\ D \subseteq H
        /\ mined[Genesis] = GenesisBlock /\ SoundBlocks(mined)
    BY <1>1 DEF Rich, Money, Inv, NodeOK, Runs, StoredOK, MinedOK
  <2>2. S = D \ {Genesis}
    OBVIOUS
  <2> HIDE DEF l, D
  <2>3. /\ IsFiniteSet(S) /\ Genesis \notin S /\ Payloads(mined, D)
        /\ D = S \/ D = S \cup {Genesis}
    <3>1. IsFiniteSet(D)
      BY <2>1, HashesFinite, FS_Subset
    <3>2. IsFiniteSet(S)
      BY <2>2, <3>1, FS_Subset
    <3> QED
      BY <2>1, <2>2, <3>2 DEF SoundBlocks, Payloads
  <2>4. 0 = mined[Genesis].coinbase.miner + mined[Genesis].coinbase.dev /\ ToSet(mined[Genesis].txs) = {}
    BY <2>1 DEF GenesisBlock, ToSet
  <2>5. CASE D = S \cup {Genesis}
    <3>1. Rewards(mined, S) \in Int /\ Rewards(mined, D) = Rewards(mined, S) + 0
      BY <2>3, <2>4, <2>5, RewardsAdd
    <3>2. Worth(l) <= Rewards(mined, S)
      BY <2>1, <3>1 DEF BackedBy
    <3>3. l.confirmed \subseteq UNION {ToSet(mined[h].txs) : h \in S}
      BY <2>1, <2>4, <2>5 DEF BackedBy
    <3> QED
      BY <3>2, <3>3 DEF l, Worth, Rewards
  <2>6. CASE D = S
    BY <2>1, <2>6 DEF l, BackedBy, Worth, Rewards
  <2> QED
    BY <2>3, <2>5, <2>6
<1> QED
  BY <1>1, Invariance, RichAlways, PTL

\* A node that restarts, or crashes between the two writes of an ingestion or
\* of a mining tick and comes back, has the ledger it had, unless a write failed
\* before, or a read of this start-up or of the one before: the replay of the
\* saved blocks gives the same data, the same order and so the same ledger as in
\* memory, or fails as it did in memory and the saved ledger is the node's.
THEOREM LedgerSurvivesRestart == Spec => RestartKeepsLedger
<1>1. ASSUME Inv, Rich, [Next]_vars
      PROVE  [\A n \in Nodes :
                /\ node'[n].restarts > node[n].restarts
                /\ node[n].lost = {} /\ ~node[n].phantom /\ ~node'[n].phantom
                /\ ~node[n].misread /\ ~node'[n].misread
                => node'[n].ledger = node[n].ledger]_vars
  <2>1. \A n \in Nodes : Kept(node[n], node'[n])
    BY <1>1, NextMoney DEF KeepsMoney
  <2> QED
    BY <2>1 DEF Kept
<1> QED
  BY <1>1, Invariance, RichAlways, PTL DEF Spec, RestartKeepsLedger

-----------------------------------------------------------------------------
(* The refinement of SyncGate. *)

\* What SyncGate sees: the requests node n waits for, in the messages S, an
\* answer node s is in the middle of included, and the blocks n has mined.
Asked(S, n) == {r \in S : r.client = n}
Out(S, s, n) == Cardinality(Asked(S, n)) + (IF s.answering THEN 1 ELSE 0)
Produced(M, n) == {h \in DOMAIN M \cap Hashes : M[h].miner = MinerOf[n]}

\* A step leaves alone what it sees of node m.
SameGate(m) ==
    /\ node'[m].sync_pending = node[m].sync_pending
    /\ node'[m].abandoned = node[m].abandoned
    /\ Out(net', node'[m], m) = Out(net, node[m], m)
    /\ Produced(mined', m) = Produced(mined, m)

\* A step that SyncGate does not see.
LEMMA GateStutters ==
    ASSUME \A m \in Nodes : SameGate(m)
    PROVE  UNCHANGED Gate!gate
  BY DEF SameGate, Out, Asked, Produced, Gate!gate

\* What node n does in the steps that it sees.
Asks(n) ==
    /\ node'[n].sync_pending = TRUE /\ node'[n].abandoned = node[n].abandoned
    /\ Out(net', node'[n], n) = Out(net, node[n], n) + 1
    /\ Produced(mined', n) = Produced(mined, n)
Settles(n) ==
    /\ node'[n].sync_pending = FALSE /\ node'[n].abandoned = FALSE
    /\ Out(net, node[n], n) > 0
    /\ Out(net', node'[n], n) = Out(net, node[n], n) - 1
    /\ Produced(mined', n) = Produced(mined, n)
GivesUp(n) ==
    /\ node'[n].sync_pending = node[n].sync_pending /\ node'[n].abandoned = TRUE
    /\ Out(net, node[n], n) > 0
    /\ Out(net', node'[n], n) = Out(net, node[n], n) - 1
    /\ Produced(mined', n) = Produced(mined, n)
Produces(n) ==
    /\ ~node[n].sync_pending
    /\ node'[n].sync_pending = node[n].sync_pending /\ node'[n].abandoned = node[n].abandoned
    /\ Out(net', node'[n], n) = Out(net, node[n], n)
    /\ \E h \in Hashes \ Produced(mined, n) : Produced(mined', n) = Produced(mined, n) \cup {h}
Forgets(n) ==
    /\ node'[n].sync_pending = FALSE /\ node'[n].abandoned = FALSE
    /\ Out(net', node'[n], n) = 0
    /\ Produced(mined', n) = Produced(mined, n)

\* The same as functions of the nodes, as SyncGate has them.
ClosedMap(N) == [n \in Nodes |-> N[n].sync_pending]
GivenUpMap(N) == [n \in Nodes |-> N[n].abandoned]
OutMap(N, S) == [n \in Nodes |-> Out(S, N[n], n)]
ProducedMap(M) == [n \in Nodes |-> Produced(M, n)]

\* They are steps of SyncGate.
LEMMA GateSteps ==
    ASSUME NEW n \in Nodes, \A m \in Nodes \ {n} : SameGate(m),
           Asks(n) \/ Settles(n) \/ GivesUp(n) \/ Produces(n) \/ Forgets(n)
    PROVE  Gate!Next
<1> DEFINE C == ClosedMap(node)
           G == GivenUpMap(node)
           O == OutMap(node, net)
           P == ProducedMap(mined)
<1>1. /\ C' = [C EXCEPT ![n] = node'[n].sync_pending]
      /\ G' = [G EXCEPT ![n] = node'[n].abandoned]
      /\ C[n] = node[n].sync_pending /\ G[n] = node[n].abandoned
  BY DEF ClosedMap, GivenUpMap, SameGate
<1>2. /\ O' = [O EXCEPT ![n] = Out(net', node'[n], n)] /\ O[n] = Out(net, node[n], n)
      /\ P' = [P EXCEPT ![n] = Produced(mined', n)] /\ P[n] = Produced(mined, n)
  BY DEF OutMap, ProducedMap, SameGate
<1>3. /\ [C EXCEPT ![n] = C[n]] = C /\ [G EXCEPT ![n] = G[n]] = G
      /\ [P EXCEPT ![n] = P[n]] = P /\ [O EXCEPT ![n] = O[n]] = O
  BY DEF ClosedMap, GivenUpMap, OutMap, ProducedMap
<1> HIDE DEF C, G, O, P
<1>4. CASE Asks(n)
  <2>1. C' = [C EXCEPT ![n] = TRUE] /\ O' = [O EXCEPT ![n] = O[n] + 1] /\ G' = G /\ P' = P
    BY <1>1, <1>2, <1>3, <1>4 DEF Asks
  <2>2. Gate!Ask(n)
    BY <2>1 DEF C, O, G, P, ClosedMap, GivenUpMap, OutMap, ProducedMap, Out, Asked, Produced, Gate!Ask
  <2> QED
    BY <2>2 DEF Gate!Next
<1>5. CASE Settles(n)
  <2>1. /\ C' = [C EXCEPT ![n] = FALSE] /\ O' = [O EXCEPT ![n] = O[n] - 1] /\ O[n] > 0
        /\ G' = [G EXCEPT ![n] = FALSE] /\ P' = P
    BY <1>1, <1>2, <1>3, <1>5 DEF Settles
  <2>2. Gate!Settle(n)
    BY <2>1 DEF C, O, G, P, ClosedMap, GivenUpMap, OutMap, ProducedMap, Out, Asked, Produced, Gate!Settle
  <2> QED
    BY <2>2 DEF Gate!Next
<1>6. CASE GivesUp(n)
  <2>1. /\ C' = C /\ O' = [O EXCEPT ![n] = O[n] - 1] /\ O[n] > 0
        /\ G' = [G EXCEPT ![n] = TRUE] /\ P' = P
    BY <1>1, <1>2, <1>3, <1>6 DEF GivesUp
  <2>2. Gate!GiveUp(n)
    BY <2>1 DEF C, O, G, P, ClosedMap, GivenUpMap, OutMap, ProducedMap, Out, Asked, Produced, Gate!GiveUp
  <2> QED
    BY <2>2 DEF Gate!Next
<1>7. CASE Produces(n)
  <2>1. PICK h \in Hashes \ P[n] : P' = [P EXCEPT ![n] = P[n] \cup {h}]
    BY <1>1, <1>2, <1>3, <1>7 DEF Produces
  <2>2. C' = C /\ G' = G /\ O' = O /\ ~C[n]
    BY <1>1, <1>2, <1>3, <1>7 DEF Produces
  <2>3. Gate!Produce(n)
    BY <2>1, <2>2 DEF C, O, G, P, ClosedMap, GivenUpMap, OutMap, ProducedMap, Out, Asked, Produced, Gate!Produce
  <2> QED
    BY <2>3 DEF Gate!Next
<1>8. CASE Forgets(n)
  <2>1. /\ C' = [C EXCEPT ![n] = FALSE] /\ O' = [O EXCEPT ![n] = 0]
        /\ G' = [G EXCEPT ![n] = FALSE] /\ P' = P
    BY <1>1, <1>2, <1>3, <1>8 DEF Forgets
  <2>2. Gate!Forget(n)
    BY <2>1 DEF C, O, G, P, ClosedMap, GivenUpMap, OutMap, ProducedMap, Out, Asked, Produced, Gate!Forget
  <2> QED
    BY <2>2 DEF Gate!Next
<1> QED
  BY <1>4, <1>5, <1>6, <1>7, <1>8

\* The requests under way can be counted.
LEMMA AskedFinite ==
    ASSUME Inv, NEW n \in Nodes
    PROVE  IsFiniteSet(Asked(net, n)) /\ Cardinality(Asked(net, n)) \in Nat
<1>1. IsFiniteSet(net) /\ Asked(net, n) \subseteq net
  BY DEF Inv, NetOK, Asked
<1> QED
  BY <1>1, FS_Subset, FS_CardinalityType

\* A step of node n alone, which takes it to v, with the messages S left: the
\* other nodes' gates are as they were if they wait for as much as before.
LEMMA GateOfOthers ==
    ASSUME Inv, NEW n \in Nodes, NEW v, node' = [node EXCEPT ![n] = v], mined' = mined,
           \A m \in Nodes \ {n} : Cardinality(Asked(net', m)) = Cardinality(Asked(net, m))
    PROVE  /\ \A m \in Nodes \ {n} : SameGate(m)
           /\ node'[n] = v /\ Produced(mined', n) = Produced(mined, n)
<1>1. node = [m \in Nodes |-> node[m]]
  BY DEF Inv
<1>2. node'[n] = v /\ \A m \in Nodes \ {n} : node'[m] = node[m]
  BY <1>1
<1>3. ASSUME NEW m \in Nodes \ {n} PROVE SameGate(m)
  BY <1>2, <1>3 DEF SameGate, Out
<1> QED
  BY <1>2, <1>3

\* Such a step with no message involved: the node's own gate may be left as it
\* is, or an answer it was in the middle of is settled or given up.
LEMMA LocalGate ==
    ASSUME Inv, NEW n \in Nodes, NEW v, node' = [node EXCEPT ![n] = v], mined' = mined, net' = net,
           \/ /\ v.sync_pending = node[n].sync_pending /\ v.abandoned = node[n].abandoned
              /\ v.answering = node[n].answering
           \/ /\ node[n].answering = TRUE /\ v.answering = FALSE
              /\ v.sync_pending = FALSE /\ v.abandoned = FALSE
           \/ /\ node[n].answering = TRUE /\ v.answering = FALSE
              /\ v.sync_pending = node[n].sync_pending /\ v.abandoned = TRUE
    PROVE  [Gate!Next]_Gate!gate
<1>1. /\ \A m \in Nodes \ {n} : SameGate(m)
      /\ node'[n] = v /\ Produced(mined', n) = Produced(mined, n)
  BY GateOfOthers
<1>2. Cardinality(Asked(net, n)) \in Nat
  BY AskedFinite
<1>3. CASE /\ v.sync_pending = node[n].sync_pending /\ v.abandoned = node[n].abandoned
           /\ v.answering = node[n].answering
  <2>1. SameGate(n)
    BY <1>1, <1>3 DEF SameGate, Out
  <2>2. \A m \in Nodes : SameGate(m)
    BY <1>1, <2>1
  <2> QED
    BY <2>2, GateStutters
<1>4. ASSUME node[n].answering = TRUE, v.answering = FALSE
      PROVE  Out(net, node[n], n) > 0 /\ Out(net', node'[n], n) = Out(net, node[n], n) - 1
  BY <1>1, <1>2, <1>4 DEF Out
<1>5. CASE /\ node[n].answering = TRUE /\ v.answering = FALSE
           /\ v.sync_pending = FALSE /\ v.abandoned = FALSE
  <2>1. Settles(n)
    BY <1>1, <1>4, <1>5 DEF Settles
  <2> QED
    BY <1>1, <2>1, GateSteps
<1>6. CASE /\ node[n].answering = TRUE /\ v.answering = FALSE
           /\ v.sync_pending = node[n].sync_pending /\ v.abandoned = TRUE
  <2>1. GivesUp(n)
    BY <1>1, <1>4, <1>6 DEF GivesUp
  <2> QED
    BY <1>1, <2>1, GateSteps
<1> QED
  BY <1>3, <1>5, <1>6

\* A call returns in state s, whose gate is the node's.
LEMMA ReturnGate ==
    ASSUME Inv, NEW n \in Nodes, NEW s, IsNode(s), Return(n, s),
           s.sync_pending = node[n].sync_pending, s.abandoned = node[n].abandoned,
           s.answering = node[n].answering
    PROVE  [Gate!Next]_Gate!gate
<1> DEFINE v == IF s.todo = <<>> /\ s.answering THEN GateOpened([s EXCEPT !.answering = FALSE])
                ELSE s
<1>1. node' = [node EXCEPT ![n] = v] /\ UNCHANGED <<mined, net>>
  BY DEF Return
<1>2. CASE s.todo = <<>> /\ s.answering
  <2>1. v = GateOpened([s EXCEPT !.answering = FALSE])
    BY <1>2
  <2>2. v.answering = FALSE /\ v.sync_pending = FALSE /\ v.abandoned = FALSE
    BY <2>1 DEF GateOpened, IsNode, Fields
  <2>3. node[n].answering = TRUE
    BY <1>2 DEF Inv, NodeOK, Runs, GateOK
  <2> HIDE DEF v
  <2> QED
    BY <1>1, <2>2, <2>3, LocalGate
<1>3. CASE ~(s.todo = <<>> /\ s.answering)
  <2>1. v = s
    BY <1>3
  <2> HIDE DEF v
  <2> QED
    BY <1>1, <2>1, LocalGate
<1> QED
  BY <1>2, <1>3

\* The gate's fields are the same in two states that differ elsewhere.
LEMMA GateFields ==
    ASSUME NEW s, NEW t, NEW F, Differs(s, t, F),
           F \subseteq Fields \ {"sync_pending", "abandoned", "answering"}
    PROVE  /\ t.sync_pending = s.sync_pending /\ t.abandoned = s.abandoned
           /\ t.answering = s.answering /\ IsNode(t)
  BY DEF Differs, Fields

\* The calls of validate_and_ingest implement SyncGate.
LEMMA ProcessGate ==
    ASSUME Inv, NEW n \in Nodes, Process(n)
    PROVE  [Gate!Next]_Gate!gate
<1> DEFINE s == Popped(n)
           h == Call(n).hash
           G == [Gate!Next]_Gate!gate
<1>0. Pending(n)
  BY DEF Process, AlreadyKnown, RejectBlock, BufferOrphan, AcceptBlock, LedgerNotSaved, ReadError
<1>1. Differs(node[n], s, {"todo"}) /\ IsNode(node[n]) /\ IsNode(s)
  BY <1>0, Calling DEF Runs
<1>2. /\ s.sync_pending = node[n].sync_pending /\ s.abandoned = node[n].abandoned
      /\ s.answering = node[n].answering
  BY <1>1, GateFields DEF Fields
<1>3. ASSUME NEW v, NEW F, Differs(s, v, F), Return(n, v),
             F \subseteq Fields \ {"sync_pending", "abandoned", "answering"}
      PROVE  G
  <2>1. /\ v.sync_pending = node[n].sync_pending /\ v.abandoned = node[n].abandoned
        /\ v.answering = node[n].answering /\ IsNode(v)
    BY <1>2, <1>3, GateFields
  <2> HIDE DEF s
  <2> QED
    BY <1>3, <2>1, ReturnGate
<1> SUFFICES G
  OBVIOUS
<1> HIDE DEF G
<1>4. CASE AlreadyKnown(n)
  <2>1. Return(n, s) /\ Differs(s, s, {})
    BY <1>1, <1>4 DEF AlreadyKnown, Differs
  <2> HIDE DEF s
  <2> QED
    BY <1>3, <2>1
<1>5. CASE RejectBlock(n)
  <2> DEFINE v == [s EXCEPT !.blamed = @ \cup {Call(n).source}]
  <2>1. Return(n, v)
    BY <1>5 DEF RejectBlock
  <2> HIDE DEF s
  <2>2. Differs(s, v, {"blamed"})
    BY <1>1 DEF Differs, IsNode, Fields
  <2> HIDE DEF v
  <2> QED
    BY <1>3, <2>1, <2>2 DEF Fields
<1>6. CASE BufferOrphan(n)
  <2> DEFINE p == FirstMissing(node[n], mined[h])
             v == InsertOrphan(s, p, Call(n))
  <2>1. Return(n, v)
    BY <1>6 DEF BufferOrphan
  <2> HIDE DEF s, p
  <2>2. Differs(s, v, {"waiting_on", "current_size"})
    BY <1>1 DEF InsertOrphan, Differs, IsNode, Fields
  <2> HIDE DEF v
  <2> QED
    BY <1>3, <2>1, <2>2 DEF Fields
<1>7. CASE AcceptBlock(n)
  <2>1. PICK failed \in Failures(n) :
           Return(n, TakeReady(AfterIngest(mined,
                        ingest_block_only(Applied(s, mined[h]), h, mined[h], failed), failed), h))
    BY <1>7 DEF AcceptBlock
  <2> DEFINE a == Applied(s, mined[h])
             i == ingest_block_only(a, h, mined[h], failed)
             r == AfterIngest(mined, i, failed)
             v == TakeReady(r, h)
  <2>2. Return(n, v)
    BY <2>1
  <2> HIDE DEF s, h
  <2>3. Differs(s, a, {"ledger", "disk", "disk_phantom"})
    BY <1>1 DEF Applied, Differs, IsNode, Fields
  <2> HIDE DEF a
  <2>4. Differs(a, i, {"store", "cache", "history", "saved", "lost", "phantom",
                       "disk_phantom", "disk_errors"})
    BY <2>3, IngestKeeps DEF Differs
  <2> HIDE DEF i
  <2>5. Differs(i, r, {"ledger", "disk", "phantom", "disk_phantom", "target"})
    BY <2>4, AfterIngestKeeps DEF Differs
  <2> HIDE DEF r
  <2>6. Differs(r, v, {"waiting_on", "current_size", "todo"})
    BY <2>5 DEF TakeReady, Differs, IsNode, Fields
  <2> HIDE DEF v
  <2> DEFINE F == Fields \ {"sync_pending", "abandoned", "answering"}
  <2>7. Differs(s, v, F)
    BY <2>3, <2>4, <2>5, <2>6 DEF Differs, Fields
  <2> HIDE DEF F
  <2> QED
    BY <1>3, <2>2, <2>7 DEF F
<1>8. CASE LedgerNotSaved(n)
  <2> DEFINE v == [s EXCEPT !.ledger = apply_block(@, mined[h]).ledger,
                            !.phantom = TRUE, !.disk_errors = @ + 1]
  <2>1. Return(n, v)
    BY <1>8 DEF LedgerNotSaved
  <2> HIDE DEF s
  <2>2. Differs(s, v, {"ledger", "phantom", "disk_errors"})
    BY <1>1 DEF Differs, IsNode, Fields
  <2> HIDE DEF v
  <2> QED
    BY <1>3, <2>1, <2>2 DEF Fields
<1>9. CASE ReadError(n)
  <2> DEFINE u == node[n]
             v == [u EXCEPT !.todo = <<>>, !.answering = FALSE,
                            !.abandoned = node[n].answering \/ @, !.disk_errors = @ + 1]
  <2>1. node' = [node EXCEPT ![n] = v] /\ UNCHANGED <<mined, net>>
    BY <1>9 DEF ReadError, Inv
  <2>2. /\ Differs(u, v, {"todo", "answering", "abandoned", "disk_errors"})
        /\ v.answering = FALSE /\ v.abandoned = (u.answering \/ u.abandoned)
    BY <1>1 DEF Differs, IsNode, Fields
  <2> HIDE DEF v
  <2>3. v.sync_pending = u.sync_pending
    BY <2>2 DEF Differs, Fields
  <2>4. u.answering \in BOOLEAN /\ u.abandoned \in BOOLEAN
    BY DEF Inv, NodeOK, Runs, GateOK
  <2>5. CASE u.answering = TRUE
    <3>1. v.abandoned = TRUE
      BY <2>2, <2>5
    <3> QED
      BY <2>1, <2>2, <2>3, <2>5, <3>1, LocalGate DEF G
  <2>6. CASE u.answering = FALSE
    <3>1. v.abandoned = u.abandoned
      BY <2>2, <2>4, <2>6
    <3> QED
      BY <2>1, <2>2, <2>3, <2>6, <3>1, LocalGate DEF G
  <2> QED
    BY <2>4, <2>5, <2>6
<1> QED
  BY <1>4, <1>5, <1>6, <1>7, <1>8, <1>9 DEF Process

\* So do transactions, gossip and the tick that cannot save.
LEMMA EventGate ==
    ASSUME Inv, NEW n \in Nodes,
           \/ MineNotSaved(n)
           \/ \E tx \in Txs : submit_transaction(n, tx)
           \/ \E m \in Nodes \cup {Stranger}, h \in AllHashes : Gossip(n, m, h)
    PROVE  [Gate!Next]_Gate!gate
<1> DEFINE s == node[n]
           G == [Gate!Next]_Gate!gate
<1>1. IsNode(s) /\ node = [m \in Nodes |-> node[m]]
  BY DEF Inv, NodeOK, Runs
<1>2. ASSUME NEW v, NEW F, Differs(s, v, F), node' = [node EXCEPT ![n] = v], UNCHANGED <<mined, net>>,
             F \subseteq Fields \ {"sync_pending", "abandoned", "answering"}
      PROVE  G
  <2>1. /\ v.sync_pending = s.sync_pending /\ v.abandoned = s.abandoned /\ v.answering = s.answering
    BY <1>2, GateFields
  <2> QED
    BY <1>2, <2>1, LocalGate
<1> SUFFICES G
  OBVIOUS
<1> HIDE DEF G
<1>3. CASE MineNotSaved(n)
  <2>1. PICK batch \in Batches(s) :
          node' = [node EXCEPT ![n] =
             [Drained(s, batch) EXCEPT
                       !.ledger = apply_block(s.ledger, Template(s, n, batch)).ledger,
                       !.phantom = TRUE, !.disk_errors = @ + 1]]
    BY <1>3 DEF MineNotSaved
  <2> DEFINE l == apply_block(s.ledger, Template(s, n, batch)).ledger
             d == Drained(s, batch)
             v == [d EXCEPT !.ledger = l, !.phantom = TRUE, !.disk_errors = @ + 1]
  <2>2. node' = [node EXCEPT ![n] = v] /\ UNCHANGED <<mined, net>>
    BY <1>3, <2>1 DEF MineNotSaved
  <2> HIDE DEF l
  <2>3. Differs(s, v, {"mempool", "ledger", "phantom", "disk_errors"})
    BY <1>1 DEF Drained, Differs, IsNode, Fields
  <2> HIDE DEF v
  <2> QED
    BY <1>2, <2>2, <2>3 DEF Fields
<1>4. ASSUME NEW tx \in Txs, submit_transaction(n, tx) PROVE G
  <2> DEFINE v == [s EXCEPT !.mempool = @ \cup {tx}]
  <2>1. node' = [node EXCEPT ![n] = v] /\ UNCHANGED <<mined, net>>
    BY <1>1, <1>4 DEF submit_transaction
  <2>2. Differs(s, v, {"mempool"})
    BY <1>1 DEF Differs, IsNode, Fields
  <2> HIDE DEF v
  <2> QED
    BY <1>2, <2>1, <2>2 DEF Fields
<1>5. ASSUME NEW m \in Nodes \cup {Stranger}, NEW h \in AllHashes, Gossip(n, m, h) PROVE G
  <2> DEFINE c == [source |-> m, hash |-> h]
             v == [s EXCEPT !.todo = <<c>>]
  <2>1. node' = [node EXCEPT ![n] = v] /\ UNCHANGED <<mined, net>>
    BY <1>1, <1>5 DEF Gossip
  <2> HIDE DEF c
  <2>2. Differs(s, v, {"todo"})
    BY <1>1 DEF Differs, IsNode, Fields
  <2> HIDE DEF v
  <2> QED
    BY <1>2, <2>1, <2>2 DEF Fields
<1> QED
  BY <1>3, <1>4, <1>5

\* A tick that mines a block finds the gate open, and the block counts for its
\* miner only.
LEMMA MineGate ==
    ASSUME Inv, IsInjective(MinerOf), NEW n \in Nodes, NEW h \in Hashes, Mine(n, h)
    PROVE  [Gate!Next]_Gate!gate
<1> DEFINE s == node[n]
<1>1. IsNode(s) /\ node = [m \in Nodes |-> node[m]] /\ s.answering \in BOOLEAN
      /\ mined = [x \in DOMAIN mined |-> mined[x]]
  BY DEF Inv, NodeOK, Runs, GateOK, MinedOK
<1>2. PICK batch \in Batches(s), failed \in Failures(n) :
          LET b == Template(s, n, batch)
              d == Drained(s, batch)
              i == ingest_block_only(Applied(d, b), h, b, failed)
          IN  IF apply_block(s.ledger, b).ok
              THEN /\ mined' = Extend(mined, h, b)
                   /\ node' = [node EXCEPT ![n] =
                         [AfterIngest(mined', i, failed) EXCEPT !.unpublished =
                             IF "block" \in failed THEN @ \cup {h} ELSE @]]
              ELSE /\ node' = [node EXCEPT ![n] = d]
                   /\ UNCHANGED mined
  BY DEF Mine
<1>3. net' = net /\ h \notin DOMAIN mined /\ ~s.sync_pending
  BY DEF Mine, MiningAllowed
<1> DEFINE d == Drained(s, batch)
<1>4. Differs(s, d, {"mempool"})
  BY <1>1 DEF Drained, Differs, IsNode, Fields
<1> DEFINE b == Template(s, n, batch)
           a == Applied(d, b)
           i == ingest_block_only(a, h, b, failed)
           r == AfterIngest(mined', i, failed)
           v == [r EXCEPT !.unpublished = IF "block" \in failed THEN @ \cup {h} ELSE @]
<1>5. CASE ~apply_block(s.ledger, b).ok
  <2>1. node' = [node EXCEPT ![n] = d] /\ UNCHANGED mined
    BY <1>2, <1>5
  <2> HIDE DEF d
  <2>2. d.answering = s.answering /\ d.sync_pending = s.sync_pending /\ d.abandoned = s.abandoned
    BY <1>4, GateFields DEF Fields
  <2> QED
    BY <1>3, <2>1, <2>2, LocalGate
<1>6. CASE apply_block(s.ledger, b).ok
  <2>1. mined' = Extend(mined, h, b) /\ node' = [node EXCEPT ![n] = v] /\ b.miner = MinerOf[n]
    BY <1>2, <1>6 DEF Template
  <2> HIDE DEF d, b
  <2>2. Differs(d, a, {"ledger", "disk", "disk_phantom"})
    BY <1>4 DEF Applied, Differs, IsNode, Fields
  <2> HIDE DEF a
  <2>3. Differs(a, i, {"store", "cache", "history", "saved", "lost", "phantom",
                       "disk_phantom", "disk_errors"})
    BY <2>2, IngestKeeps DEF Differs
  <2> HIDE DEF i
  <2>4. Differs(i, r, {"ledger", "disk", "phantom", "disk_phantom", "target"})
    BY <2>3, AfterIngestKeeps DEF Differs
  <2> HIDE DEF r
  <2>5. Differs(r, v, {"unpublished"})
    BY <2>4 DEF Differs, IsNode, Fields
  <2> HIDE DEF v
  <2> DEFINE F == Fields \ {"sync_pending", "abandoned", "answering"}
  <2>6. Differs(s, v, F)
    BY <1>4, <2>2, <2>3, <2>4, <2>5 DEF Differs, Fields
  <2> HIDE DEF F
  <2>7. v.answering = s.answering /\ v.sync_pending = s.sync_pending /\ v.abandoned = s.abandoned
    BY <2>6, GateFields DEF F
  <2>8. node'[n] = v /\ \A m \in Nodes \ {n} : node'[m] = node[m]
    BY <1>1, <2>1
  <2>9. DOMAIN mined' = DOMAIN mined \cup {h} /\ mined'[h] = b
        /\ \A x \in DOMAIN mined : mined'[x] = mined[x]
    BY <1>3, <2>1 DEF Extend
  <2>10. Produced(mined', n) = Produced(mined, n) \cup {h} /\ h \notin Produced(mined, n)
    BY <1>3, <2>1, <2>9 DEF Produced
  <2>11. ASSUME NEW m \in Nodes \ {n} PROVE Produced(mined', m) = Produced(mined, m)
    <3>1. MinerOf[m] # MinerOf[n]
      BY NodeAssumption DEF IsInjective
    <3> QED
      BY <2>1, <2>9, <3>1 DEF Produced
  <2>12. \A m \in Nodes \ {n} : SameGate(m)
    BY <1>3, <2>8, <2>11 DEF SameGate
  <2>13. Produces(n)
    BY <1>3, <2>7, <2>8, <2>10 DEF Produces, Out
  <2> QED
    BY <2>12, <2>13, GateSteps, SMTT(30)
<1> QED
  BY <1>5, <1>6

\* A connection adds a request, with a number of its own.
LEMMA ConnectGate ==
    ASSUME Inv, NEW n \in Nodes, NEW m \in Nodes \cup {Stranger}, Connect(n, m)
    PROVE  [Gate!Next]_Gate!gate
<1> DEFINE s == node[n]
           v == [s EXCEPT !.connects = @ + 1, !.sync_pending = TRUE]
           r == [type |-> "request", client |-> n, server |-> m, id |-> s.connects, blocks |-> <<>>,
                 since |-> Max({0} \cup {mined[h].height : h \in ToSet(s.history)})]
<1>1. IsNode(s) /\ s.connects \in Nat /\ node = [i \in Nodes |-> node[i]] /\ NetOK(mined, node, net)
  BY DEF Inv, NodeOK, Runs, GateOK
<1>2. node' = [node EXCEPT ![n] = v] /\ net' = net \cup {r} /\ mined' = mined
  BY <1>1 DEF Connect
<1>3. Differs(s, v, {"connects", "sync_pending"}) /\ v.sync_pending = TRUE
  BY <1>1 DEF Differs, IsNode, Fields
<1> HIDE DEF v
<1>4. v.answering = s.answering /\ v.abandoned = s.abandoned
  BY <1>3 DEF Differs, Fields
<1>5. r.client = n /\ r.id = s.connects
  OBVIOUS
<1> HIDE DEF r
<1>6. r \notin net
  <2>1. \A q \in net : q.client = n => q.id \in Nat /\ q.id < s.connects
    BY <1>1 DEF NetOK, MessageOK, Messages
  <2> QED
    BY <1>1, <1>5, <2>1
<1>7. \A i \in Nodes \ {n} : Asked(net', i) = Asked(net, i)
  BY <1>2, <1>5 DEF Asked
<1>8. Asked(net', n) = Asked(net, n) \cup {r} /\ r \notin Asked(net, n)
  BY <1>2, <1>5, <1>6 DEF Asked
<1>9. Cardinality(Asked(net', n)) = Cardinality(Asked(net, n)) + 1
      /\ Cardinality(Asked(net, n)) \in Nat
  BY <1>8, AskedFinite, FS_AddElement
<1>10. /\ \A i \in Nodes \ {n} : SameGate(i)
       /\ node'[n] = v /\ Produced(mined', n) = Produced(mined, n)
  BY <1>2, <1>7, GateOfOthers
<1>11. Out(net', node'[n], n) = Out(net, node[n], n) + 1
  BY <1>4, <1>9, <1>10 DEF Out
<1>12. Asks(n)
  BY <1>3, <1>4, <1>10, <1>11 DEF Asks
<1> QED
  BY <1>10, <1>12, GateSteps

\* An answer replaces its request.
LEMMA AnswerGate ==
    ASSUME Inv, NEW r \in net, AnswerSync(r)
    PROVE  [Gate!Next]_Gate!gate
<1> DEFINE b == build_sync_response(r)
<1>1. r \in Messages(mined) /\ NetOK(mined, node, net)
  BY DEF Inv, NetOK, MessageOK
<1>2. b.client = r.client /\ b.id = r.id
  BY <1>1 DEF Messages, build_sync_response
<1>3. net' = (net \ {r}) \cup {b} /\ UNCHANGED <<mined, node>>
  BY DEF AnswerSync
<1> HIDE DEF b
<1>4. b \in net => b = r
  BY <1>1, <1>2 DEF NetOK
<1>5. ASSUME NEW m \in Nodes PROVE Cardinality(Asked(net', m)) = Cardinality(Asked(net, m))
  <2>1. CASE m # r.client
    <3>1. Asked(net', m) = Asked(net, m)
      BY <1>2, <1>3, <2>1 DEF Asked
    <3> QED
      BY <3>1
  <2>2. CASE m = r.client
    <3> DEFINE S == Asked(net, m)
               T == S \ {r}
    <3>1. IsFiniteSet(S) /\ r \in S /\ Cardinality(S) \in Nat
      BY <2>2, AskedFinite DEF Asked
    <3>2. Asked(net', m) = T \cup {b} /\ b \notin T
      BY <1>2, <1>3, <1>4, <2>2 DEF Asked
    <3> HIDE DEF S
    <3>3. IsFiniteSet(T) /\ Cardinality(T) = Cardinality(S) - 1
      BY <3>1, FS_RemoveElement
    <3> HIDE DEF T
    <3>4. Cardinality(T \cup {b}) = Cardinality(T) + 1
      BY <3>2, <3>3, FS_AddElement
    <3>5. Cardinality(T \cup {b}) = Cardinality(S)
      BY <3>1, <3>3, <3>4
    <3> QED
      BY <3>2, <3>5 DEF S
  <2> QED
    BY <2>1, <2>2
<1>6. \A m \in Nodes : SameGate(m)
  BY <1>3, <1>5 DEF SameGate, Out
<1> QED
  BY <1>6, GateStutters

\* A request is settled by its failure or an empty answer; with another one
\* the node is in the middle of it.
LEMMA SettleGate ==
    ASSUME Inv, NEW r \in net, HandleSync(r) \/ OutboundFailure(r)
    PROVE  [Gate!Next]_Gate!gate
<1> DEFINE n == r.client
           s == node[n]
           g == GateOpened(s)
           v == [s EXCEPT !.answering = TRUE,
                          !.todo = [i \in DOMAIN r.blocks |->
                                       [source |-> r.server, hash |-> r.blocks[i]]]]
<1>1. r \in Messages(mined) /\ node = [m \in Nodes |-> node[m]]
  BY DEF Inv, NetOK, MessageOK
<1>2. n \in Nodes
  BY <1>1 DEF Messages
<1>3. /\ IsNode(s) /\ s.answering = FALSE /\ net' = net \ {r} /\ mined' = mined
  BY <1>2 DEF Inv, NodeOK, Runs, GateOK, HandleSync, OutboundFailure, Ready
<1>4. \A m \in Nodes \ {n} : Asked(net', m) = Asked(net, m)
  BY <1>3 DEF Asked
<1>5. Asked(net', n) = Asked(net, n) \ {r} /\ r \in Asked(net, n)
  BY <1>3 DEF Asked
<1>6. IsFiniteSet(Asked(net, n)) /\ Cardinality(Asked(net, n)) \in Nat
  BY <1>2, AskedFinite
<1>7. Cardinality(Asked(net', n)) = Cardinality(Asked(net, n)) - 1
  BY <1>5, <1>6, FS_RemoveElement
<1>8. Cardinality(Asked(net', n)) \in Nat
  BY <1>5, <1>6, FS_RemoveElement, FS_CardinalityType
<1>9. CASE node' = [node EXCEPT ![n] = g]
  <2>1. g.sync_pending = FALSE /\ g.abandoned = FALSE /\ g.answering = s.answering
    BY <1>3 DEF GateOpened, IsNode, Fields
  <2> HIDE DEF g, s, n
  <2>2. /\ \A m \in Nodes \ {n} : SameGate(m)
        /\ node'[n] = g /\ Produced(mined', n) = Produced(mined, n)
    BY <1>2, <1>3, <1>4, <1>9, GateOfOthers
  <2>3. Settles(n)
    BY <1>3, <1>6, <1>7, <1>8, <2>1, <2>2 DEF Settles, Out, s
  <2> QED
    BY <1>2, <2>2, <2>3, GateSteps
<1>10. CASE node' = [node EXCEPT ![n] = v]
  <2>1. Differs(s, v, {"answering", "todo"}) /\ v.answering = TRUE
    BY <1>3 DEF Differs, IsNode, Fields
  <2> HIDE DEF v, s, n
  <2>2. v.sync_pending = s.sync_pending /\ v.abandoned = s.abandoned
    BY <2>1 DEF Differs, Fields
  <2>3. /\ \A m \in Nodes \ {n} : SameGate(m)
        /\ node'[n] = v /\ Produced(mined', n) = Produced(mined, n)
    BY <1>2, <1>3, <1>4, <1>10, GateOfOthers
  <2>4. SameGate(n)
    BY <1>3, <1>6, <1>7, <2>1, <2>2, <2>3 DEF SameGate, Out, s
  <2>5. \A m \in Nodes : SameGate(m)
    BY <2>3, <2>4
  <2> QED
    BY <2>5, GateStutters, SMTT(30)
<1>11. CASE OutboundFailure(r)
  <2>1. node' = [node EXCEPT ![n] = g]
    BY <1>1, <1>2, <1>11 DEF OutboundFailure
  <2> QED
    BY <1>9, <2>1
<1>12. CASE HandleSync(r)
  <2>1. CASE r.blocks = <<>>
    BY <1>1, <1>2, <1>9, <1>12, <2>1 DEF HandleSync
  <2>2. CASE r.blocks # <<>>
    BY <1>1, <1>2, <1>10, <1>12, <2>2 DEF HandleSync
  <2> QED
    BY <2>1, <2>2
<1> QED
  BY <1>11, <1>12

\* A restarted node has no request under way; the others keep theirs, failed
\* where it was asked.
LEMMA RestartFromGate ==
    ASSUME Inv, NEW n \in Nodes, NEW s, NEW F, Differs(node[n], s, F), F \subseteq Ignored,
           RestartFrom(n, s)
    PROVE  [Gate!Next]_Gate!gate
<1> PICK failed \in StartFailures(n, s) :
        node' = [node EXCEPT ![n] = Starts(s, failed)]
  BY DEF RestartFrom, Starts
<1> DEFINE v == Starts(s, failed)
<1>1. Runs(mined, node[n]) /\ MinedOK(mined) /\ NetOK(mined, node, net)
  BY DEF Inv, NodeOK
<1>2. Runs(mined, s)
  BY <1>1, IgnoredFields
<1>3. StoredOK(mined, s) /\ HistoryOK(mined, s) /\ s.connects \in Nat
  BY <1>2 DEF Runs, GateOK
<1>4. v.answering = FALSE /\ v.sync_pending = FALSE /\ v.abandoned = FALSE
  BY <1>1, <1>3, RestartedOK
<1>5. /\ node' = [node EXCEPT ![n] = v] /\ mined' = mined
      /\ net' = {Turned(r, n) : r \in {q \in net : q.client # n}}
  BY DEF RestartFrom, Turned
<1> HIDE DEF v
<1>6. ASSUME NEW r \in net PROVE Turned(r, n).client = r.client /\ Turned(r, n).id = r.id
  <2>1. r \in Messages(mined)
    BY <1>1 DEF NetOK, MessageOK
  <2> QED
    BY <2>1 DEF Turned, Messages
<1>7. Asked(net', n) = {}
  <2> SUFFICES ASSUME NEW x \in net', x.client = n PROVE FALSE
    BY DEF Asked
  <2>1. PICK r \in net : r.client # n /\ x = Turned(r, n)
    BY <1>5
  <2> QED
    BY <1>6, <2>1
<1>8. ASSUME NEW m \in Nodes \ {n} PROVE Cardinality(Asked(net', m)) = Cardinality(Asked(net, m))
  <2> DEFINE S == Asked(net, m)
             T == Asked(net', m)
             f == [r \in S |-> Turned(r, n)]
  <2>1. ASSUME NEW r \in S PROVE f[r] \in T
    <3>1. r \in net /\ r.client # n /\ r.client = m
      BY DEF Asked
    <3> QED
      BY <1>5, <1>6, <3>1 DEF Asked
  <2>2. ASSUME NEW r \in S, NEW q \in S, f[r] = f[q] PROVE r = q
    <3>1. r \in net /\ q \in net /\ r.client = q.client
      BY DEF Asked
    <3>2. r.id = q.id
      BY <1>6, <2>2, <3>1
    <3> QED
      BY <1>1, <3>1, <3>2 DEF NetOK
  <2>3. ASSUME NEW x \in T PROVE \E r \in S : f[r] = x
    <3>1. PICK r \in net : r.client # n /\ x = Turned(r, n)
      BY <1>5 DEF Asked
    <3>2. r \in S
      BY <1>6, <3>1 DEF Asked
    <3> QED
      BY <3>1, <3>2
  <2>4. f \in Bijection(S, T)
    <3>1. f = [r \in S |-> f[r]]
      OBVIOUS
    <3> HIDE DEF f, S, T
    <3>2. f \in [S -> T]
      BY <2>1, <3>1
    <3>3. f \in Injection(S, T)
      BY <2>2, <3>2 DEF Injection, IsInjective
    <3>4. f \in Surjection(S, T)
      BY <2>3, <3>2 DEF Surjection
    <3> QED
      BY <3>3, <3>4 DEF Bijection
  <2>5. IsFiniteSet(S)
    BY AskedFinite
  <2> HIDE DEF S, T, f
  <2>6. Cardinality(T) = Cardinality(S)
    BY <2>4, <2>5, FS_Bijection DEF ExistsBijection
  <2> QED
    BY <2>6 DEF S, T
<1>9. /\ \A m \in Nodes \ {n} : SameGate(m)
      /\ node'[n] = v /\ Produced(mined', n) = Produced(mined, n)
  BY <1>5, <1>8, GateOfOthers
<1>10. Cardinality(Asked(net', n)) = 0
  BY <1>7, FS_EmptySet
<1>11. Forgets(n)
  BY <1>4, <1>9, <1>10 DEF Forgets, Out
<1> QED
  BY <1>9, <1>11, GateSteps

\* A restart at any time is one of SyncGate.
LEMMA RestartGate ==
    ASSUME Inv, NEW n \in Nodes, Restart(n) \/ CrashIngesting(n) \/ CrashMining(n)
    PROVE  [Gate!Next]_Gate!gate
<1> DEFINE s == node[n]
           G == [Gate!Next]_Gate!gate
<1>1. IsNode(s)
  BY DEF Inv, NodeOK, Runs
<1>2. CASE Restart(n)
  <2>1. Differs(s, s, {})
    BY <1>1 DEF Differs
  <2> QED
    BY <1>2, <2>1, RestartFromGate DEF Restart
<1>3. ASSUME NEW b, RestartFrom(n, [Applied(s, b) EXCEPT !.disk_phantom = TRUE]) PROVE G
  <2> DEFINE t == [Applied(s, b) EXCEPT !.disk_phantom = TRUE]
  <2>1. Differs(s, t, {"ledger", "disk", "disk_phantom"})
    BY <1>1 DEF Applied, Differs, IsNode, Fields
  <2> HIDE DEF t
  <2> QED
    BY <1>3, <2>1, RestartFromGate DEF Ignored, t
<1> SUFFICES G
  OBVIOUS
<1> HIDE DEF G
<1>4. CASE CrashIngesting(n)
  BY <1>3, <1>4 DEF CrashIngesting
<1>5. CASE CrashMining(n)
  BY <1>3, <1>5 DEF CrashMining
<1> QED
  BY <1>2, <1>4, <1>5 DEF G

\* The event loop, the sync protocol and the mining tick implement SyncGate:
\* sync_pending, its setters in network.rs and the tick's look at it, with
\* nodes that mine to addresses of their own.
THEOREM GateIsRefined == IsInjective(MinerOf) => (Spec => GateRefined)
<1> SUFFICES ASSUME IsInjective(MinerOf) PROVE Spec => GateRefined
  OBVIOUS
<1>1. Init => Gate!Init
  <2> SUFFICES ASSUME Init PROVE Gate!Init
    OBVIOUS
  <2>1. ASSUME NEW n \in Nodes
        PROVE  /\ node[n].sync_pending = FALSE /\ node[n].abandoned = FALSE
               /\ node[n].answering = FALSE
    BY DEF Init, NewNode
  <2>2. ASSUME NEW n \in Nodes PROVE Asked(net, n) = {}
    BY DEF Init, Asked
  <2>3. ASSUME NEW n \in Nodes PROVE Out(net, node[n], n) = 0
    <3>1. Cardinality(Asked(net, n)) = 0 /\ node[n].answering = FALSE
      BY <2>1, <2>2, FS_EmptySet
    <3> QED
      BY <3>1 DEF Out
  <2>4. ASSUME NEW n \in Nodes PROVE Produced(mined, n) = {}
    BY NodeAssumption DEF Init, Produced, ForeignHashes, AllHashes
  <2>5. /\ ClosedMap(node) = [n \in Nodes |-> FALSE] /\ GivenUpMap(node) = [n \in Nodes |-> FALSE]
    BY <2>1 DEF ClosedMap, GivenUpMap
  <2>6. OutMap(node, net) = [n \in Nodes |-> 0] /\ ProducedMap(mined) = [n \in Nodes |-> {}]
    BY <2>3, <2>4 DEF OutMap, ProducedMap
  <2> QED
    BY <2>5, <2>6 DEF Gate!Init, ClosedMap, GivenUpMap, OutMap, ProducedMap, Out, Asked, Produced
<1>2. Inv /\ [Next]_vars => [Gate!Next]_Gate!gate
  <2> DEFINE G == [Gate!Next]_Gate!gate
  <2> SUFFICES ASSUME Inv, [Next]_vars PROVE G
    OBVIOUS
  <2>1. ASSUME NEW n \in Nodes, Event(n) PROVE G
    BY <2>1, EventGate, MineGate, ConnectGate, RestartGate DEF Event
  <2>2. CASE mined' = mined /\ node' = node /\ net' = net
    <3>1. \A m \in Nodes : SameGate(m)
      BY <2>2 DEF SameGate
    <3> QED
      BY <3>1, GateStutters
  <2>3. ASSUME NEW n \in Nodes, Process(n) PROVE G
    BY <2>3, ProcessGate
  <2>4. ASSUME NEW r \in net, AnswerSync(r) \/ HandleSync(r) \/ OutboundFailure(r) PROVE G
    BY <2>4, AnswerGate, SettleGate
  <2> HIDE DEF G
  <2> QED
    BY <2>1, <2>2, <2>3, <2>4 DEF Next, Tick, vars
<1> QED
  BY <1>1, <1>2, Invariance, PTL DEF Spec, Gate!Spec, GateRefined

\* The gate as SyncGate sees it.
closedMap == ClosedMap(node)
outMap == OutMap(node, net)
givenUpMap == GivenUpMap(node)
producedMap == ProducedMap(mined)

\* Its types, and what can open a closed gate.
GateTypes ==
    /\ closedMap \in [Nodes -> BOOLEAN] /\ givenUpMap \in [Nodes -> BOOLEAN]
    /\ outMap \in [Nodes -> Nat] /\ producedMap = [n \in Nodes |-> producedMap[n]]
GateKeyed == \A n \in Nodes : closedMap[n] => outMap[n] > 0 \/ givenUpMap[n]

\* The invariant of Node gives the types.
LEMMA GateTyped == Inv => GateTypes
<1> SUFFICES ASSUME Inv PROVE GateTypes
  OBVIOUS
<1>1. ASSUME NEW n \in Nodes
      PROVE  /\ node[n].sync_pending \in BOOLEAN /\ node[n].abandoned \in BOOLEAN
             /\ Out(net, node[n], n) \in Nat
  <2>1. node[n].sync_pending \in BOOLEAN /\ node[n].abandoned \in BOOLEAN
    BY DEF Inv, NodeOK, Runs, GateOK
  <2>2. Cardinality(Asked(net, n)) \in Nat
    BY AskedFinite
  <2>3. Out(net, node[n], n) \in Nat
    BY <2>2 DEF Out
  <2> QED
    BY <2>1, <2>3
<1>2. closedMap \in [Nodes -> BOOLEAN]
  BY <1>1 DEF closedMap, ClosedMap
<1>3. givenUpMap \in [Nodes -> BOOLEAN]
  BY <1>1 DEF givenUpMap, GivenUpMap
<1>4. outMap \in [Nodes -> Nat]
  BY <1>1 DEF outMap, OutMap
<1>5. producedMap = [n \in Nodes |-> producedMap[n]]
  BY SMTT(30) DEF producedMap, ProducedMap
<1> QED
  BY <1>2, <1>3, <1>4, <1>5 DEF GateTypes

\* The steps of SyncGate on what Node has.
LEMMA GateMoves ==
    ASSUME [Gate!Next]_Gate!gate
    PROVE  \/ \E n \in Nodes :
                 \/ /\ closedMap' = [closedMap EXCEPT ![n] = TRUE]
                    /\ outMap' = [outMap EXCEPT ![n] = @ + 1]
                    /\ givenUpMap' = givenUpMap /\ producedMap' = producedMap
                 \/ /\ outMap[n] > 0 /\ outMap' = [outMap EXCEPT ![n] = @ - 1]
                    /\ closedMap' = [closedMap EXCEPT ![n] = FALSE]
                    /\ givenUpMap' = [givenUpMap EXCEPT ![n] = FALSE] /\ producedMap' = producedMap
                 \/ /\ outMap[n] > 0 /\ outMap' = [outMap EXCEPT ![n] = @ - 1]
                    /\ givenUpMap' = [givenUpMap EXCEPT ![n] = TRUE]
                    /\ closedMap' = closedMap /\ producedMap' = producedMap
                 \/ /\ ~closedMap[n]
                    /\ \E h : producedMap' = [producedMap EXCEPT ![n] = @ \cup {h}]
                    /\ closedMap' = closedMap /\ outMap' = outMap /\ givenUpMap' = givenUpMap
                 \/ /\ closedMap' = [closedMap EXCEPT ![n] = FALSE]
                    /\ outMap' = [outMap EXCEPT ![n] = 0]
                    /\ givenUpMap' = [givenUpMap EXCEPT ![n] = FALSE] /\ producedMap' = producedMap
           \/ /\ closedMap' = closedMap /\ outMap' = outMap
              /\ givenUpMap' = givenUpMap /\ producedMap' = producedMap
  BY DEF Gate!Next, Gate!gate, Gate!Ask, Gate!Settle, Gate!GiveUp, Gate!Produce, Gate!Forget,
         closedMap, outMap, givenUpMap, producedMap, ClosedMap, GivenUpMap, OutMap, ProducedMap,
         Out, Asked, Produced

\* Every step of SyncGate leaves a closed gate something to open it.
LEMMA GateStaysKeyed ==
    ASSUME GateTypes, GateTypes', GateKeyed, [Gate!Next]_Gate!gate
    PROVE  GateKeyed'
  BY GateMoves DEF GateTypes, GateKeyed

\* So a closed gate always has something to open it.
LEMMA AlwaysKeyed == IsInjective(MinerOf) => (Spec => []GateKeyed)
<1> SUFFICES ASSUME IsInjective(MinerOf) PROVE Spec => []GateKeyed
  OBVIOUS
<1>1. Gate!Init => GateKeyed
  BY DEF Gate!Init, GateKeyed, closedMap, ClosedMap
<1>2. Inv /\ Inv' /\ GateKeyed /\ [Gate!Next]_Gate!gate => GateKeyed'
  <2>1. Inv' => GateTypes'
    BY GateTyped, PTL
  <2> QED
    BY <2>1, GateTyped, GateStaysKeyed
<1>3. Spec => Gate!Init /\ [][Gate!Next]_Gate!gate
  BY GateIsRefined DEF GateRefined, Gate!Spec
<1> QED
  BY <1>1, <1>2, <1>3, Invariance, PTL

\* A node whose sync_pending flag is set has a request outstanding or has given
\* an answer up: the flag is never left set by any sequence of connections,
\* answers, failures and restarts.
THEOREM ClosedGateHasKey == IsInjective(MinerOf) => (Spec => []Gate!GateHasKey)
<1>1. GateKeyed => Gate!GateHasKey
  BY DEF GateKeyed, Gate!GateHasKey, closedMap, outMap, givenUpMap, ClosedMap, OutMap, GivenUpMap, Out, Asked
<1> QED
  BY <1>1, AlwaysKeyed, PTL

\* What a step may do while the gate is closed.
GateKept ==
    \A n \in Nodes :
        closedMap[n] => /\ producedMap'[n] = producedMap[n]
                        /\ ~closedMap'[n] /\ ~givenUpMap[n] => outMap'[n] < outMap[n]

\* While the gate is closed the mining tick produces nothing, and it opens only
\* as a request is settled or forgotten.
THEOREM GateIsObeyed == IsInjective(MinerOf) => (Spec => Gate!GateObeyed)
<1> SUFFICES ASSUME IsInjective(MinerOf) PROVE Spec => Gate!GateObeyed
  OBVIOUS
<1>1. Inv /\ Inv' /\ GateKeyed /\ [Gate!Next]_Gate!gate => GateKept
  <2> SUFFICES ASSUME Inv, Inv', GateKeyed, [Gate!Next]_Gate!gate PROVE GateKept
    OBVIOUS
  <2>1. GateTypes /\ GateTypes'
    <3>1. Inv' => GateTypes'
      BY GateTyped, PTL
    <3> QED
      BY <3>1, GateTyped
  <2> QED
    BY <2>1, GateMoves DEF GateTypes, GateKeyed, GateKept
<1>2. GateKept => Gate!Obeyed
  BY DEF GateKept, Gate!Obeyed, closedMap, outMap, givenUpMap, producedMap, ClosedMap, OutMap,
         GivenUpMap, ProducedMap, Out, Asked, Produced
<1>3. Spec => Gate!Init /\ [][Gate!Next]_Gate!gate
  BY GateIsRefined DEF GateRefined, Gate!Spec
<1> QED
  BY <1>1, <1>2, <1>3, AlwaysKeyed, Invariance, PTL DEF Gate!GateObeyed
=============================================================================
