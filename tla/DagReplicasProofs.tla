------------------------- MODULE DagReplicasProofs -------------------------
(***************************************************************************)
(* The consensus engine for every number of replicas, every K and every    *)
(* set of blocks.                                                          *)
(***************************************************************************)
EXTENDS DagReplicas, ConsensusTheorems

-----------------------------------------------------------------------------
(* The invariant. *)

\* The block DAG B with the heights T: it starts at genesis, and blocks are
\* higher than their parents.
BlocksOK(B, T) ==
    /\ IsFiniteSet(DOMAIN B) /\ DOMAIN B \subseteq Hashes \cup {Genesis} /\ Genesis \in DOMAIN B
    /\ B[Genesis] = <<>>
    /\ \A h \in DOMAIN B : B[h] \in Seq(DOMAIN B) /\ (h # Genesis => B[h] # <<>>)
    /\ T \in [DOMAIN B -> Nat]
    /\ \A h \in DOMAIN B : \A p \in ToSet(B[h]) : T[p] < T[h]

\* A part of it that leads down to genesis.
StoreOK(B, s) ==
    /\ DOMAIN s \subseteq DOMAIN B /\ s = [h \in DOMAIN s |-> B[h]]
    /\ Genesis \in DOMAIN s /\ Closed(s)
    /\ \A h \in DOMAIN s : s[h] \in Seq(DOMAIN s)

\* The data of its blocks are those that would be computed now.
CacheOK(s, c) ==
    /\ c \in [DOMAIN s -> DataOver(DOMAIN s)]
    /\ c[Genesis] = GenesisData
    /\ \A h \in DOMAIN s \ {Genesis} : c[h] = calculate_ghostdag_data(s, c, s[h])
    /\ \A h \in DOMAIN s : c[h].blues \cup c[h].reds \subseteq get_past_set(s, h)

Inv ==
    /\ BlocksOK(blocks, height)
    /\ store = [r \in Replicas |-> store[r]] /\ cache = [r \in Replicas |-> cache[r]]
    /\ \A r \in Replicas : StoreOK(blocks, store[r]) /\ CacheOK(store[r], cache[r])
    /\ \A q, r \in Replicas : Agree(cache[q], cache[r])

-----------------------------------------------------------------------------
(* Ingestion. *)

\* A parent-closed part of the DAG is a store with non-empty parents.
LEMMA StoreIs ==
    ASSUME NEW B, NEW T, BlocksOK(B, T), NEW s, StoreOK(B, s)
    PROVE  /\ DOMAIN s \subseteq Nat /\ IsFiniteSet(DOMAIN s) /\ Closed(s)
           /\ s[Genesis] = <<>>
           /\ \A h \in DOMAIN s : h \in DOMAIN B /\ s[h] = B[h] /\ ToSet(s[h]) \subseteq DOMAIN s
           /\ \A h \in DOMAIN s \ {Genesis} : s[h] \in Seq(DOMAIN s) /\ s[h] # <<>>
<1>1. \A h \in DOMAIN s : h \in DOMAIN B /\ s[h] = B[h]
  BY DEF StoreOK
<1>2. DOMAIN s \subseteq Nat
  BY HashAssumption DEF BlocksOK, StoreOK, Genesis
<1>3. IsFiniteSet(DOMAIN s) /\ \A h \in DOMAIN s : ToSet(s[h]) \subseteq DOMAIN s
  BY DEF StoreOK, Closed, Refers
<1> QED
  BY <1>1, <1>2, <1>3 DEF StoreOK, BlocksOK

\* A store with a new block, all of whose parents it has.
LEMMA IngestStore ==
    ASSUME NEW A, NEW T, BlocksOK(A, T), NEW s, StoreOK(A, s), NEW h, h \notin DOMAIN s,
           NEW parents \in Seq(DOMAIN s), NEW B, DOMAIN s \cup {h} \subseteq DOMAIN B,
           \A x \in DOMAIN s : B[x] = A[x], B[h] = parents
    PROVE  LET t == Extend(s, h, parents)
           IN  StoreOK(B, t) /\ Agree(s, t) /\ Agree(t, s)
<1> DEFINE t == Extend(s, h, parents)
<1>1. /\ DOMAIN t = DOMAIN s \cup {h} /\ t[h] = parents /\ \A x \in DOMAIN s : t[x] = s[x]
      /\ t = [x \in DOMAIN t |-> t[x]]
  BY DEF Extend
<1> HIDE DEF t
<1>2. \A x \in DOMAIN t : t[x] = B[x]
  BY <1>1, StoreIs
<1>3. \A x \in DOMAIN t : t[x] \in Seq(DOMAIN s) /\ ToSet(t[x]) \subseteq DOMAIN s
  <2>1. ToSet(parents) \subseteq DOMAIN s
    BY DEF ToSet
  <2>2. \A x \in DOMAIN s : s[x] \in Seq(DOMAIN s) /\ ToSet(s[x]) \subseteq DOMAIN s
    BY StoreIs DEF StoreOK
  <2> QED
    BY <1>1, <2>1, <2>2
<1>4. \A x \in DOMAIN t : t[x] \in Seq(DOMAIN t)
  <2>1. DOMAIN s \subseteq DOMAIN t
    BY <1>1
  <2> QED
    BY <1>3, <2>1
<1>5. Closed(t)
  <2>1. IsFiniteSet(DOMAIN t)
    BY <1>1, StoreIs, FS_AddElement
  <2> QED
    BY <1>1, <1>3, <2>1 DEF Closed, Refers
<1>6. t = [x \in DOMAIN t |-> B[x]]
  BY <1>1, <1>2
<1>7. StoreOK(B, t)
  BY <1>1, <1>4, <1>5, <1>6 DEF StoreOK
<1> QED
  BY <1>1, <1>7 DEF Agree, t

\* Its cache with the data of the new block.
LEMMA IngestCache ==
    ASSUME NEW A, NEW T, BlocksOK(A, T), NEW s, StoreOK(A, s), NEW c, CacheOK(s, c),
           NEW h \in Hashes, h \notin DOMAIN s, NEW parents \in Seq(DOMAIN s), parents # <<>>
    PROVE  LET t == Extend(s, h, parents)
               d == Extend(c, h, calculate_ghostdag_data(s, c, parents))
           IN  Closed(t) /\ Agree(s, t) => CacheOK(t, d)
<1> DEFINE t == Extend(s, h, parents)
           new == calculate_ghostdag_data(s, c, parents)
           d == Extend(c, h, new)
<1> SUFFICES ASSUME Closed(t), Agree(s, t) PROVE CacheOK(t, d)
  OBVIOUS
<1>1. /\ DOMAIN s \subseteq Nat /\ IsFiniteSet(DOMAIN s) /\ Closed(s) /\ Refers(s, DOMAIN s)
      /\ \A x \in DOMAIN s \ {Genesis} : s[x] \in Seq(DOMAIN s) /\ s[x] # <<>>
  BY StoreIs DEF Closed
<1>2. c \in [DOMAIN s -> DataOver(DOMAIN s)] /\ DOMAIN c = DOMAIN s
  BY DEF CacheOK
<1>3. new \in DataOver(DOMAIN s)
  BY <1>1, <1>2, DataType
<1>4. /\ DOMAIN t = DOMAIN s \cup {h} /\ t[h] = parents /\ \A x \in DOMAIN s : t[x] = s[x]
  BY DEF Extend
<1>5. /\ DOMAIN d = DOMAIN t /\ d[h] = new /\ \A x \in DOMAIN s : d[x] = c[x]
      /\ d = [x \in DOMAIN t |-> d[x]]
  BY <1>2 DEF Extend
<1> HIDE DEF t, d
<1>6. d \in [DOMAIN t -> DataOver(DOMAIN t)]
  <2>1. \A x \in DOMAIN t : d[x] \in DataOver(DOMAIN s)
    BY <1>2, <1>3, <1>4, <1>5
  <2>2. \A x \in DOMAIN t : d[x] \in DataOver(DOMAIN t)
    BY <1>4, <2>1, DataMonotone
  <2> QED
    BY <1>5, <2>2
<1>7. Agree(c, d)
  BY <1>2, <1>5 DEF Agree
<1>8. ASSUME NEW p \in Seq(DOMAIN s), p # <<>>
      PROVE  calculate_ghostdag_data(s, c, p) = calculate_ghostdag_data(t, d, p)
  <2>1. DOMAIN s \cap DOMAIN t = DOMAIN s
    BY <1>4
  <2>2. p \in Seq(DOMAIN s \cap DOMAIN t)
    BY <2>1
  <2>3. Comparable(s, t, c, d, p)
    BY <1>1, <1>2, <1>6, <1>7, <1>8, <2>2 DEF Comparable
  <2> QED
    BY <2>3, DataAgree
<1>9. ASSUME NEW x \in DOMAIN t \ {Genesis} PROVE d[x] = calculate_ghostdag_data(t, d, t[x])
  <2>1. CASE x = h
    BY <1>4, <1>5, <1>8, <2>1
  <2>2. CASE x # h
    <3>1. x \in DOMAIN s \ {Genesis}
      BY <1>4, <2>2
    <3>2. d[x] = calculate_ghostdag_data(s, c, s[x]) /\ t[x] = s[x]
      BY <1>4, <1>5, <3>1 DEF CacheOK
    <3> QED
      BY <1>1, <1>8, <3>1, <3>2
  <2> QED
    BY <2>1, <2>2
<1>10. ASSUME NEW x \in DOMAIN t PROVE d[x].blues \cup d[x].reds \subseteq get_past_set(t, x)
  <2>1. CASE x = h
    <3>1. ToSet(parents) \in SUBSET (DOMAIN s \cap DOMAIN t)
      BY <1>4 DEF ToSet
    <3>2. Exact(new, s, c, parents)
      <4>1. \A y \in DOMAIN s : c[y].blues \subseteq get_past_set(s, y)
        BY DEF CacheOK
      <4> QED
        BY <1>1, <1>2, <4>1, DataExact
    <3>3. new.blues \cup new.reds \subseteq Reach(s, ToSet(parents), {})
      BY <3>2 DEF Exact
    <3>4. Reach(s, ToSet(parents), {}) \subseteq Reach(t, ToSet(parents), {})
      BY <1>1, <3>1, ReachWithin
    <3>5. get_past_set(t, h) = Reach(t, ToSet(parents), {})
      BY <1>4 DEF get_past_set
    <3> QED
      BY <1>5, <2>1, <3>3, <3>4, <3>5
  <2>2. CASE x # h
    <3>1. x \in DOMAIN s /\ x \in DOMAIN s \cap DOMAIN t
      BY <1>4, <2>2
    <3>2. get_past_set(s, x) = get_past_set(t, x)
      BY <1>1, <3>1, PastAgree
    <3> QED
      BY <1>5, <3>1, <3>2 DEF CacheOK
  <2> QED
    BY <2>1, <2>2
<1>11. d[Genesis] = GenesisData
  BY <1>5 DEF CacheOK, StoreOK
<1> QED
  BY <1>6, <1>9, <1>10, <1>11 DEF CacheOK, t, d

\* B has the blocks of A and may have more.
Extends(B, A) == DOMAIN A \subseteq DOMAIN B /\ \A x \in DOMAIN A : B[x] = A[x]

\* A new block joins the DAG, one higher than its highest parent.
LEMMA NewBlockOK ==
    ASSUME BlocksOK(blocks, height), NEW h \in Hashes, NEW parents \in Seq(DOMAIN blocks),
           parents # <<>>, NewBlock(h, parents)
    PROVE  /\ BlocksOK(blocks', height') /\ Extends(blocks', blocks)
           /\ DOMAIN blocks' = DOMAIN blocks \cup {h} /\ blocks'[h] = parents
           /\ h \notin DOMAIN blocks
<1> DEFINE P == ToSet(parents)
           tall == {height[p] : p \in P}
           f == [p \in P |-> height[p]]
           top == 1 + Max(tall)
<1>1. /\ h \notin DOMAIN blocks /\ blocks' = Extend(blocks, h, parents)
      /\ height' = Extend(height, h, top)
  BY DEF NewBlock
<1>2. P \subseteq DOMAIN blocks /\ P # {} /\ IsFiniteSet(P)
  <2>1. P \subseteq DOMAIN blocks /\ parents[1] \in P
    BY DEF ToSet
  <2> QED
    BY <2>1, FS_Subset DEF BlocksOK
<1>3. f \in [P -> Int] /\ \A p \in P : f[p] = height[p] /\ f[p] \in Nat
  BY <1>2 DEF BlocksOK
<1>4. Values(tall, f, P)
  BY <1>3 DEF Values
<1> HIDE DEF f, P, tall
<1>5. Max(tall) \in Int /\ (\E p \in P : f[p] = Max(tall)) /\ \A p \in P : f[p] <= Max(tall)
  <2>1. f \in [P -> Int]
    BY <1>3
  <2> QED
    BY <1>2, <1>4, <2>1, MaxOfValues
<1>6. top \in Nat /\ \A p \in P : height[p] < top
  BY <1>3, <1>5
<1> HIDE DEF top
<1>7. /\ DOMAIN blocks' = DOMAIN blocks \cup {h} /\ blocks'[h] = parents
      /\ \A x \in DOMAIN blocks : blocks'[x] = blocks[x]
  BY <1>1 DEF Extend
<1>8. DOMAIN height = DOMAIN blocks /\ \A x \in DOMAIN blocks : height[x] \in Nat
  BY DEF BlocksOK
<1>9. /\ DOMAIN height' = DOMAIN blocks' /\ height'[h] = top
      /\ \A x \in DOMAIN blocks : height'[x] = height[x]
      /\ height' = [x \in DOMAIN blocks' |-> height'[x]]
  BY <1>1, <1>7, <1>8 DEF Extend
<1>10. height' \in [DOMAIN blocks' -> Nat]
  <2>1. \A x \in DOMAIN blocks' : height'[x] \in Nat
    BY <1>6, <1>7, <1>8, <1>9
  <2> QED
    BY <1>9, <2>1
<1>11. ASSUME NEW x \in DOMAIN blocks'
       PROVE  /\ blocks'[x] \in Seq(DOMAIN blocks') /\ (x # Genesis => blocks'[x] # <<>>)
              /\ \A p \in ToSet(blocks'[x]) : height'[p] < height'[x]
  <2>1. CASE x = h
    <3>1. blocks'[x] = parents /\ parents \in Seq(DOMAIN blocks') /\ ToSet(parents) = P
      BY <1>7, <2>1 DEF P
    <3>2. \A p \in P : height'[p] < height'[x]
      BY <1>2, <1>6, <1>9, <2>1
    <3> QED
      BY <3>1, <3>2
  <2>2. CASE x # h
    <3>1. x \in DOMAIN blocks /\ blocks'[x] = blocks[x] /\ blocks[x] \in Seq(DOMAIN blocks)
      BY <1>7, <2>2 DEF BlocksOK
    <3>2. ToSet(blocks[x]) \subseteq DOMAIN blocks /\ blocks[x] \in Seq(DOMAIN blocks')
      BY <1>7, <3>1 DEF ToSet
    <3>3. \A p \in ToSet(blocks[x]) : height[p] < height[x]
      BY <3>1 DEF BlocksOK
    <3>4. \A p \in ToSet(blocks[x]) : height'[p] < height'[x]
      BY <1>9, <3>1, <3>2, <3>3
    <3>5. x # Genesis => blocks[x] # <<>>
      BY <3>1 DEF BlocksOK
    <3> QED
      BY <3>1, <3>2, <3>4, <3>5
  <2> QED
    BY <2>1, <2>2
<1>12. /\ IsFiniteSet(DOMAIN blocks') /\ DOMAIN blocks' \subseteq Hashes \cup {Genesis}
       /\ Genesis \in DOMAIN blocks' /\ blocks'[Genesis] = <<>>
  <2>1. /\ IsFiniteSet(DOMAIN blocks) /\ DOMAIN blocks \subseteq Hashes \cup {Genesis}
        /\ Genesis \in DOMAIN blocks /\ blocks[Genesis] = <<>>
    BY DEF BlocksOK
  <2>2. IsFiniteSet(DOMAIN blocks \cup {h})
    BY <2>1, FS_AddElement
  <2> QED
    BY <1>7, <2>1, <2>2
<1> QED
  BY <1>1, <1>7, <1>10, <1>11, <1>12 DEF BlocksOK, Extends

\* A store stays one as the DAG grows.
LEMMA StoreStays ==
    ASSUME NEW A, NEW B, Extends(B, A), NEW s, StoreOK(A, s)
    PROVE  StoreOK(B, s)
<1>1. DOMAIN s \subseteq DOMAIN A /\ s = [h \in DOMAIN s |-> A[h]]
  BY DEF StoreOK
<1>2. \A h \in DOMAIN s : B[h] = A[h]
  BY <1>1 DEF Extends
<1>3. s = [h \in DOMAIN s |-> B[h]]
  BY <1>1, <1>2
<1> QED
  BY <1>1, <1>3 DEF StoreOK, Extends

\* Replica r has ingested block h with these parents.
Ingested(r, h, parents) ==
    /\ BlocksOK(blocks', height') /\ Extends(blocks', blocks)
    /\ h \in DOMAIN blocks' /\ blocks'[h] = parents
    /\ h \in Hashes /\ h \notin DOMAIN store[r]
    /\ parents \in Seq(DOMAIN store[r]) /\ parents # <<>>
    /\ ingest_block_only(r, h, parents)

\* What this does to the replicas.
LEMMA IngestedIs ==
    ASSUME Inv, NEW r \in Replicas, NEW h, NEW parents, Ingested(r, h, parents)
    PROVE  /\ store' = [q \in Replicas |-> store'[q]] /\ cache' = [q \in Replicas |-> cache'[q]]
           /\ store'[r] = Extend(store[r], h, parents)
           /\ cache'[r] = Extend(cache[r], h, calculate_ghostdag_data(store[r], cache[r], parents))
           /\ \A q \in Replicas \ {r} : store'[q] = store[q] /\ cache'[q] = cache[q]
<1>1. store = [q \in Replicas |-> store[q]] /\ cache = [q \in Replicas |-> cache[q]]
  BY DEF Inv
<1>2. /\ cache' = [cache EXCEPT ![r] =
                      Extend(cache[r], h, calculate_ghostdag_data(store[r], cache[r], parents))]
      /\ store' = [store EXCEPT ![r] = Extend(store[r], h, parents)]
  BY <1>1 DEF Ingested, ingest_block_only
<1> QED
  BY <1>1, <1>2

\* Ingestion keeps the invariant: a replica that had the block before has
\* computed the same data.
LEMMA IngestKeeps ==
    ASSUME Inv, NEW r \in Replicas, NEW h, NEW parents, Ingested(r, h, parents)
    PROVE  Inv'
<1> DEFINE s == store[r]
           c == cache[r]
           new == calculate_ghostdag_data(s, c, parents)
           t == Extend(s, h, parents)
           d == Extend(c, h, new)
<1>1. /\ store' = [q \in Replicas |-> store'[q]] /\ cache' = [q \in Replicas |-> cache'[q]]
      /\ store'[r] = t /\ cache'[r] = d
      /\ \A q \in Replicas \ {r} : store'[q] = store[q] /\ cache'[q] = cache[q]
  BY IngestedIs
<1>2. /\ BlocksOK(blocks, height) /\ StoreOK(blocks, s) /\ CacheOK(s, c)
      /\ \A q \in Replicas : StoreOK(blocks, store[q]) /\ CacheOK(store[q], cache[q])
      /\ \A p, q \in Replicas : Agree(cache[p], cache[q])
  BY DEF Inv
<1>3. /\ BlocksOK(blocks', height') /\ Extends(blocks', blocks)
      /\ h \in DOMAIN blocks' /\ blocks'[h] = parents
      /\ h \in Hashes /\ h \notin DOMAIN s /\ parents \in Seq(DOMAIN s) /\ parents # <<>>
  BY DEF Ingested
<1>4. DOMAIN s \subseteq DOMAIN blocks
  BY <1>2 DEF StoreOK
<1>5. StoreOK(blocks', t) /\ Agree(s, t)
  <2>1. DOMAIN s \cup {h} \subseteq DOMAIN blocks' /\ \A x \in DOMAIN s : blocks'[x] = blocks[x]
    BY <1>3, <1>4 DEF Extends
  <2> HIDE DEF s
  <2> QED
    BY <1>2, <1>3, <2>1, IngestStore
<1>6. CacheOK(t, d)
  <2>1. Closed(t) /\ Agree(s, t)
    BY <1>5 DEF StoreOK
  <2> HIDE DEF s, c
  <2> QED
    BY <1>2, <1>3, <2>1, IngestCache
<1>7. c \in [DOMAIN s -> DataOver(DOMAIN s)] /\ DOMAIN c = DOMAIN s
  BY <1>2 DEF CacheOK
<1>8. DOMAIN d = DOMAIN c \cup {h} /\ d[h] = new /\ \A x \in DOMAIN c : d[x] = c[x]
  BY <1>3, <1>7 DEF Extend
<1>9. ASSUME NEW q \in Replicas \ {r} PROVE StoreOK(blocks', store'[q]) /\ CacheOK(store'[q], cache'[q])
  BY <1>1, <1>2, <1>3, StoreStays
<1>10. ASSUME NEW q \in Replicas \ {r} PROVE Agree(d, cache[q]) /\ Agree(cache[q], d)
  <2> DEFINE u == store[q]
             e == cache[q]
  <2>1. Agree(c, e) /\ StoreOK(blocks, u) /\ CacheOK(u, e)
    BY <1>2
  <2>2. e \in [DOMAIN u -> DataOver(DOMAIN u)] /\ DOMAIN e = DOMAIN u
    BY <2>1 DEF CacheOK
  <2> HIDE DEF s, c, t, d, u, e
  <2>3. ASSUME h \in DOMAIN e PROVE d[h] = e[h]
    <3>1. h \in DOMAIN u \ {Genesis} /\ h \in DOMAIN blocks
      BY <1>3, <2>1, <2>2, <2>3, HashAssumption DEF StoreOK
    <3>2. blocks'[h] = blocks[h]
      BY <1>3, <3>1 DEF Extends
    <3>3. u[h] = parents /\ parents \in Seq(DOMAIN u)
      BY <1>2, <1>3, <2>1, <3>1, <3>2, StoreIs
    <3>4. e[h] = calculate_ghostdag_data(u, e, parents)
      BY <2>1, <3>1, <3>3 DEF CacheOK
    <3>5. parents \in Seq(DOMAIN s \cap DOMAIN u)
      BY <1>3, <3>3
    <3>6. Closed(s) /\ Closed(u) /\ DOMAIN s \subseteq Nat /\ Agree(s, u)
      BY <1>2, <2>1, StoreIs DEF Agree
    <3>7. Comparable(s, u, c, e, parents)
      BY <1>3, <1>7, <2>1, <2>2, <3>5, <3>6 DEF Comparable
    <3>8. calculate_ghostdag_data(s, c, parents) = calculate_ghostdag_data(u, e, parents)
      BY <3>7, DataAgree
    <3> QED
      BY <1>8, <3>4, <3>8
  <2>4. \A x \in DOMAIN d \cap DOMAIN e : d[x] = e[x]
    BY <1>8, <2>1, <2>3 DEF Agree
  <2> QED
    BY <2>4 DEF Agree, e
<1>11. Agree(d, d)
  BY DEF Agree
<1> HIDE DEF s, c, t, d
<1>12. \A p, q \in Replicas : Agree(cache'[p], cache'[q])
  BY <1>1, <1>2, <1>10, <1>11
<1>13. \A q \in Replicas : StoreOK(blocks', store'[q]) /\ CacheOK(store'[q], cache'[q])
  BY <1>1, <1>5, <1>6, <1>9
<1> QED
  BY <1>1, <1>3, <1>12, <1>13 DEF Inv

\* A tip of the store that no other tip outweighs.
BestTip(s, c, tip) ==
    /\ tip \in compute_tips(s)
    /\ tip \in DOMAIN s
    /\ \A h \in compute_tips(s) : c[h].blue_score <= c[tip].blue_score

\* Fork choice finds one.
LEMMA TipIs ==
    ASSUME NEW B, NEW T, BlocksOK(B, T), NEW s, StoreOK(B, s), NEW c, CacheOK(s, c)
    PROVE  BestTip(s, c, select_canonical_tip(s, c))
<1> DEFINE ht == [h \in DOMAIN s |-> T[h]]
<1>2. /\ DOMAIN s \subseteq Nat /\ IsFiniteSet(DOMAIN s) /\ DOMAIN s # {}
      /\ \A h \in DOMAIN s : h \in DOMAIN B /\ s[h] = B[h] /\ ToSet(s[h]) \subseteq DOMAIN s
  BY StoreIs DEF StoreOK
<1>3. c \in [DOMAIN s -> DataOver(DOMAIN s)]
  BY DEF CacheOK
<1>4. ht \in [DOMAIN s -> Int] /\ \A h \in DOMAIN s : ht[h] = T[h]
  <2>1. \A h \in DOMAIN s : T[h] \in Nat
    BY <1>2 DEF BlocksOK
  <2> QED
    BY <2>1
<1> HIDE DEF ht
<1>5. \A h \in DOMAIN s : \A p \in ToSet(s[h]) \cap DOMAIN s : ht[p] < ht[h]
  BY <1>2, <1>4 DEF BlocksOK
<1> DEFINE H == DOMAIN s
<1>6. H \subseteq Nat /\ DOMAIN s \subseteq H /\ c \in [DOMAIN s -> DataOver(H)]
  BY <1>2, <1>3
<1> HIDE DEF H
<1> QED
  BY <1>2, <1>4, <1>5, <1>6, CanonicalTip DEF BestTip

\* The block of a mining tick is ingested.
LEMMA MineIngests ==
    ASSUME Inv, NEW r \in Replicas, NEW h \in Hashes, Mine(r, h)
    PROVE  Ingested(r, h, <<select_canonical_tip(store[r], cache[r])>>)
<1> DEFINE tip == select_canonical_tip(store[r], cache[r])
           parents == <<tip>>
<1>1. tip \in DOMAIN store[r]
  BY TipIs DEF Inv, BestTip
<1>2. NewBlock(h, parents) /\ ingest_block_only(r, h, parents)
  BY DEF Mine
<1> HIDE DEF tip
<1>3. BlocksOK(blocks, height) /\ DOMAIN store[r] \subseteq DOMAIN blocks
  BY DEF Inv, StoreOK
<1>4. parents \in Seq(DOMAIN store[r]) /\ parents \in Seq(DOMAIN blocks) /\ parents # <<>>
  <2>1. ASSUME NEW S, tip \in S PROVE <<tip>> \in Seq(S) /\ <<tip>> # <<>>
    BY <2>1
  <2> QED
    BY <1>1, <1>3, <2>1
<1> HIDE DEF parents
<1>5. /\ BlocksOK(blocks', height') /\ Extends(blocks', blocks)
      /\ h \in DOMAIN blocks' /\ blocks'[h] = parents /\ h \notin DOMAIN blocks
  BY <1>2, <1>3, <1>4, NewBlockOK
<1> QED
  BY <1>2, <1>3, <1>4, <1>5 DEF Ingested, parents, tip

\* So is a block of another miner.
LEMMA ForeignIngests ==
    ASSUME Inv, NEW r \in Replicas, NEW b \in ForeignBlocks, Foreign(r, b)
    PROVE  Ingested(r, b.hash, b.parents)
<1> DEFINE h == b.hash
           parents == b.parents
<1>1. h \in Hashes /\ parents \in Seq(Hashes \cup {Genesis}) /\ parents # <<>>
  BY ForeignAssumption
<1>2. /\ ToSet(parents) \subseteq DOMAIN store[r]
      /\ NewBlock(h, parents) /\ ingest_block_only(r, h, parents)
  BY DEF Foreign
<1> HIDE DEF h, parents
<1>3. BlocksOK(blocks, height) /\ DOMAIN store[r] \subseteq DOMAIN blocks
  BY DEF Inv, StoreOK
<1>4. parents \in Seq(DOMAIN store[r]) /\ parents \in Seq(DOMAIN blocks)
  <2>1. \A i \in 1..Len(parents) : parents[i] \in DOMAIN store[r]
    BY <1>1, <1>2 DEF ToSet
  <2>2. parents \in Seq(DOMAIN store[r])
    BY <1>1, <2>1
  <2> QED
    BY <1>3, <2>2
<1>5. /\ BlocksOK(blocks', height') /\ Extends(blocks', blocks)
      /\ h \in DOMAIN blocks' /\ blocks'[h] = parents /\ h \notin DOMAIN blocks
  BY <1>1, <1>2, <1>3, <1>4, NewBlockOK
<1> QED
  BY <1>1, <1>2, <1>3, <1>4, <1>5 DEF Ingested, parents, h

\* And one that is delivered once its parents are there.
LEMMA DeliverIngests ==
    ASSUME Inv, NEW r \in Replicas, NEW h \in Hashes, Deliver(r, h)
    PROVE  Ingested(r, h, blocks[h])
<1> DEFINE parents == blocks[h]
<1>1. /\ h \in DOMAIN blocks /\ h \notin DOMAIN store[r] /\ ToSet(parents) \subseteq DOMAIN store[r]
      /\ ingest_block_only(r, h, parents) /\ blocks' = blocks /\ height' = height
  BY DEF Deliver
<1>2. BlocksOK(blocks, height)
  BY DEF Inv
<1>3. parents \in Seq(DOMAIN blocks) /\ parents # <<>>
  BY <1>1, <1>2, HashAssumption DEF BlocksOK
<1> HIDE DEF parents
<1>4. parents \in Seq(DOMAIN store[r])
  <2>1. \A i \in 1..Len(parents) : parents[i] \in DOMAIN store[r]
    BY <1>1, <1>3 DEF ToSet
  <2> QED
    BY <1>3, <2>1
<1> QED
  BY <1>1, <1>2, <1>3, <1>4 DEF Ingested, Extends, parents

-----------------------------------------------------------------------------
(* Restarts. *)

\* The order in which blocks are read back.
LoadOrder(S) == {p \in S \X S : HeightFirst(p[1], p[2])}

\* It puts every block in its place, by height and hash.
LEMMA LoadLists ==
    ASSUME NEW S, IsFiniteSet(S), S \subseteq Nat, \A h \in S : height[h] \in Nat
    PROVE  Lists(InOrder(S, HeightFirst), S, LoadOrder(S))
<1> DEFINE R == LoadOrder(S)
           q == InOrder(S, HeightFirst)
           at(k) == CHOOSE x \in S : Cardinality({y \in S : HeightFirst(y, x)}) = k - 1
<1>1. \A x, y \in S : <<x, y>> \in R <=> HeightFirst(x, y)
  BY DEF LoadOrder
<1>2. Orders(R, S)
  <2> HIDE DEF R
  <2>1. \A x \in S : ~(<<x, x>> \in R)
    BY <1>1 DEF HeightFirst
  <2>2. \A x, y \in S : x # y => <<x, y>> \in R \/ <<y, x>> \in R
    BY <1>1 DEF HeightFirst
  <2>3. \A x, y, z \in S : <<x, y>> \in R /\ <<y, z>> \in R => <<x, z>> \in R
    BY <1>1 DEF HeightFirst
  <2> QED
    BY <2>1, <2>2, <2>3 DEF Orders
<1>3. \A x \in S : {y \in S : HeightFirst(y, x)} = {y \in S : <<y, x>> \in R}
  <2> HIDE DEF R
  <2> QED
    BY <1>1
<1>4. q = [k \in 1..Cardinality(S) |-> at(k)]
  BY DEF InOrder
<1>5. ASSUME NEW k \in 1..Cardinality(S), NEW x \in S,
             Cardinality({y \in S : HeightFirst(y, x)}) = k - 1
      PROVE  at(k) \in S /\ Cardinality({y \in S : HeightFirst(y, at(k))}) = k - 1
  BY <1>5
<1> HIDE DEF q, at, R
<1>6. Ranks(q, S, R)
  <2>1. q = [k \in 1..Cardinality(S) |-> q[k]] /\ \A k \in 1..Cardinality(S) : q[k] = at(k)
    BY <1>4
  <2>2. ASSUME NEW k \in 1..Cardinality(S), NEW x \in S,
               Cardinality({y \in S : <<y, x>> \in R}) = k - 1
        PROVE  q[k] \in S /\ Cardinality({y \in S : <<y, q[k]>> \in R}) = k - 1
    <3>1. Cardinality({y \in S : HeightFirst(y, x)}) = k - 1
      BY <1>3, <2>2
    <3>2. at(k) \in S /\ Cardinality({y \in S : HeightFirst(y, at(k))}) = k - 1
      BY <1>5, <3>1
    <3>3. {y \in S : HeightFirst(y, at(k))} = {y \in S : <<y, at(k)>> \in R}
      BY <1>3, <3>2
    <3> QED
      BY <2>1, <3>2, <3>3
  <2> QED
    BY <2>1, <2>2 DEF Ranks
<1> QED
  BY <1>2, <1>6, InOrderLists DEF R, q

\* Stores and data over the hashes H, as they are during the replay.
Memories(H) == UNION {[store : [D -> Seq(H)], cache : [D -> DataOver(H)]] : D \in SUBSET H}
Empty == [store |-> [h \in {Genesis} |-> <<>>], cache |-> [h \in {Genesis} |-> GenesisData]]

\* The replay starts with genesis alone.
LEMMA EmptyIs ==
    ASSUME NEW H, Genesis \in H
    PROVE  Empty \in Memories(H)
<1>1. GenesisData \in DataOver(H)
  BY DEF GenesisData, DataOver
<1>2. <<>> \in Seq(H)
  OBVIOUS
<1>3. {Genesis} \in SUBSET H
  OBVIOUS
<1>4. Empty \in [store : [{Genesis} -> Seq(H)], cache : [{Genesis} -> DataOver(H)]]
  BY <1>1, <1>2 DEF Empty
<1> QED
  BY <1>3, <1>4 DEF Memories

\* Reading a block back gives a store and data.
LEMMA LoadIs ==
    ASSUME NEW H, IsFiniteSet(H), H \subseteq Nat, NEW m \in Memories(H), NEW x \in H,
           blocks[x] \in Seq(H)
    PROVE  Load(m, x) \in Memories(H)
<1>1. PICK D \in SUBSET H : m \in [store : [D -> Seq(H)], cache : [D -> DataOver(H)]]
  BY DEF Memories
<1> DEFINE s == m.store
           c == m.cache
           E == D \cup {x}
           new == calculate_ghostdag_data(s, c, blocks[x])
<1>2. s \in [D -> Seq(H)] /\ c \in [D -> DataOver(H)]
  BY <1>1
<1>3. Load(m, x) = [store |-> Extend(s, x, blocks[x]), cache |-> Extend(c, x, new)]
  BY DEF Load
<1> HIDE DEF s, c
<1>4. Refers(s, H)
  <2>1. IsFiniteSet(D) /\ DOMAIN s = D
    BY <1>2, FS_Subset
  <2>2. ASSUME NEW h \in D PROVE ToSet(s[h]) \subseteq H
    <3>1. s[h] \in Seq(H)
      BY <1>2
    <3> QED
      BY <3>1 DEF ToSet
  <2> QED
    BY <2>1, <2>2 DEF Refers
<1>5. new \in DataOver(H)
  BY <1>2, <1>4, DataType
<1> HIDE DEF new
<1>6. Extend(s, x, blocks[x]) \in [E -> Seq(H)]
  BY <1>2 DEF Extend
<1>7. Extend(c, x, new) \in [E -> DataOver(H)]
  BY <1>2, <1>5 DEF Extend
<1>8. Load(m, x) \in [store : [E -> Seq(H)], cache : [E -> DataOver(H)]] /\ E \in SUBSET H
  BY <1>3, <1>6, <1>7
<1> HIDE DEF E
<1> QED
  BY <1>8 DEF Memories

\* r is a run of the replay of the blocks q.
Rebuilds(r, q, n) ==
    /\ r[0] = Empty /\ r[n] = Rebuilt(q)
    /\ \A k \in 1..n : r[k] = Load(r[k - 1], q[k])

\* The replay is a run over the blocks read back.
LEMMA RebuiltRun ==
    ASSUME NEW H, IsFiniteSet(H), H \subseteq Nat, Genesis \in H, \A x \in H : blocks[x] \in Seq(H),
           NEW n \in Nat, NEW q \in [1..n -> H]
    PROVE  \E r \in [0..n -> Memories(H)] : Rebuilds(r, q, n)
<1> DEFINE V == Memories(H)
           S == 1..n
           Eq(g) == g = [u \in SUBSET S |->
                            IF u = {} THEN Empty ELSE Load(g[u \ {Max(u)}], q[Max(u)])]
           G == [p \in S \X V |-> Load(p[2], q[p[1]])]
           h == CHOOSE g : Eq(g)
<1>1. Rebuilt(q) = h[S]
  <2>1. DOMAIN q = S
    OBVIOUS
  <2>2. Rebuilt(q) = FoldLeft(Load, Empty, q)
    BY DEF Rebuilt, Empty
  <2> QED
    BY <2>1, <2>2 DEF FoldLeft, MapThenFoldSet
<1>2. Empty \in V
  BY EmptyIs
<1>3. G \in [S \X V -> V]
  <2> SUFFICES ASSUME NEW p \in S \X V PROVE Load(p[2], q[p[1]]) \in V
    OBVIOUS
  <2>1. p[1] \in S /\ p[2] \in V /\ q[p[1]] \in H
    OBVIOUS
  <2> QED
    BY <2>1, LoadIs
<1> HIDE DEF V
<1>4. \A k \in S, v \in V : G[<<k, v>>] = Load(v, q[k])
  OBVIOUS
<1> HIDE DEF G
<1>5. PICK g \in [SUBSET S -> V] : LeftFold(g, n, Empty, G)
  BY <1>2, <1>3, LeftFoldExists
<1>6. ASSUME NEW u \in SUBSET S, u # {} PROVE Max(u) \in S /\ u \ {Max(u)} \in SUBSET S
  BY <1>6, MaxInSet
<1>7. Eq(g)
  <2>1. ASSUME NEW u \in SUBSET S, u # {} PROVE g[u] = Load(g[u \ {Max(u)}], q[Max(u)])
    <3>1. g[u \ {Max(u)}] \in V
      BY <1>6, <2>1
    <3> QED
      BY <1>4, <1>5, <1>6, <2>1, <3>1 DEF LeftFold
  <2>2. g[{}] = Empty
    BY <1>5 DEF LeftFold
  <2> QED
    BY <2>1, <2>2
<1>8. Eq(h)
  <2> HIDE DEF Eq
  <2> QED
    BY <1>7
<1> HIDE DEF h
<1>9. h[{}] = Empty
  BY <1>8
<1>10. FoldsWithin(h, n, V, Empty, G)
  <2> SUFFICES ASSUME NEW u \in SUBSET S, u # {}, h[u \ {Max(u)}] \in V
               PROVE  h[u] = G[<<Max(u), h[u \ {Max(u)}]>>]
    BY <1>9 DEF FoldsWithin
  <2>1. h[u] = Load(h[u \ {Max(u)}], q[Max(u)])
    BY <1>8
  <2> HIDE DEF Eq
  <2> QED
    BY <1>4, <1>6, <2>1
<1>11. PICK r \in [0..n -> V] : FoldRuns(r, n, Empty, G, h[1..n])
  <2> HIDE DEF Eq
  <2> QED
    BY <1>2, <1>3, <1>10, LeftFoldRuns
<1>12. ASSUME NEW k \in 1..n PROVE r[k] = Load(r[k - 1], q[k])
  <2>1. k - 1 \in 0..n
    OBVIOUS
  <2>2. r[k - 1] \in V
    BY <2>1
  <2> HIDE DEF Eq
  <2> QED
    BY <1>4, <1>11, <2>2 DEF FoldRuns
<1>13. Rebuilds(r, q, n)
  <2> HIDE DEF Eq
  <2> QED
    BY <1>1, <1>11, <1>12 DEF Rebuilds, FoldRuns
<1> QED
  BY <1>13 DEF V

\* The blocks W of a replica have been read back, with the data they had.
Stage(m, s, c, W) ==
    /\ m.store = [h \in W |-> s[h]] /\ m.cache = [h \in W |-> c[h]]
    /\ Closed(m.store) /\ m.cache \in [W -> DataOver(W)]

\* The next block gets the data it had, if its parents have been read back.
LEMMA StageStep ==
    ASSUME NEW A, NEW T, BlocksOK(A, T), NEW s, StoreOK(A, s), NEW c, CacheOK(s, c),
           NEW W \in SUBSET DOMAIN s, NEW m, Stage(m, s, c, W),
           NEW x \in DOMAIN s \ W, x # Genesis, ToSet(s[x]) \subseteq W, blocks[x] = s[x]
    PROVE  Stage(Load(m, x), s, c, W \cup {x})
<1> DEFINE t == m.store
           d == m.cache
           new == calculate_ghostdag_data(t, d, s[x])
           U == W \cup {x}
<1>1. /\ t = [h \in W |-> s[h]] /\ d = [h \in W |-> c[h]] /\ Closed(t) /\ d \in [W -> DataOver(W)]
  BY DEF Stage
<1>2. Load(m, x) = [store |-> Extend(t, x, s[x]), cache |-> Extend(d, x, new)]
  BY DEF Load
<1> HIDE DEF t, d
<1>3. /\ DOMAIN s \subseteq Nat /\ IsFiniteSet(DOMAIN s) /\ Closed(s)
      /\ s[x] \in Seq(DOMAIN s) /\ s[x] # <<>>
  BY StoreIs
<1>4. DOMAIN t = W /\ DOMAIN d = W /\ DOMAIN c = DOMAIN s /\ W \subseteq Nat /\ IsFiniteSet(W)
  <2>1. DOMAIN c = DOMAIN s
    BY DEF CacheOK
  <2>2. IsFiniteSet(W)
    BY <1>3, FS_Subset
  <2> QED
    BY <1>1, <1>3, <2>1, <2>2
<1>5. s[x] \in Seq(W)
  <2>1. \A i \in 1..Len(s[x]) : s[x][i] \in W
    BY <1>3 DEF ToSet
  <2> QED
    BY <1>3, <2>1
<1>6. new = c[x]
  <2>1. Agree(t, s) /\ Agree(d, c)
    BY <1>1, <1>4 DEF Agree
  <2>2. c \in [DOMAIN s -> DataOver(DOMAIN s)] /\ d \in [DOMAIN t -> DataOver(DOMAIN t)]
    BY <1>1, <1>4 DEF CacheOK
  <2>3. DOMAIN t \cap DOMAIN s = W
    BY <1>4
  <2>4. Comparable(t, s, d, c, s[x])
    BY <1>1, <1>3, <1>4, <1>5, <2>1, <2>2, <2>3 DEF Comparable
  <2>5. new = calculate_ghostdag_data(s, c, s[x])
    BY <2>4, DataAgree
  <2> QED
    BY <2>5 DEF CacheOK
<1>7. new \in DataOver(W)
  <2>1. Refers(t, W)
    BY <1>1, <1>4 DEF Closed
  <2> QED
    BY <1>1, <1>4, <1>5, <2>1, DataType
<1> HIDE DEF new
<1>8. Extend(t, x, s[x]) = [h \in U |-> s[h]] /\ Extend(d, x, new) = [h \in U |-> c[h]]
  BY <1>1, <1>4, <1>6 DEF Extend
<1>9. [h \in U |-> c[h]] \in [U -> DataOver(U)]
  <2>1. \A h \in W : c[h] \in DataOver(W)
    BY <1>1
  <2>2. \A h \in U : c[h] \in DataOver(W)
    BY <1>6, <1>7, <2>1
  <2>3. \A h \in U : c[h] \in DataOver(U)
    BY <2>2, DataMonotone
  <2> QED
    BY <2>3
<1>10. Closed([h \in U |-> s[h]])
  <2>1. IsFiniteSet(U)
    BY <1>4, FS_AddElement
  <2>2. \A h \in W : ToSet(s[h]) \subseteq W
    BY <1>1 DEF Closed, Refers
  <2>3. \A h \in U : ToSet(s[h]) \subseteq U
    BY <2>2
  <2> QED
    BY <2>1, <2>3 DEF Closed, Refers
<1> DEFINE l == Load(m, x)
<1>11. l.store = Extend(t, x, s[x]) /\ l.cache = Extend(d, x, new)
  BY <1>2
<1> HIDE DEF U, l
<1>12. l.store = [h \in U |-> s[h]] /\ l.cache = [h \in U |-> c[h]]
  BY <1>8, <1>11
<1>13. Closed(l.store) /\ l.cache \in [U -> DataOver(U)]
  BY <1>9, <1>10, <1>12
<1>14. Stage(l, s, c, U)
  BY <1>12, <1>13 DEF Stage
<1> QED
  BY <1>14 DEF l, U

\* After a restart a replica has the store and the cache it had before.
LEMMA RestartSame ==
    ASSUME Inv, NEW r \in Replicas
    PROVE  LET loaded == Rebuilt(InOrder(DOMAIN store[r] \ {Genesis}, HeightFirst))
           IN  loaded.store = store[r] /\ loaded.cache = cache[r]
<1> DEFINE s == store[r]
           c == cache[r]
           H == DOMAIN s
           S == H \ {Genesis}
           n == Cardinality(S)
           q == InOrder(S, HeightFirst)
<1>1. BlocksOK(blocks, height) /\ StoreOK(blocks, s) /\ CacheOK(s, c)
  BY DEF Inv
<1> HIDE DEF s, c
<1>2. /\ H \subseteq Nat /\ IsFiniteSet(H) /\ Closed(s) /\ s[Genesis] = <<>> /\ Genesis \in H
      /\ \A h \in H : h \in DOMAIN blocks /\ s[h] = blocks[h] /\ ToSet(s[h]) \subseteq H
      /\ \A h \in H : blocks[h] \in Seq(H)
  BY <1>1, StoreIs DEF StoreOK
<1>3. IsFiniteSet(S) /\ n \in Nat /\ S \subseteq Nat /\ \A h \in H : height[h] \in Nat
  <2>1. IsFiniteSet(S)
    BY <1>2, FS_Subset
  <2> QED
    BY <1>1, <1>2, <2>1, FS_CardinalityType DEF BlocksOK
<1>4. Lists(q, S, LoadOrder(S))
  BY <1>3, LoadLists
<1>5. /\ q \in [1..n -> S] /\ (\A x \in S : \E i \in 1..n : q[i] = x)
      /\ \A i, j \in 1..n : i < j => q[i] # q[j] /\ <<q[i], q[j]>> \in LoadOrder(S)
  BY <1>4 DEF Lists
<1>6. \A h \in H : \A p \in ToSet(s[h]) : height[p] < height[h]
  BY <1>1, <1>2 DEF BlocksOK
<1>7. s = [h \in H |-> s[h]] /\ c \in [H -> DataOver(H)] /\ c = [h \in H |-> c[h]]
      /\ c[Genesis] = GenesisData
  <2>1. s = [h \in H |-> blocks[h]] /\ c \in [H -> DataOver(H)] /\ c[Genesis] = GenesisData
    BY <1>1 DEF StoreOK, CacheOK
  <2> QED
    BY <1>2, <2>1
<1>8. Rebuilt(InOrder(DOMAIN store[r] \ {Genesis}, HeightFirst)) = Rebuilt(q)
  BY DEF s
<1> HIDE DEF q, n
<1>9. q \in [1..n -> H]
  BY <1>5
<1>10. PICK m \in [0..n -> Memories(H)] : Rebuilds(m, q, n)
  <2> HIDE DEF H
  <2> QED
    BY <1>2, <1>3, <1>9, RebuiltRun
<1> DEFINE W(k) == {Genesis} \cup {q[i] : i \in 1..k}
           Q == {k \in Nat : k <= n => Stage(m[k], s, c, W(k))}
<1>11. 0 \in Q
  <2>1. W(0) = {Genesis} /\ m[0] = Empty
    BY <1>10 DEF Rebuilds
  <2>2. Empty.store = [h \in {Genesis} |-> s[h]] /\ Empty.cache = [h \in {Genesis} |-> c[h]]
    BY <1>2, <1>7 DEF Empty
  <2>3. Closed([h \in {Genesis} |-> s[h]])
    <3>1. IsFiniteSet({Genesis}) /\ ToSet(s[Genesis]) = {}
      <4>1. ToSet(<<>>) = {}
        BY DEF ToSet
      <4>2. s[Genesis] = <<>>
        BY <1>2
      <4>3. IsFiniteSet({Genesis})
        BY FS_Singleton
      <4> QED
        BY <4>1, <4>2, <4>3
    <3> QED
      BY <3>1 DEF Closed, Refers
  <2>4. [h \in {Genesis} |-> c[h]] \in [{Genesis} -> DataOver({Genesis})]
    <3>1. GenesisData \in DataOver({Genesis})
      BY DEF GenesisData, DataOver
    <3> QED
      BY <1>7, <3>1
  <2> QED
    BY <2>1, <2>2, <2>3, <2>4 DEF Stage
<1>12. ASSUME NEW k \in Nat, k \in Q PROVE k + 1 \in Q
  <2> SUFFICES ASSUME k + 1 <= n PROVE Stage(m[k + 1], s, c, W(k + 1))
    OBVIOUS
  <2> DEFINE x == q[k + 1]
  <2>1. k + 1 \in 1..n /\ (k + 1) - 1 = k /\ Stage(m[k], s, c, W(k)) /\ \A i \in 1..k : i \in 1..n /\ i < k + 1
    BY <1>3, <1>12
  <2>2. m[k + 1] = Load(m[k], x)
    BY <1>10, <2>1 DEF Rebuilds
  <2>3. x \in S /\ x \notin W(k) /\ W(k) \subseteq H
    <3>1. x \in S /\ \A i \in 1..k : q[i] # x /\ q[i] \in S
      BY <1>5, <2>1
    <3>2. Genesis \in H /\ S \subseteq H /\ x # Genesis
      BY <1>2, <3>1
    <3> HIDE DEF x, S, H
    <3> QED
      BY <3>1, <3>2
  <2>4. W(k + 1) = W(k) \cup {x}
    <3>1. \A i \in 1..(k + 1) : i \in 1..k \/ i = k + 1
      OBVIOUS
    <3>2. \A i \in 1..k : i \in 1..(k + 1)
      OBVIOUS
    <3>3. k + 1 \in 1..(k + 1)
      OBVIOUS
    <3> QED
      BY <3>1, <3>2, <3>3
  <2>5. ASSUME NEW p \in ToSet(s[x]), p # Genesis PROVE p \in W(k)
    <3>1. p \in S /\ height[p] < height[x] /\ height[p] \in Nat /\ height[x] \in Nat
      BY <1>2, <1>3, <1>6, <2>3, <2>5
    <3>2. PICK j \in 1..n : q[j] = p
      BY <1>5, <3>1
    <3>3. j # k + 1
      BY <3>1, <3>2
    <3>4. ASSUME k + 1 < j PROVE FALSE
      <4>1. <<x, p>> \in LoadOrder(S)
        BY <1>5, <2>1, <3>2, <3>4
      <4>2. <<x, p>>[1] = x /\ <<x, p>>[2] = p
        OBVIOUS
      <4>3. HeightFirst(x, p)
        BY <4>1, <4>2 DEF LoadOrder
      <4> QED
        BY <3>1, <4>3 DEF HeightFirst
    <3>5. j \in 1..k
      BY <1>3, <2>1, <3>3, <3>4
    <3> QED
      BY <3>2, <3>5
  <2>6. ToSet(s[x]) \subseteq W(k)
    BY <2>5
  <2>7. blocks[x] = s[x] /\ x # Genesis /\ x \in H \ W(k) /\ W(k) \in SUBSET H
    BY <1>2, <2>3
  <2> HIDE DEF W, x
  <2>8. Stage(Load(m[k], x), s, c, W(k) \cup {x})
    BY <1>1, <2>1, <2>6, <2>7, StageStep
  <2> QED
    BY <2>2, <2>4, <2>8
<1>13. Nat \subseteq Q
  <2> HIDE DEF Q
  <2> QED
    BY <1>11, <1>12, NatSetInduction
<1>14. Stage(m[n], s, c, W(n)) /\ m[n] = Rebuilt(q)
  <2>1. n \in Q /\ n <= n
    <3> HIDE DEF Q
    <3> QED
      BY <1>3, <1>13
  <2> HIDE DEF W, H
  <2> QED
    BY <1>10, <2>1 DEF Rebuilds
<1>15. W(n) = H
  <2>1. (\A i \in 1..n : q[i] \in H) /\ \A x \in H : x # Genesis => \E i \in 1..n : q[i] = x
    BY <1>5
  <2>2. Genesis \in H
    BY <1>2
  <2> HIDE DEF H
  <2> QED
    BY <2>1, <2>2
<1> HIDE DEF H, W
<1>16. Rebuilt(q).store = s /\ Rebuilt(q).cache = c
  BY <1>7, <1>14, <1>15 DEF Stage
<1> QED
  BY <1>8, <1>16 DEF s, c

\* A restart changes nothing.
LEMMA RestartStutters ==
    ASSUME Inv, NEW r \in Replicas, Restart(r)
    PROVE  UNCHANGED vars
<1> DEFINE loaded == Rebuilt(InOrder(DOMAIN store[r] \ {Genesis}, HeightFirst))
<1>1. loaded.store = store[r] /\ loaded.cache = cache[r]
  BY RestartSame
<1>2. /\ store' = [store EXCEPT ![r] = loaded.store] /\ cache' = [cache EXCEPT ![r] = loaded.cache]
      /\ blocks' = blocks /\ height' = height
  BY DEF Restart
<1> HIDE DEF loaded
<1>3. store = [q \in Replicas |-> store[q]] /\ cache = [q \in Replicas |-> cache[q]]
  BY DEF Inv
<1>4. store' = store /\ cache' = cache
  BY <1>1, <1>2, <1>3
<1> QED
  BY <1>2, <1>4 DEF vars

-----------------------------------------------------------------------------
(* The theorems. *)

\* At the start every replica has genesis.
LEMMA InitHolds == Init => Inv
<1> SUFFICES ASSUME Init PROVE Inv
  OBVIOUS
<1> DEFINE B == [h \in {Genesis} |-> <<>>]
           C == [h \in {Genesis} |-> GenesisData]
<1>1. /\ blocks = B /\ height = [h \in {Genesis} |-> 0]
      /\ store = [r \in Replicas |-> B] /\ cache = [r \in Replicas |-> C]
  BY DEF Init
<1>2. DOMAIN B = {Genesis} /\ B[Genesis] = <<>> /\ IsFiniteSet({Genesis}) /\ ToSet(<<>>) = {}
  <2>1. IsFiniteSet({Genesis})
    BY FS_Singleton
  <2>2. ToSet(<<>>) = {}
    BY DEF ToSet
  <2> QED
    BY <2>1, <2>2
<1>3. <<>> \in Seq({Genesis})
  OBVIOUS
<1>4. BlocksOK(blocks, height)
  BY <1>1, <1>2, <1>3 DEF BlocksOK
<1>5. StoreOK(B, B)
  BY <1>2, <1>3 DEF StoreOK, Closed, Refers
<1>6. CacheOK(B, C)
  <2>1. GenesisData \in DataOver({Genesis})
    BY DEF GenesisData, DataOver
  <2>2. C \in [DOMAIN B -> DataOver(DOMAIN B)] /\ C[Genesis] = GenesisData
    BY <1>2, <2>1
  <2>3. GenesisData.blues = {} /\ GenesisData.reds = {}
    BY DEF GenesisData
  <2> QED
    BY <1>2, <2>2, <2>3 DEF CacheOK
<1>7. Agree(C, C)
  BY DEF Agree
<1> HIDE DEF B, C
<1> QED
  BY <1>1, <1>4, <1>5, <1>6, <1>7 DEF Inv

\* A step ingests a block at one replica or changes nothing.
Growth ==
    \/ \E r \in Replicas : \E h, parents : Ingested(r, h, parents)
    \/ UNCHANGED vars

\* This holds of every action.
LEMMA StepGrows ==
    ASSUME Inv, [Next]_vars
    PROVE  Growth
<1>1. ASSUME NEW r \in Replicas, NEW h \in Hashes, Mine(r, h) PROVE Growth
  BY <1>1, MineIngests DEF Growth
<1>2. ASSUME NEW r \in Replicas, NEW b \in ForeignBlocks, Foreign(r, b) PROVE Growth
  BY <1>2, ForeignIngests DEF Growth
<1>3. ASSUME NEW r \in Replicas, NEW h \in Hashes, Deliver(r, h) PROVE Growth
  BY <1>3, DeliverIngests DEF Growth
<1>4. ASSUME NEW r \in Replicas, Restart(r) PROVE Growth
  BY <1>4, RestartStutters DEF Growth
<1>5. CASE UNCHANGED vars
  BY <1>5 DEF Growth
<1> QED
  BY <1>1, <1>2, <1>3, <1>4, <1>5 DEF Next

\* Every step keeps the invariant.
LEMMA NextKeeps == Inv /\ [Next]_vars => Inv'
<1> SUFFICES ASSUME Inv, [Next]_vars PROVE Inv'
  OBVIOUS
<1>1. CASE UNCHANGED vars
  BY <1>1 DEF vars, Inv
<1>2. ASSUME NEW r \in Replicas, NEW h, NEW parents, Ingested(r, h, parents) PROVE Inv'
  BY <1>2, IngestKeeps
<1> QED
  BY <1>1, <1>2, StepGrows DEF Growth

\* So it always holds.
LEMMA Invariance == Spec => []Inv
  BY InitHolds, NextKeeps, PTL DEF Spec

\* Stores are parts of the one DAG, heights and data have their types.
THEOREM TypeCorrect == Spec => []TypeOK
<1>1. Inv => TypeOK
  <2> SUFFICES ASSUME Inv PROVE TypeOK
    OBVIOUS
  <2>1. BlocksOK(blocks, height)
    BY DEF Inv
  <2>2. ASSUME NEW r \in Replicas
        PROVE  store[r] = Restrict(blocks, DOMAIN store[r]) /\ cache[r] \in [DOMAIN store[r] -> Data]
    <3>1. StoreOK(blocks, store[r]) /\ CacheOK(store[r], cache[r])
      BY DEF Inv
    <3>2. DOMAIN store[r] \subseteq Hashes \cup {Genesis}
      BY <2>1, <3>1 DEF BlocksOK, StoreOK
    <3>3. DataOver(DOMAIN store[r]) \subseteq Data
      BY <3>2 DEF DataOver, Data
    <3>4. cache[r] \in [DOMAIN store[r] -> Data]
      BY <3>1, <3>3 DEF CacheOK
    <3> QED
      BY <3>1, <3>4 DEF StoreOK, Restrict
  <2> QED
    BY <2>1, <2>2 DEF TypeOK, BlocksOK
<1> QED
  BY <1>1, Invariance, PTL

\* Two nodes colour and score a block they both know alike, in whatever order
\* they met their blocks and however often they restarted.
THEOREM NodesAgree == Spec => []CachesAgree
<1>1. Inv => CachesAgree
  BY DEF Inv, CachesAgree, Agree
<1> QED
  BY <1>1, Invariance, PTL

\* A step keeps the data of every block.
Stable ==
    \A r \in Replicas : \A h \in DOMAIN cache[r] :
        h \in DOMAIN cache'[r] /\ cache'[r][h] = cache[r][h]

\* The data of a block are never changed or lost, a restart included.
THEOREM DataAreStable == Spec => CacheStable
<1>1. Inv /\ [Next]_vars => [Stable]_vars
  <2> SUFFICES ASSUME Inv, [Next]_vars PROVE UNCHANGED vars \/ Stable
    OBVIOUS
  <2>1. ASSUME NEW r \in Replicas, NEW h, NEW parents, Ingested(r, h, parents) PROVE Stable
    <3>1. DOMAIN cache[r] = DOMAIN store[r] /\ h \notin DOMAIN store[r]
      BY <2>1 DEF Inv, CacheOK, Ingested
    <3>2. /\ cache'[r] = Extend(cache[r], h, calculate_ghostdag_data(store[r], cache[r], parents))
          /\ \A q \in Replicas \ {r} : cache'[q] = cache[q]
      BY <2>1, IngestedIs
    <3>3. \A x \in DOMAIN cache[r] : x \in DOMAIN cache'[r] /\ cache'[r][x] = cache[r][x]
      BY <3>1, <3>2 DEF Extend
    <3> QED
      BY <3>2, <3>3 DEF Stable
  <2> QED
    BY <2>1, StepGrows DEF Growth
<1>2. [Stable]_vars <=> [\A r \in Replicas : \A h \in DOMAIN cache[r] :
                            h \in DOMAIN cache'[r] /\ cache'[r][h] = cache[r][h]]_vars
  BY DEF Stable
<1> QED
  BY <1>1, <1>2, Invariance, PTL DEF Spec, CacheStable

\* The data of a block divide its past: the part behind the selected parent is
\* coloured as the selected parent has it, all the rest is found by the search
\* for the anticone and coloured anew.
THEOREM AnticoneIsExact == Spec => []AnticoneExact
<1>1. Inv => AnticoneExact
  <2> SUFFICES ASSUME Inv, NEW r \in Replicas, NEW h \in DOMAIN store[r] \ {Genesis}
               PROVE  LET d == cache[r][h]
                          sp == d.selected_parent
                          old == get_past_set(store[r], sp) \cup {sp}
                      IN  /\ d.blues \cap d.reds = {}
                          /\ (d.blues \cup d.reds) \ old = get_past_set(store[r], h) \ old
                          /\ d.blues \cap old = cache[r][sp].blues \cup {sp}
    BY DEF AnticoneExact
  <2> DEFINE s == store[r]
             c == cache[r]
  <2>1. BlocksOK(blocks, height) /\ StoreOK(blocks, s) /\ CacheOK(s, c)
    BY DEF Inv
  <2> HIDE DEF s, c
  <2>2. h \in DOMAIN s \ {Genesis}
    BY DEF s
  <2>3. /\ DOMAIN s \subseteq Nat /\ Closed(s) /\ s[h] \in Seq(DOMAIN s) /\ s[h] # <<>>
    BY <2>1, <2>2, StoreIs
  <2>4. c \in [DOMAIN s -> DataOver(DOMAIN s)] /\ c[h] = calculate_ghostdag_data(s, c, s[h])
        /\ \A x \in DOMAIN s : c[x].blues \subseteq get_past_set(s, x)
    BY <2>1, <2>2 DEF CacheOK
  <2>5. Exact(c[h], s, c, s[h])
    BY <2>3, <2>4, DataExact
  <2>6. get_past_set(s, h) = Reach(s, ToSet(s[h]), {})
    BY <2>2 DEF get_past_set
  <2> QED
    BY <2>5, <2>6 DEF Exact, s, c
<1> QED
  BY <1>1, Invariance, PTL

\* The data of the blocks divide their pasts, and selected parents are lower.
LEMMA CacheDivides ==
    ASSUME NEW B, NEW T, BlocksOK(B, T), NEW s, StoreOK(B, s), NEW c, CacheOK(s, c)
    PROVE  /\ Divides(s, c)
           /\ \A h \in DOMAIN s : c[h].selected_parent \in DOMAIN s => T[c[h].selected_parent] < T[h]
<1> DEFINE D == DOMAIN s
<1>1. /\ D \subseteq Nat /\ Closed(s) /\ s[Genesis] = <<>> /\ Genesis \in D
      /\ \A h \in D : h \in DOMAIN B /\ s[h] = B[h] /\ ToSet(s[h]) \subseteq D
      /\ \A h \in D \ {Genesis} : s[h] \in Seq(D) /\ s[h] # <<>>
  BY StoreIs DEF StoreOK
<1>2. c \in [D -> DataOver(D)] /\ \A h \in D : c[h].blues \subseteq get_past_set(s, h)
  BY DEF CacheOK
<1> DEFINE sp(h) == c[h].selected_parent
           Own(h) == c[h].blues \cup c[h].reds \cup {h} \cup (IF sp(h) \in D THEN Below(s, sp(h)) ELSE {})
<1>3. Below(s, Genesis) = Own(Genesis) /\ sp(Genesis) \notin D
  <2>1. c[Genesis] = GenesisData
    BY DEF CacheOK
  <2>2. sp(Genesis) \notin D
    BY <1>1, <2>1 DEF GenesisData, None
  <2>3. get_past_set(s, Genesis) = {}
    <3>1. ToSet(s[Genesis]) = {}
      BY <1>1 DEF ToSet
    <3>2. Complete({}, s, {}, {}) /\ {} \in SUBSET D
      BY DEF Complete
    <3>3. Reach(s, {}, {}) \subseteq {}
      BY <1>1, <3>2, ReachLeast DEF Closed
    <3> QED
      BY <1>1, <3>1, <3>3 DEF get_past_set
  <2>4. c[Genesis].blues = {} /\ c[Genesis].reds = {}
    BY <2>1 DEF GenesisData
  <2> HIDE DEF sp
  <2> QED
    BY <2>2, <2>3, <2>4 DEF Below
<1>4. ASSUME NEW h \in D \ {Genesis}
      PROVE  Below(s, h) = Own(h) /\ sp(h) \in D /\ T[sp(h)] < T[h]
  <2>1. s[h] \in Seq(D) /\ s[h] # <<>> /\ ToSet(s[h]) \in SUBSET D
    BY <1>1
  <2>2. c[h] = calculate_ghostdag_data(s, c, s[h])
    BY DEF CacheOK
  <2>3. Exact(c[h], s, c, s[h])
    <3>1. /\ Closed(s) /\ DOMAIN s \subseteq Nat
          /\ c \in [DOMAIN s -> DataOver(DOMAIN s)]
          /\ \A x \in DOMAIN s : c[x].blues \subseteq get_past_set(s, x)
          /\ s[h] \in Seq(DOMAIN s) /\ s[h] # <<>>
      BY <1>1, <1>2, <2>1
    <3>2. Exact(calculate_ghostdag_data(s, c, s[h]), s, c, s[h])
      BY <3>1, DataExact
    <3> QED
      BY <2>2, <3>2
  <2> DEFINE past == get_past_set(s, h)
             old == Below(s, sp(h))
  <2>4. past = Reach(s, ToSet(s[h]), {})
    BY DEF get_past_set
  <2>5. /\ sp(h) \in ToSet(s[h]) /\ c[h].blues \cup c[h].reds \subseteq past
        /\ (c[h].blues \cup c[h].reds) \ old = past \ old
    BY <2>3, <2>4 DEF Exact, Below
  <2>6. sp(h) \in D /\ ToSet(s[h]) \subseteq past /\ get_past_set(s, sp(h)) \subseteq past
    BY <1>1, <2>1, <2>4, <2>5, PastHolds
  <2>7. T[sp(h)] < T[h]
    BY <1>1, <2>5 DEF BlocksOK
  <2>8. old \subseteq past
    BY <2>5, <2>6 DEF Below
  <2> HIDE DEF old, past, sp
  <2>9. past = c[h].blues \cup c[h].reds \cup old
    BY <2>5, <2>8
  <2>10. Below(s, h) = Own(h)
    BY <2>6, <2>9 DEF Below, past, old
  <2> HIDE DEF Own
  <2> QED
    BY <2>6, <2>7, <2>10
<1>5. ASSUME NEW h \in D PROVE Below(s, h) = Own(h) /\ (sp(h) \in D => T[sp(h)] < T[h])
  <2> HIDE DEF sp, Own
  <2> QED
    BY <1>3, <1>4
<1> QED
  BY <1>5 DEF Divides

\* The linear order of a block lists the block and its whole past, each once,
\* as recompute_ledger replays it.
THEOREM LinearSortIsComplete == Spec => []LinearSortComplete
<1>1. Inv => LinearSortComplete
  <2> SUFFICES ASSUME Inv, NEW r \in Replicas, NEW h \in DOMAIN store[r]
               PROVE  LET order == get_linear_sort(cache[r], h)
                      IN  /\ IsInjective(order)
                          /\ ToSet(order) = get_past_set(store[r], h) \cup {h}
    BY DEF LinearSortComplete
  <2> DEFINE s == store[r]
             c == cache[r]
             rank == [x \in DOMAIN s |-> height[x]]
  <2>1. BlocksOK(blocks, height) /\ StoreOK(blocks, s) /\ CacheOK(s, c)
    BY DEF Inv
  <2> HIDE DEF s, c
  <2>2. h \in DOMAIN s
    BY DEF s
  <2>3. IsFiniteSet(DOMAIN s) /\ DOMAIN s \subseteq Nat /\ DOMAIN s \subseteq DOMAIN blocks
    BY <2>1, StoreIs DEF StoreOK
  <2>4. c \in [DOMAIN s -> DataOver(DOMAIN s)]
    BY <2>1 DEF CacheOK
  <2>5. /\ Divides(s, c)
        /\ \A x \in DOMAIN s : c[x].selected_parent \in DOMAIN s => height[c[x].selected_parent] < height[x]
    BY <2>1, CacheDivides
  <2>6. rank \in [DOMAIN s -> Nat] /\ \A x \in DOMAIN s : rank[x] = height[x]
    BY <2>1, <2>3 DEF BlocksOK
  <2> HIDE DEF rank
  <2>7. \A x \in DOMAIN s : c[x].selected_parent \in DOMAIN s => rank[c[x].selected_parent] < rank[x]
    BY <2>5, <2>6
  <2>8. LET order == get_linear_sort(c, h) IN IsInjective(order) /\ ToSet(order) = Below(s, h)
    BY <2>2, <2>3, <2>4, <2>5, <2>6, <2>7, LinearSortIs
  <2> QED
    BY <2>8 DEF Below, s, c
<1> QED
  BY <1>1, Invariance, PTL

\* A block that is ingested becomes a tip, and takes the place of its parents.
LEMMA NewTips ==
    ASSUME NEW s, Closed(s), NEW h, h \notin DOMAIN s, NEW parents, ToSet(parents) \subseteq DOMAIN s
    PROVE  compute_tips(Extend(s, h, parents)) = (compute_tips(s) \ ToSet(parents)) \cup {h}
<1> DEFINE t == Extend(s, h, parents)
<1>1. DOMAIN t = DOMAIN s \cup {h} /\ t[h] = parents /\ \A x \in DOMAIN s : t[x] = s[x]
  BY DEF Extend
<1>2. \A x \in DOMAIN s : ToSet(s[x]) \subseteq DOMAIN s
  BY DEF Closed, Refers
<1> HIDE DEF t
<1>3. UNION {ToSet(t[x]) : x \in DOMAIN t} = (UNION {ToSet(s[x]) : x \in DOMAIN s}) \cup ToSet(parents)
  BY <1>1
<1>4. h \notin UNION {ToSet(s[x]) : x \in DOMAIN s}
  BY <1>2
<1> QED
  BY <1>1, <1>3, <1>4 DEF compute_tips, t

\* No replica's tip gets lighter.
Heavier == \A r \in Replicas : TipScore(r)' >= TipScore(r)

\* Fork choice never moves a node to a lighter tip, by whatever block arrives
\* or is mined, and not by a restart either.
THEOREM ForkChoiceIsMonotone == Spec => ForkChoiceMonotone
<1>1. Inv /\ Inv' /\ [Next]_vars => [Heavier]_vars
  <2> SUFFICES ASSUME Inv, Inv', [Next]_vars PROVE UNCHANGED vars \/ Heavier
    OBVIOUS
  <2>0. ASSUME NEW q \in Replicas PROVE TipScore(q) \in Nat
    <3> DEFINE tip == select_canonical_tip(store[q], cache[q])
    <3>1. tip \in DOMAIN store[q] /\ cache[q] \in [DOMAIN store[q] -> DataOver(DOMAIN store[q])]
      BY TipIs DEF Inv, CacheOK, BestTip
    <3> HIDE DEF tip
    <3> QED
      BY <3>1 DEF TipScore, DataOver, tip
  <2>1. ASSUME NEW r \in Replicas, NEW h, NEW parents, Ingested(r, h, parents) PROVE Heavier
    <3> DEFINE s == store[r]
               c == cache[r]
               new == calculate_ghostdag_data(s, c, parents)
               t == Extend(s, h, parents)
               d == Extend(c, h, new)
               tip == select_canonical_tip(s, c)
               now == select_canonical_tip(t, d)
    <3>1. /\ store'[r] = t /\ cache'[r] = d
          /\ \A q \in Replicas \ {r} : store'[q] = store[q] /\ cache'[q] = cache[q]
      BY <2>1, IngestedIs
    <3>2. ASSUME NEW q \in Replicas \ {r} PROVE TipScore(q)' = TipScore(q)
      BY <3>1 DEF TipScore
    <3>3. TipScore(r) = c[tip].blue_score /\ TipScore(r)' = d[now].blue_score
      BY <3>1 DEF TipScore
    <3>6. /\ BlocksOK(blocks, height) /\ StoreOK(blocks, s) /\ CacheOK(s, c)
          /\ BlocksOK(blocks', height') /\ StoreOK(blocks', t) /\ CacheOK(t, d)
      <4>1. BlocksOK(blocks, height) /\ StoreOK(blocks, s) /\ CacheOK(s, c)
        BY DEF Inv
      <4>2. BlocksOK(blocks', height') /\ StoreOK(blocks', store'[r]) /\ CacheOK(store'[r], cache'[r])
        BY DEF Inv
      <4> QED
        BY <3>1, <4>1, <4>2
    <3> HIDE DEF s, c, t, d
    <3>4. tip \in compute_tips(s) /\ tip \in DOMAIN s
      BY <3>6, TipIs DEF BestTip
    <3>5. now \in DOMAIN t /\ \A x \in compute_tips(t) : d[x].blue_score <= d[now].blue_score
      BY <3>6, TipIs DEF BestTip
    <3> HIDE DEF tip, now
    <3>7. /\ h \notin DOMAIN s /\ parents \in Seq(DOMAIN s) /\ parents # <<>>
          /\ ToSet(parents) \subseteq DOMAIN s
      BY <2>1 DEF Ingested, ToSet, s
    <3>8. DOMAIN s \subseteq Nat /\ Closed(s)
      BY <3>6, StoreIs
    <3>9. /\ DOMAIN c = DOMAIN s /\ c \in [DOMAIN s -> DataOver(DOMAIN s)]
          /\ \A x \in DOMAIN s : c[x].blues \subseteq get_past_set(s, x)
      BY <3>6 DEF CacheOK
    <3>10. compute_tips(t) = (compute_tips(s) \ ToSet(parents)) \cup {h}
      BY <3>7, <3>8, NewTips DEF t
    <3>11. d[h] = new /\ d[tip] = c[tip] /\ DOMAIN t = DOMAIN s \cup {h}
      BY <3>4, <3>7, <3>9 DEF Extend, d, t
    <3>12. \A x \in DOMAIN t : d[x].blue_score \in Nat
      BY <3>6 DEF CacheOK, DataOver
    <3>13. c[tip].blue_score <= d[now].blue_score
      <4>1. CASE tip \in ToSet(parents)
        <5>1. Exact(new, s, c, parents)
          BY <3>7, <3>8, <3>9, DataExact
        <5>2. c[tip].blue_score <= new.blue_score
          BY <4>1, <5>1 DEF Exact
        <5>3. d[h].blue_score <= d[now].blue_score
          BY <3>5, <3>10
        <5> QED
          BY <3>4, <3>5, <3>11, <3>12, <5>2, <5>3
      <4>2. CASE tip \notin ToSet(parents)
        BY <3>4, <3>5, <3>10, <3>11, <4>2
      <4> QED
        BY <4>1, <4>2
    <3>14. c[tip].blue_score \in Nat /\ d[now].blue_score \in Nat
      BY <3>4, <3>5, <3>11, <3>12
    <3>15. TipScore(r)' >= TipScore(r)
      BY <3>3, <3>13, <3>14
    <3>16. ASSUME NEW q \in Replicas \ {r} PROVE TipScore(q)' >= TipScore(q)
      BY <2>0, <3>2
    <3> QED
      BY <3>15, <3>16 DEF Heavier
  <2> QED
    BY <2>1, StepGrows DEF Growth
<1>2. [Heavier]_vars <=> [\A r \in Replicas : TipScore(r)' >= TipScore(r)]_vars
  BY DEF Heavier
<1> QED
  BY <1>1, <1>2, Invariance, NextKeeps, PTL DEF Spec, ForkChoiceMonotone
=============================================================================
