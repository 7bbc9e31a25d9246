---------------------------- MODULE BlockIdProofs ---------------------------
(***************************************************************************)
(* A block's hash names one block: the Merkle root is injective on lists   *)
(* of different transactions, which is what the ledger and the signature   *)
(* check leave, for any transactions, chain and number of blocks.          *)
(***************************************************************************)
EXTENDS BlockId, ConsensusTheorems

-----------------------------------------------------------------------------
(* Layers. *)

\* A nonempty list.
Layer(q) == Len(q) \in Nat \ {0} /\ q = [i \in 1..Len(q) |-> q[i]]

\* The digests of transactions, and those of pairs of digests.
IsLeaf(x) == \E tx : x = [leaf |-> tx]
IsPair(x) == \E y, z : x = [left |-> y, right |-> z]

\* A function on 1..n is a list of n elements.
LEMMA ListIs ==
    ASSUME NEW n \in Nat, NEW q, q = [i \in 1..n |-> q[i]]
    PROVE  Len(q) = n
<1> DEFINE S == {q[i] : i \in 1..n}
<1>1. q \in [1..n -> S]
  OBVIOUS
<1> HIDE DEF S
<1> QED
  BY <1>1

\* p pairs the elements of q, the last one with itself if it is left alone.
Pairs(p, q) ==
    /\ Layer(p) /\ Len(p) = (Len(q) + 1) \div 2
    /\ \A i \in 1..Len(p) :
          /\ IsPair(p[i])
          /\ 2 * i - 1 \in 1..Len(q) /\ p[i].left = q[2 * i - 1]
          /\ 2 * i <= Len(q) => p[i].right = q[2 * i]
          /\ 2 * i > Len(q) => p[i].right = q[2 * i - 1]

\* That is what a round yields.
LEMMA NextPairs ==
    ASSUME NEW q, Layer(q)
    PROVE  Pairs(NextLayer(q), q)
<1> DEFINE p == NextLayer(q)
           n == (Len(q) + 1) \div 2
           R(i) == IF 2 * i <= Len(q) THEN q[2 * i] ELSE q[2 * i - 1]
<1>1. Len(q) \in Nat \ {0}
  BY DEF Layer
<1>2. n \in Nat \ {0}
  BY <1>1
<1>3. \A i \in 1..n : i \in Nat /\ 2 * i - 1 \in 1..Len(q)
  BY <1>1
<1>4. p = [i \in 1..n |-> [left |-> q[2 * i - 1], right |-> R(i)]]
  BY DEF NextLayer
<1>5. /\ p = [i \in 1..n |-> p[i]]
      /\ \A i \in 1..n : p[i] = [left |-> q[2 * i - 1], right |-> R(i)]
  <2> HIDE DEF n
  <2> QED
    BY <1>4
<1> HIDE DEF p, n
<1>6. Len(p) = n
  BY <1>2, <1>5, ListIs
<1>7. Layer(p)
  BY <1>2, <1>5, <1>6 DEF Layer
<1>8. ASSUME NEW i \in 1..n
      PROVE  /\ IsPair(p[i])
             /\ p[i].left = q[2 * i - 1]
             /\ 2 * i <= Len(q) => p[i].right = q[2 * i]
             /\ 2 * i > Len(q) => p[i].right = q[2 * i - 1]
  <2>1. p[i] = [left |-> q[2 * i - 1], right |-> R(i)]
    BY <1>5
  <2>2. p[i].left = q[2 * i - 1] /\ p[i].right = R(i)
    BY <2>1
  <2>3. IsPair(p[i])
    <3> HIDE DEF R
    <3> QED
      BY <2>1 DEF IsPair
  <2>4. 2 * i > Len(q) => ~(2 * i <= Len(q))
    BY <1>1, <1>3
  <2> QED
    BY <2>2, <2>3, <2>4
<1> QED
  BY <1>3, <1>6, <1>7, <1>8 DEF Pairs, p, n

\* A leaf is not a pair, and neither is the root of nothing.
LEMMA KindsDiffer ==
    ASSUME NEW x
    PROVE  ~(IsLeaf(x) /\ IsPair(x)) /\ ~IsLeaf(ZeroRoot) /\ ~IsPair(ZeroRoot)
<1>1. ASSUME IsLeaf(x) PROVE DOMAIN x = {"leaf"}
  BY <1>1 DEF IsLeaf
<1>2. ASSUME IsPair(x) PROVE DOMAIN x = {"left", "right"}
  BY <1>2 DEF IsPair
<1>3. DOMAIN ZeroRoot = {"zero"}
  BY DEF ZeroRoot
<1>4. \A y : ~(ZeroRoot = [leaf |-> y])
  BY <1>3
<1>5. \A y, z : ~(ZeroRoot = [left |-> y, right |-> z])
  BY <1>3
<1> QED
  BY <1>1, <1>2, <1>4, <1>5 DEF IsLeaf, IsPair

\* Different elements make different pairs.
LEMMA PairsDistinct ==
    ASSUME NEW p, NEW q, Pairs(p, q), Distinct(q)
    PROVE  Distinct(p)
<1> SUFFICES ASSUME NEW i \in 1..Len(p), NEW j \in 1..Len(p), p[i] = p[j]
             PROVE  i = j
  BY DEF Distinct
<1>1. Len(p) \in Nat
  BY DEF Pairs, Layer
<1>2. /\ 2 * i - 1 \in 1..Len(q) /\ p[i].left = q[2 * i - 1]
      /\ 2 * j - 1 \in 1..Len(q) /\ p[j].left = q[2 * j - 1]
  BY DEF Pairs
<1>3. q[2 * i - 1] = q[2 * j - 1]
  BY <1>2
<1>4. 2 * i - 1 = 2 * j - 1
  <2>1. \A k, l \in 1..Len(q) : q[k] = q[l] => k = l
    BY DEF Distinct
  <2> QED
    BY <1>2, <1>3, <2>1
<1> QED
  BY <1>1, <1>4

\* The list whose pairs are p is no longer than any other: its last pair, if it
\* has two different parts, is a pair in the other as well.
LEMMA PairsLength ==
    ASSUME NEW p, NEW q, NEW r, Layer(q), Layer(r), Pairs(p, q), Pairs(p, r), Distinct(q)
    PROVE  Len(q) <= Len(r)
<1> DEFINE m == Len(p)
<1>1. Len(q) \in Nat \ {0} /\ Len(r) \in Nat \ {0}
  BY DEF Layer
<1>2. m \in Nat \ {0} /\ m = (Len(q) + 1) \div 2 /\ m = (Len(r) + 1) \div 2
  BY DEF Pairs, Layer
<1> HIDE DEF m
<1>3. SUFFICES ASSUME Len(q) > Len(r) PROVE FALSE
  BY <1>1
<1>4. Len(q) = 2 * m /\ Len(r) = 2 * m - 1
  BY <1>1, <1>2, <1>3
<1>5. m \in 1..m /\ 2 * m \in 1..Len(q) /\ 2 * m - 1 \in 1..Len(q)
      /\ 2 * m <= Len(q) /\ 2 * m > Len(r) /\ 2 * m # 2 * m - 1
  BY <1>2, <1>4
<1>6. /\ p[m].left = q[2 * m - 1] /\ p[m].right = q[2 * m]
      /\ p[m].left = r[2 * m - 1] /\ p[m].right = r[2 * m - 1]
  BY <1>5 DEF Pairs, m
<1>7. q[2 * m] = q[2 * m - 1]
  BY <1>6
<1> QED
  BY <1>5, <1>7 DEF Distinct

\* A round is undone: different elements are known from their pairs.
LEMMA PairsDetermine ==
    ASSUME NEW p, NEW q, NEW r, Layer(q), Layer(r), Pairs(p, q), Pairs(p, r),
           Distinct(q), Distinct(r)
    PROVE  q = r
<1>1. Len(q) \in Nat \ {0} /\ Len(r) \in Nat \ {0} /\ Len(q) = Len(r)
  <2>1. Len(q) \in Nat \ {0} /\ Len(r) \in Nat \ {0}
    BY DEF Layer
  <2>2. Len(q) <= Len(r) /\ Len(r) <= Len(q)
    BY PairsLength
  <2> QED
    BY <2>1, <2>2
<1>2. ASSUME NEW k \in 1..Len(q) PROVE q[k] = r[k]
  <2> DEFINE i == (k + 1) \div 2
  <2>1. i \in 1..Len(p) /\ (k = 2 * i - 1 \/ k = 2 * i)
    <3>1. Len(p) = (Len(q) + 1) \div 2 /\ k \in Nat
      BY DEF Pairs
    <3> QED
      BY <1>1, <3>1
  <2>2. /\ p[i].left = q[2 * i - 1] /\ p[i].left = r[2 * i - 1]
        /\ 2 * i <= Len(q) => p[i].right = q[2 * i]
        /\ 2 * i <= Len(r) => p[i].right = r[2 * i]
    <3> HIDE DEF i
    <3> QED
      BY <2>1 DEF Pairs
  <2>3. k <= Len(q)
    BY <1>1
  <2> HIDE DEF i
  <2> QED
    BY <1>1, <2>1, <2>2, <2>3
<1>3. q = [i \in 1..Len(q) |-> q[i]] /\ r = [i \in 1..Len(q) |-> r[i]]
  BY <1>1 DEF Layer
<1> QED
  BY <1>2, <1>3
-----------------------------------------------------------------------------
(* Rounds. *)

\* l holds the layers that the loop makes of ids.
Layers(l, ids, n) == l[0] = ids /\ \A k \in 1..n : l[k] = Round(l[k - 1])

\* There are such layers, and Rounds returns the last.
LEMMA RoundsRun ==
    ASSUME NEW ids, Len(ids) \in Nat
    PROVE  \E l : Layers(l, ids, Len(ids)) /\ Rounds(ids) = l[Len(ids)]
<1> DEFINE n == Len(ids)
           Eq(g) == g = [r \in 0..n |-> IF r = 0 THEN ids ELSE Round(g[r - 1])]
           Up(g, k) == /\ g = [r \in 0..k |-> g[r]]
                       /\ Layers(g, ids, k)
           Q == {k \in Nat : \E g : Up(g, k)}
<1>1. 0 \in Q
  <2> DEFINE g == [r \in 0..0 |-> ids]
  <2>1. Up(g, 0)
    BY DEF Layers
  <2> QED
    BY <2>1
<1>2. ASSUME NEW k \in Nat, k \in Q PROVE k + 1 \in Q
  <2>1. PICK g : Up(g, k)
    BY <1>2
  <2> DEFINE h == [r \in 0..(k + 1) |-> IF r = k + 1 THEN Round(g[k]) ELSE g[r]]
  <2>2. /\ h = [r \in 0..(k + 1) |-> h[r]] /\ h[k + 1] = Round(g[k])
        /\ \A r \in 0..k : h[r] = g[r]
    OBVIOUS
  <2> HIDE DEF h
  <2>3. ASSUME NEW r \in 1..(k + 1) PROVE h[r] = Round(h[r - 1])
    <3>1. CASE r = k + 1
      <4>1. r - 1 = k /\ k \in 0..k
        BY <3>1
      <4> QED
        BY <2>2, <3>1, <4>1
    <3>2. CASE r # k + 1
      <4>1. r \in 1..k /\ r \in 0..k /\ r - 1 \in 0..k
        BY <3>2
      <4>2. g[r] = Round(g[r - 1])
        BY <2>1, <4>1 DEF Layers
      <4> QED
        BY <2>2, <4>1, <4>2
    <3> QED
      BY <3>1, <3>2
  <2>4. h[0] = ids
    BY <2>1, <2>2 DEF Layers
  <2>5. Up(h, k + 1)
    BY <2>2, <2>3, <2>4 DEF Layers
  <2> QED
    BY <2>5
<1> HIDE DEF Q
<1>3. n \in Q
  BY <1>1, <1>2, NatSetInduction
<1>4. PICK g : Up(g, n)
  BY <1>3 DEF Q
<1>5. Eq(g)
  <2>1. ASSUME NEW r \in 0..n PROVE g[r] = IF r = 0 THEN ids ELSE Round(g[r - 1])
    <3>1. r = 0 \/ r \in 1..n
      OBVIOUS
    <3> QED
      BY <1>4, <3>1 DEF Layers
  <2> QED
    BY <1>4, <2>1
<1> DEFINE l == CHOOSE g1 : Eq(g1)
<1>6. Eq(l)
  <2> HIDE DEF Eq
  <2> QED
    BY <1>5
<1>7. Rounds(ids) = l[n]
  BY DEF Rounds
<1> HIDE DEF l
<1>8. Layers(l, ids, n)
  <2>1. \A r \in 0..n : l[r] = IF r = 0 THEN ids ELSE Round(l[r - 1])
    <3> HIDE DEF n
    <3> QED
      BY <1>6
  <2>2. 0 \in 0..n /\ \A r \in 1..n : r \in 0..n /\ r # 0
    OBVIOUS
  <2> QED
    BY <2>1, <2>2 DEF Layers
<1> QED
  BY <1>7, <1>8

\* A list of different elements.
Good(q) == Layer(q) /\ Distinct(q)

\* A round leaves different elements, all of them pairs, and fewer of them.
LEMMA RoundIs ==
    ASSUME NEW q, Good(q)
    PROVE  /\ Good(Round(q))
           /\ Len(q) = 1 => Round(q) = q
           /\ Len(q) > 1 => Pairs(Round(q), q) /\ Len(Round(q)) < Len(q)
<1>1. Len(q) \in Nat \ {0}
  BY DEF Good, Layer
<1>2. Pairs(NextLayer(q), q)
  BY NextPairs DEF Good
<1>3. CASE Len(q) > 1
  <2>1. Round(q) = NextLayer(q)
    BY <1>3 DEF Round
  <2>2. Len(NextLayer(q)) = (Len(q) + 1) \div 2 /\ Layer(NextLayer(q))
    BY <1>2 DEF Pairs
  <2>3. Distinct(NextLayer(q))
    BY <1>2, PairsDistinct DEF Good
  <2>4. (Len(q) + 1) \div 2 < Len(q) /\ Len(q) # 1
    BY <1>1, <1>3
  <2>5. Good(Round(q)) /\ Pairs(Round(q), q)
    BY <1>2, <2>1, <2>2, <2>3 DEF Good
  <2>6. Len(Round(q)) < Len(q)
    BY <2>1, <2>2, <2>4
  <2> QED
    BY <2>4, <2>5, <2>6
<1>4. CASE ~(Len(q) > 1)
  <2>1. Round(q) = q
    BY <1>4 DEF Round
  <2> QED
    BY <1>4, <2>1
<1> QED
  BY <1>3, <1>4

\* In every layer the elements are different, and the last one has one element.
LEMMA LayersAre ==
    ASSUME NEW ids, Good(ids), NEW l, Layers(l, ids, Len(ids))
    PROVE  (\A k \in 0..Len(ids) : Good(l[k])) /\ Len(l[Len(ids)]) = 1
<1> DEFINE n == Len(ids)
           P(k) == Good(l[k]) /\ (Len(l[k]) = 1 \/ Len(l[k]) <= n - k)
           Q == {k \in Nat : k <= n => P(k)}
<1>1. n \in Nat \ {0}
  BY DEF Good, Layer
<1>2. 0 \in Q
  BY <1>1 DEF Layers
<1>3. ASSUME NEW k \in Nat, k \in Q PROVE k + 1 \in Q
  <2> SUFFICES ASSUME k + 1 <= n PROVE P(k + 1)
    OBVIOUS
  <2>1. P(k) /\ k + 1 \in 1..n /\ (k + 1) - 1 = k
    BY <1>1, <1>3
  <2>2. l[k + 1] = Round(l[k])
    BY <2>1 DEF Layers
  <2>3. Len(l[k]) \in Nat \ {0}
    BY <2>1 DEF Good, Layer
  <2>4. /\ Good(l[k + 1])
        /\ Len(l[k]) = 1 => l[k + 1] = l[k]
        /\ Len(l[k]) > 1 => Len(l[k + 1]) < Len(l[k])
    BY <2>1, <2>2, RoundIs
  <2>5. Len(l[k + 1]) \in Nat \ {0}
    BY <2>4 DEF Good, Layer
  <2>6. CASE Len(l[k]) = 1
    BY <2>4, <2>6
  <2>7. CASE Len(l[k]) > 1
    <3>1. Len(l[k + 1]) <= n - (k + 1)
      BY <1>1, <2>1, <2>3, <2>4, <2>5, <2>7
    <3> QED
      BY <2>4, <3>1
  <2>8. Len(l[k]) = 1 \/ Len(l[k]) > 1
    <3>1. \A y \in Nat \ {0} : y = 1 \/ y > 1
      OBVIOUS
    <3> QED
      BY <2>3, <3>1
  <2> QED
    BY <2>6, <2>7, <2>8
<1> HIDE DEF Q
<1>4. \A k \in Nat : k \in Q
  BY <1>2, <1>3, NatSetInduction
<1>5. \A k \in 0..n : P(k)
  BY <1>1, <1>4 DEF Q
<1>6. P(n)
  BY <1>1, <1>5
<1>7. Len(l[n]) \in Nat \ {0}
  BY <1>6 DEF Good, Layer
<1>8. Len(l[n]) = 1
  <2>1. Len(l[n]) = 1 \/ Len(l[n]) <= n - n
    BY <1>6
  <2> HIDE DEF n
  <2> QED
    BY <1>1, <1>7, <2>1
<1> QED
  BY <1>5, <1>8

\* The elements of a list are leaves.
Leaves(q) == \A i \in 1..Len(q) : IsLeaf(q[i])

\* Two lists that have a layer in common are the same.
LEMMA CommonLayer ==
    ASSUME NEW a0, NEW b0, Good(a0), Good(b0), Leaves(a0), Leaves(b0),
           NEW a, NEW b, Layers(a, a0, Len(a0)), Layers(b, b0, Len(b0)),
           NEW i0 \in 0..Len(a0), NEW j0 \in 0..Len(b0), a[i0] = b[j0]
    PROVE  a0 = b0
<1> DEFINE n == Len(a0)
           m == Len(b0)
           Q == {N \in Nat : \A i \in 0..n, j \in 0..m : i + j <= N /\ a[i] = b[j] => a0 = b0}
<1>1. n \in Nat \ {0} /\ m \in Nat \ {0}
  BY DEF Good, Layer
<1>2. /\ a[0] = a0 /\ \A i \in 1..n : a[i] = Round(a[i - 1])
      /\ b[0] = b0 /\ \A j \in 1..m : b[j] = Round(b[j - 1])
      /\ \A i \in 0..n : Good(a[i])
      /\ \A j \in 0..m : Good(b[j])
  BY LayersAre DEF Layers
<1>3. 0 \in Q
  BY <1>1, <1>2
<1>4. ASSUME NEW N \in Nat, N \in Q PROVE N + 1 \in Q
  <2> SUFFICES ASSUME NEW i \in 0..n, NEW j \in 0..m, i + j <= N + 1, a[i] = b[j]
               PROVE  a0 = b0
    OBVIOUS
  <2>1. \A i1 \in 0..n, j1 \in 0..m : i1 + j1 <= N /\ a[i1] = b[j1] => a0 = b0
    BY <1>4
  <2> HIDE DEF Q, n, m
  <2>2. CASE i > 0 /\ Len(a[i - 1]) = 1
    <3>1. i \in 1..n /\ i - 1 \in 0..n /\ (i - 1) + j <= N
      BY <1>1, <2>2
    <3>2. a[i - 1] = a[i]
      BY <1>2, <2>2, <3>1, RoundIs
    <3> QED
      BY <2>1, <3>1, <3>2
  <2>3. CASE j > 0 /\ Len(b[j - 1]) = 1
    <3>1. j \in 1..m /\ j - 1 \in 0..m /\ i + (j - 1) <= N
      BY <1>1, <2>3
    <3>2. b[j - 1] = b[j]
      BY <1>2, <2>3, <3>1, RoundIs
    <3> QED
      BY <2>1, <3>1, <3>2
  <2>4. ASSUME i > 0, Len(a[i - 1]) # 1
        PROVE  i \in 1..n /\ i - 1 \in 0..n /\ Pairs(a[i], a[i - 1])
    <3>1. i \in 1..n /\ i - 1 \in 0..n
      BY <1>1, <2>4
    <3>2. Len(a[i - 1]) \in Nat \ {0} /\ Good(a[i - 1])
      BY <1>2, <3>1 DEF Good, Layer
    <3>3. Len(a[i - 1]) > 1
      <4>1. \A y \in Nat \ {0} : y # 1 => y > 1
        OBVIOUS
      <4> QED
        BY <2>4, <3>2, <4>1
    <3> QED
      BY <1>2, <3>1, <3>2, <3>3, RoundIs
  <2>5. ASSUME j > 0, Len(b[j - 1]) # 1
        PROVE  j \in 1..m /\ j - 1 \in 0..m /\ Pairs(b[j], b[j - 1])
    <3>1. j \in 1..m /\ j - 1 \in 0..m
      BY <1>1, <2>5
    <3>2. Len(b[j - 1]) \in Nat \ {0} /\ Good(b[j - 1])
      BY <1>2, <3>1 DEF Good, Layer
    <3>3. Len(b[j - 1]) > 1
      <4>1. \A y \in Nat \ {0} : y # 1 => y > 1
        OBVIOUS
      <4> QED
        BY <2>5, <3>2, <4>1
    <3> QED
      BY <1>2, <3>1, <3>2, <3>3, RoundIs
  <2>6. \A p, q : Pairs(p, q) => 1 \in 1..Len(p) /\ IsPair(p[1])
    <3>1. ASSUME NEW p, NEW q, Pairs(p, q) PROVE 1 \in 1..Len(p)
      BY <3>1 DEF Pairs, Layer
    <3> QED
      BY <3>1 DEF Pairs
  <2>7. CASE i > 0 /\ Len(a[i - 1]) # 1 /\ j > 0 /\ Len(b[j - 1]) # 1
    <3>1. /\ Pairs(a[i], a[i - 1]) /\ Pairs(a[i], b[j - 1])
          /\ i - 1 \in 0..n /\ j - 1 \in 0..m
      BY <2>4, <2>5, <2>7
    <3>2. Good(a[i - 1]) /\ Good(b[j - 1])
      BY <1>2, <3>1
    <3>3. a[i - 1] = b[j - 1]
      BY <3>1, <3>2, PairsDetermine DEF Good
    <3>4. (i - 1) + (j - 1) <= N
      BY <1>1
    <3> QED
      BY <2>1, <3>1, <3>3, <3>4
  <2>8. CASE i > 0 /\ Len(a[i - 1]) # 1 /\ j = 0
    <3>1. 1 \in 1..Len(a[i]) /\ IsPair(a[i][1])
      BY <2>4, <2>6, <2>8
    <3>2. IsLeaf(a[i][1])
      BY <1>2, <2>8, <3>1 DEF Leaves
    <3> QED
      BY <3>1, <3>2, KindsDiffer
  <2>9. CASE j > 0 /\ Len(b[j - 1]) # 1 /\ i = 0
    <3>1. 1 \in 1..Len(b[j]) /\ IsPair(b[j][1])
      BY <2>5, <2>6, <2>9
    <3>2. IsLeaf(b[j][1])
      BY <1>2, <2>9, <3>1 DEF Leaves
    <3> QED
      BY <3>1, <3>2, KindsDiffer
  <2>10. CASE i = 0 /\ j = 0
    BY <1>2, <2>10
  <2>11. (i = 0 \/ i > 0) /\ (j = 0 \/ j > 0)
    BY <1>1
  <2> QED
    BY <2>2, <2>3, <2>7, <2>8, <2>9, <2>10, <2>11
<1>5. i0 + j0 \in Nat /\ i0 + j0 <= i0 + j0
  BY <1>1
<1> HIDE DEF Q
<1>6. i0 + j0 \in Q
  BY <1>3, <1>4, <1>5, NatSetInduction
<1> QED
  BY <1>5, <1>6 DEF Q

\* Every layer above leaves consists of leaves and pairs.
LEMMA LayersKinds ==
    ASSUME NEW ids, Good(ids), Leaves(ids), NEW l, Layers(l, ids, Len(ids)), NEW k0 \in 0..Len(ids)
    PROVE  \A i \in 1..Len(l[k0]) : IsLeaf(l[k0][i]) \/ IsPair(l[k0][i])
<1> DEFINE n == Len(ids)
           P(k) == \A i \in 1..Len(l[k]) : IsLeaf(l[k][i]) \/ IsPair(l[k][i])
           Q == {k \in Nat : k <= n => P(k)}
<1>1. n \in Nat \ {0}
  BY DEF Good, Layer
<1>2. 0 \in Q
  BY DEF Layers, Leaves
<1>3. ASSUME NEW k \in Nat, k \in Q PROVE k + 1 \in Q
  <2> HIDE DEF P
  <2> SUFFICES ASSUME k + 1 <= n PROVE P(k + 1)
    OBVIOUS
  <2>1. P(k) /\ k + 1 \in 1..n /\ (k + 1) - 1 = k /\ k \in 0..n
    BY <1>1, <1>3
  <2>2. l[k + 1] = Round(l[k])
    BY <2>1 DEF Layers
  <2>3. Good(l[k])
    BY <2>1, LayersAre
  <2>4. Len(l[k]) = 1 \/ Len(l[k]) > 1
    <3>1. Len(l[k]) \in Nat \ {0}
      BY <2>3 DEF Good, Layer
    <3>2. \A y \in Nat \ {0} : y = 1 \/ y > 1
      OBVIOUS
    <3> QED
      BY <3>1, <3>2
  <2>5. CASE Len(l[k]) = 1
    <3>1. l[k + 1] = l[k]
      BY <2>2, <2>3, <2>5, RoundIs
    <3> QED
      BY <2>1, <3>1 DEF P
  <2>6. CASE Len(l[k]) > 1
    <3>1. Pairs(l[k + 1], l[k])
      BY <2>2, <2>3, <2>6, RoundIs
    <3> QED
      BY <3>1 DEF P, Pairs
  <2> QED
    BY <2>4, <2>5, <2>6
<1>4. \A k \in Nat : k \in Q
  <2> HIDE DEF Q
  <2> QED
    BY <1>2, <1>3, NatSetInduction
<1>5. k0 \in Nat /\ k0 <= n
  BY <1>1
<1>6. P(k0)
  <2> HIDE DEF P
  <2> QED
    BY <1>4, <1>5
<1> QED
  BY <1>6

\* The root names the transactions, if they are different and their signatures
\* verify.
LEMMA RootInjective ==
    ASSUME NEW txs \in Seq(Txs), Distinct(txs), \A i \in DOMAIN txs : verify_transaction_signature(txs[i]),
           NEW us \in Seq(Txs), Distinct(us), \A i \in DOMAIN us : verify_transaction_signature(us[i]),
           transaction_merkle_root(txs) = transaction_merkle_root(us)
    PROVE  txs = us
<1> DEFINE Ids(q) == [i \in DOMAIN q |-> transaction_id(q[i])]
           Verifies(q) == q \in Seq(Txs) /\ Distinct(q)
                            /\ \A i \in DOMAIN q : verify_transaction_signature(q[i])
<1>1. ASSUME NEW q, Verifies(q)
      PROVE  /\ Len(q) \in Nat /\ DOMAIN q = 1..Len(q)
             /\ Ids(q) = [i \in 1..Len(q) |-> [leaf |-> q[i]]]
  <2>1. Len(q) \in Nat /\ DOMAIN q = 1..Len(q) /\ \A i \in DOMAIN q : q[i] \in Txs
    BY <1>1
  <2>2. ASSUME NEW i \in DOMAIN q PROVE transaction_id(q[i]) = [leaf |-> q[i]]
    <3> DEFINE tx == q[i]
    <3>1. tx \in [sender : Addr, recipient : Addr, amount : Nat, nonce : Nat, sig : Nat]
      BY <2>1, TxAssumption
    <3>2. tx.sig \in ValidSigs
      BY <1>1 DEF verify_transaction_signature
    <3>3. Resplit[tx.sig] = tx.sig
      BY <3>2, BlockIdAssumption
    <3> HIDE DEF tx
    <3>4. [tx EXCEPT !.sig = Resplit[tx.sig]] = tx
      BY <3>1, <3>3
    <3>5. transaction_id(tx) = [leaf |-> tx]
      BY <3>4 DEF transaction_id
    <3> QED
      BY <3>5 DEF tx
  <2> QED
    BY <2>1, <2>2
<1>2. ASSUME NEW q, Verifies(q), q # <<>>
      PROVE  /\ Good(Ids(q)) /\ Leaves(Ids(q)) /\ Len(Ids(q)) = Len(q)
  <2> DEFINE e == Ids(q)
             n == Len(q)
  <2>1. n \in Nat /\ e = [i \in 1..n |-> [leaf |-> q[i]]]
    BY <1>1, <1>2
  <2>2. n # 0
    BY <1>2
  <2>3. \A i, j \in 1..n : q[i] = q[j] => i = j
    BY <1>2 DEF Distinct
  <2> HIDE DEF n, e
  <2>4. e = [i \in 1..n |-> e[i]] /\ \A i \in 1..n : e[i] = [leaf |-> q[i]]
    BY <2>1
  <2>5. Len(e) = n
    BY <2>1, <2>4, ListIs
  <2>6. Layer(e)
    BY <2>1, <2>2, <2>4, <2>5 DEF Layer
  <2>7. ASSUME NEW i \in 1..n, NEW j \in 1..n, e[i] = e[j] PROVE i = j
    <3>1. [leaf |-> q[i]] = [leaf |-> q[j]]
      BY <2>4, <2>7
    <3>2. q[i] = q[j]
      BY <3>1
    <3> QED
      BY <2>3, <3>2
  <2>8. \A i \in 1..n : IsLeaf(e[i])
    BY <2>4 DEF IsLeaf
  <2>9. Good(e) /\ Leaves(e)
    BY <2>5, <2>6, <2>7, <2>8 DEF Good, Leaves, Distinct
  <2> QED
    BY <2>5, <2>9 DEF e, n
<1>3. ASSUME NEW q, Verifies(q), q # <<>>
      PROVE  \E l : /\ Layers(l, Ids(q), Len(Ids(q)))
                    /\ Len(l[Len(Ids(q))]) = 1 /\ Good(l[Len(Ids(q))])
                    /\ transaction_merkle_root(q) = l[Len(Ids(q))][1]
  <2> DEFINE e == Ids(q)
  <2>1. Good(e)
    BY <1>2, <1>3
  <2>2. transaction_merkle_root(q) = Rounds(e)[1]
    BY <1>3 DEF transaction_merkle_root
  <2> HIDE DEF e
  <2>3. Len(e) \in Nat /\ Len(e) \in 0..Len(e)
    BY <2>1 DEF Good, Layer
  <2>4. PICK l : Layers(l, e, Len(e)) /\ Rounds(e) = l[Len(e)]
    BY <2>3, RoundsRun
  <2>5. Good(l[Len(e)]) /\ Len(l[Len(e)]) = 1
    BY <2>1, <2>3, <2>4, LayersAre
  <2> QED
    BY <2>2, <2>4, <2>5 DEF e
<1>4. Verifies(txs) /\ Verifies(us)
  OBVIOUS
<1>5. ASSUME NEW q, Verifies(q), q # <<>> PROVE transaction_merkle_root(q) # ZeroRoot
  <2> DEFINE e == Ids(q)
  <2>1. Good(e) /\ Leaves(e)
    BY <1>2, <1>5
  <2>2. PICK l : /\ Layers(l, e, Len(e)) /\ Len(l[Len(e)]) = 1
                 /\ transaction_merkle_root(q) = l[Len(e)][1]
    BY <1>3, <1>5
  <2> HIDE DEF e
  <2>3. Len(e) \in 0..Len(e) /\ 1 \in 1..1
    BY <2>1 DEF Good, Layer
  <2> DEFINE x == transaction_merkle_root(q)
  <2>4. IsLeaf(x) \/ IsPair(x)
    BY <2>1, <2>2, <2>3, LayersKinds
  <2> HIDE DEF x
  <2>5. \A y : y = ZeroRoot => ~IsLeaf(y) /\ ~IsPair(y)
    BY KindsDiffer
  <2> QED
    BY <2>4, <2>5 DEF x
<1>6. CASE txs = <<>> \/ us = <<>>
  <2>1. transaction_merkle_root(<<>>) = ZeroRoot
    BY DEF transaction_merkle_root
  <2> HIDE DEF Verifies
  <2> QED
    BY <1>4, <1>5, <1>6, <2>1
<1>7. CASE txs # <<>> /\ us # <<>>
  <2> DEFINE d == Ids(txs)
             e == Ids(us)
  <2>1. Good(d) /\ Leaves(d) /\ Good(e) /\ Leaves(e)
    BY <1>2, <1>4, <1>7
  <2>2. PICK l : /\ Layers(l, d, Len(d)) /\ Len(l[Len(d)]) = 1 /\ Good(l[Len(d)])
                 /\ transaction_merkle_root(txs) = l[Len(d)][1]
    BY <1>3, <1>4, <1>7
  <2>3. PICK m : /\ Layers(m, e, Len(e)) /\ Len(m[Len(e)]) = 1 /\ Good(m[Len(e)])
                 /\ transaction_merkle_root(us) = m[Len(e)][1]
    BY <1>3, <1>4, <1>7
  <2>4. /\ d = [i \in 1..Len(txs) |-> [leaf |-> txs[i]]]
        /\ e = [i \in 1..Len(us) |-> [leaf |-> us[i]]]
        /\ Len(d) = Len(txs) /\ Len(e) = Len(us)
    BY <1>1, <1>2, <1>4, <1>7
  <2> HIDE DEF d, e, Verifies
  <2>5. Len(d) \in 0..Len(d) /\ Len(e) \in 0..Len(e)
    BY <2>1 DEF Good, Layer
  <2>6. l[Len(d)] = m[Len(e)]
    <3>1. ASSUME NEW x, Good(x), Len(x) = 1 PROVE x = [i \in 1..1 |-> x[i]]
      BY <3>1 DEF Good, Layer
    <3> DEFINE x == l[Len(d)]
               y == m[Len(e)]
    <3>2. x = [i \in 1..1 |-> x[i]] /\ y = [i \in 1..1 |-> y[i]] /\ x[1] = y[1]
      BY <2>2, <2>3, <3>1
    <3> HIDE DEF x, y
    <3>3. x = y
      BY <3>2
    <3> QED
      BY <3>3 DEF x, y
  <2>7. d = e
    BY <2>1, <2>2, <2>3, <2>5, <2>6, CommonLayer
  <2>8. Len(txs) = Len(us)
    BY <2>4, <2>7
  <2>9. ASSUME NEW i \in 1..Len(txs) PROVE txs[i] = us[i]
    <3>1. d[i] = [leaf |-> txs[i]] /\ e[i] = [leaf |-> us[i]]
      BY <2>4, <2>8
    <3>2. [leaf |-> txs[i]].leaf = [leaf |-> us[i]].leaf
      BY <2>7, <3>1
    <3> QED
      BY <3>2
  <2> QED
    BY <2>8, <2>9
<1> QED
  BY <1>6, <1>7

-----------------------------------------------------------------------------
(* Blocks. *)

\* What the checks of a node, or the mining tick, leave of a block.
Sound(b) ==
    /\ b = [height |-> b.height, parents |-> b.parents, miner |-> b.miner, dev |-> b.dev,
            root |-> b.root, coinbase |-> b.coinbase, txs |-> b.txs]
    /\ b.height \in Nat \ {0} /\ b.miner \in Addr /\ b.txs \in Seq(Txs)
    /\ verify_coinbase_rewards(b)
    /\ verify_transaction_merkle_root(b)
    /\ \A i \in DOMAIN b.txs : verify_transaction_signature(b.txs[i])
    /\ Distinct(b.txs)

\* The hash of such a block names it.
LEMMA SameHash ==
    ASSUME NEW b, Sound(b), NEW c, Sound(c), calculate_hash(b) = calculate_hash(c)
    PROVE  b = c
<1>1. /\ b.height = c.height /\ b.parents = c.parents /\ b.root = c.root
      /\ b.miner = c.miner /\ b.dev = c.dev
  BY DEF calculate_hash
<1>2. b.coinbase = c.coinbase
  BY <1>1 DEF Sound, verify_coinbase_rewards
<1>3. transaction_merkle_root(b.txs) = transaction_merkle_root(c.txs)
  BY <1>1 DEF Sound, verify_transaction_merkle_root
<1>4. b.txs = c.txs
  BY <1>3, RootInjective DEF Sound
<1> QED
  BY <1>1, <1>2, <1>4 DEF Sound

\* It can be applied to a ledger.
LEMMA SoundPayload ==
    ASSUME NEW b, Sound(b)
    PROVE  Payload(b)
<1>1. b.coinbase = calculate_subsidy_split(b.height) /\ b.height \in Nat
  BY DEF Sound, verify_coinbase_rewards
<1>2. b.coinbase \in [miner : Nat, dev : Nat]
  BY <1>1, SubsidyType
<1> QED
  BY <1>2 DEF Sound, Payload

-----------------------------------------------------------------------------
(* The specification. *)

\* Every block anywhere is sound, and stored under its hash.
Inv ==
    /\ \A b \in mined : Sound(b)
    /\ DOMAIN store = Miners
    /\ \A n \in Miners :
          /\ IsFiniteSet(DOMAIN store[n])
          /\ \A h \in DOMAIN store[n] :
                Sound(store[n][h]) /\ h = calculate_hash(store[n][h])
    /\ ledger \in [Miners -> Ledgers]

\* A node that stores a sound block keeps this.
LEMMA IngestInv ==
    ASSUME Inv, NEW n \in Miners, NEW b, Sound(b), Ingest(n, b)
    PROVE  /\ DOMAIN store' = Miners
           /\ \A m \in Miners :
                 /\ IsFiniteSet(DOMAIN store'[m])
                 /\ \A h \in DOMAIN store'[m] :
                       Sound(store'[m][h]) /\ h = calculate_hash(store'[m][h])
           /\ ledger' \in [Miners -> Ledgers]
<1> DEFINE f == Keep(store[n], b)
<1>1. store' = [store EXCEPT ![n] = f] /\ DOMAIN store = Miners
  BY DEF Ingest, Inv
<1>2. store'[n] = f /\ \A m \in Miners \ {n} : store'[m] = store[m]
  BY <1>1
<1>3. DOMAIN f = DOMAIN store[n] \cup {calculate_hash(b)}
  BY DEF Keep
<1>4. IsFiniteSet(DOMAIN f)
  BY <1>3, FS_AddElement DEF Inv
<1>5. ASSUME NEW h \in DOMAIN f PROVE Sound(f[h]) /\ h = calculate_hash(f[h])
  <2>1. f[h] = IF h = calculate_hash(b) THEN b ELSE store[n][h]
    BY DEF Keep
  <2> QED
    BY <1>3, <2>1 DEF Inv
<1>6. \A h \in DOMAIN f : Payload(f[h])
  BY <1>5, SoundPayload
<1> HIDE DEF f
<1>7. PICK l \in LedgersAfter(n, f, b) : ledger' = [ledger EXCEPT ![n] = l]
  BY <1>2 DEF Ingest
<1>8. l \in Ledgers
  <2>1. CASE l = apply_block(ledger[n], b).ledger
    <3>1. ledger[n] \in Ledgers /\ Payload(b)
      BY SoundPayload DEF Inv
    <3> QED
      BY <2>1, <3>1, ApplyBlockIs DEF Adds
  <2>2. ASSUME NEW order \in SetToAllKPermutations(DOMAIN f), l = Replayed(f, order).ledger
        PROVE  l \in Ledgers
    <3>1. PICK S \in SUBSET DOMAIN f : order \in SetToSeqs(S)
      BY DEF SetToAllKPermutations
    <3>2. IsFiniteSet(S)
      BY <1>4, FS_Subset
    <3>3. Cardinality(S) \in Nat /\ order \in [1..Cardinality(S) -> S] /\ IsInjective(order)
      BY <3>1, <3>2, OrdersAre
    <3>4. ReplayAll(f, DOMAIN f, order) \in Results
      BY <1>4, <1>6, <3>3, ReplayIs
    <3> QED
      BY <2>2, <3>4 DEF Replayed, Results
  <2> QED
    BY <1>7, <2>1, <2>2 DEF LedgersAfter
<1>9. ledger' \in [Miners -> Ledgers]
  BY <1>7, <1>8 DEF Inv
<1> QED
  BY <1>1, <1>2, <1>4, <1>5, <1>9 DEF Inv

\* A list over some of the transactions is one of transactions.
LEMMA BatchType ==
    ASSUME Inv, NEW n \in Miners, NEW batch \in Batches(n)
    PROVE  batch \in Seq(Txs)
<1> DEFINE T == {tx \in Txs : tx.sig \in ValidSigs}
<1>1. PICK candidates \in SetToAllKPermutations(T) :
         batch = select_affordable(ledger[n], candidates, n)
  BY DEF Batches
<1>2. PICK S \in SUBSET T : candidates \in SetToSeqs(S)
  BY <1>1 DEF SetToAllKPermutations
<1>3. S \subseteq Txs
  OBVIOUS
<1> HIDE DEF T
<1>4. IsFiniteSet(S)
  BY <1>3, FS_Subset, BlockIdAssumption
<1>5. Cardinality(S) \in Nat /\ candidates \in [1..Cardinality(S) -> S]
  BY <1>2, <1>4, OrdersAre
<1>6. candidates \in Seq(Txs)
  <2>1. \A k \in Nat : \A q \in [1..k -> Txs] : q \in Seq(Txs)
    OBVIOUS
  <2>2. candidates \in [1..Cardinality(S) -> Txs]
    BY <1>3, <1>5
  <2> QED
    BY <1>5, <2>1, <2>2
<1>7. ledger[n] \in Ledgers /\ n \in Addr
  BY BlockIdAssumption DEF Inv
<1> QED
  BY <1>1, <1>6, <1>7, SelectedType

\* A block the mining tick makes is sound, and so is one that is received.
LEMMA MineInv ==
    ASSUME Inv, NEW n \in Miners, NEW parent \in {GenesisHash} \cup DOMAIN store[n],
           NEW batch \in Batches(n), Mine(n, parent, batch)
    PROVE  Inv'
<1> DEFINE b == [height |-> parent.height + 1, parents |-> <<parent>>, miner |-> n,
                 dev |-> DEV_TREASURY_ADDRESS, root |-> transaction_merkle_root(batch),
                 coinbase |-> calculate_subsidy_split(parent.height + 1), txs |-> batch]
<1>1. /\ \A i \in DOMAIN batch : verify_transaction_signature(batch[i])
      /\ apply_block(ledger[n], b).ok
      /\ mined' = mined \cup {b}
      /\ Ingest(n, b)
  BY DEF Mine
<1>2. parent.height \in Nat
  <2>1. CASE parent = GenesisHash
    BY <2>1 DEF GenesisHash
  <2>2. CASE parent \in DOMAIN store[n]
    <3>1. Sound(store[n][parent]) /\ parent = calculate_hash(store[n][parent])
      BY <2>2 DEF Inv
    <3>2. parent.height = store[n][parent].height
      BY <3>1 DEF calculate_hash
    <3> QED
      BY <3>1, <3>2 DEF Sound
  <2> QED
    BY <2>1, <2>2
<1>3. /\ b = [height |-> b.height, parents |-> b.parents, miner |-> b.miner, dev |-> b.dev,
              root |-> b.root, coinbase |-> b.coinbase, txs |-> b.txs]
      /\ b.height = parent.height + 1 /\ b.miner = n /\ b.txs = batch
      /\ b.root = transaction_merkle_root(batch)
      /\ b.coinbase = calculate_subsidy_split(parent.height + 1)
  OBVIOUS
<1>4. batch \in Seq(Txs)
  BY BatchType
<1> HIDE DEF b
<1>5. b.height \in Nat \ {0} /\ b.miner \in Addr /\ b.txs \in Seq(Txs)
  BY <1>2, <1>3, <1>4, BlockIdAssumption
<1>6. verify_coinbase_rewards(b) /\ verify_transaction_merkle_root(b)
  BY <1>3 DEF verify_coinbase_rewards, verify_transaction_merkle_root
<1>7. Payload(b)
  <2>1. b.coinbase \in [miner : Nat, dev : Nat]
    BY <1>3, <1>5, SubsidyType
  <2> QED
    BY <1>5, <2>1 DEF Payload
<1>8. Distinct(b.txs)
  <2>1. ledger[n] \in Ledgers
    BY DEF Inv
  <2> QED
    BY <1>1, <1>7, <2>1, ApplyBlockIs
<1>9. Sound(b)
  BY <1>1, <1>3, <1>5, <1>6, <1>8 DEF Sound
<1> QED
  BY <1>1, <1>9, IngestInv DEF Inv

LEMMA ReceiveInv ==
    ASSUME Inv, NEW n \in Miners, NEW m \in mined, NEW b \in Variants(m), Receive(n, b)
    PROVE  Inv'
<1>1. Valid(n, b) /\ Ingest(n, b) /\ mined' = mined
  BY DEF Receive
<1>2. Sound(m)
  BY DEF Inv
<1> DEFINE T == UNION {{u \in Txs : u.nonce = v.nonce} : v \in ToSet(m.txs)}
           C == {m.coinbase, [m.coinbase EXCEPT !.miner = @ + 1]}
<1>3. PICK t \in SeqOf(T, MaxTxs), c \in C : b = [m EXCEPT !.txs = t, !.coinbase = c]
  <2>1. PICK p \in SeqOf(T, MaxTxs) \X C : b = [m EXCEPT !.txs = p[1], !.coinbase = p[2]]
    BY DEF Variants
  <2> HIDE DEF T, C
  <2>2. p[1] \in SeqOf(T, MaxTxs) /\ p[2] \in C
    OBVIOUS
  <2> QED
    BY <2>1, <2>2
<1>4. t \in Seq(Txs)
  <2>1. PICK k \in 0..MaxTxs : t \in [1..k -> T]
    BY <1>3 DEF SeqOf
  <2>2. T \subseteq Txs /\ k \in Nat
    BY BlockIdAssumption
  <2> HIDE DEF T
  <2>3. t \in [1..k -> Txs]
    BY <2>1, <2>2
  <2> QED
    BY <2>2, <2>3
<1> HIDE DEF T
<1>5. /\ b = [height |-> b.height, parents |-> b.parents, miner |-> b.miner, dev |-> b.dev,
              root |-> b.root, coinbase |-> b.coinbase, txs |-> b.txs]
      /\ b.height = m.height /\ b.miner = m.miner /\ b.txs = t
  <2>1. m = [height |-> m.height, parents |-> m.parents, miner |-> m.miner, dev |-> m.dev,
             root |-> m.root, coinbase |-> m.coinbase, txs |-> m.txs]
    BY <1>2 DEF Sound
  <2>2. b = [height |-> m.height, parents |-> m.parents, miner |-> m.miner, dev |-> m.dev,
             root |-> m.root, coinbase |-> c, txs |-> t]
    BY <1>3, <2>1
  <2> QED
    BY <2>2
<1>6. /\ b.height \in Nat \ {0} /\ b.miner \in Addr /\ b.txs \in Seq(Txs)
      /\ verify_coinbase_rewards(b) /\ verify_transaction_merkle_root(b)
      /\ \A i \in DOMAIN b.txs : verify_transaction_signature(b.txs[i])
      /\ apply_block(ledger[n], b).ok
  BY <1>1, <1>2, <1>4, <1>5 DEF Sound, Valid
<1>7. Payload(b)
  <2>1. b.coinbase \in [miner : Nat, dev : Nat]
    BY <1>6, SubsidyType DEF verify_coinbase_rewards
  <2> QED
    BY <1>6, <2>1 DEF Payload
<1>8. Distinct(b.txs)
  <2>1. ledger[n] \in Ledgers
    BY DEF Inv
  <2> QED
    BY <1>6, <1>7, <2>1, ApplyBlockIs
<1>9. Sound(b)
  BY <1>5, <1>6, <1>8 DEF Sound
<1> QED
  BY <1>1, <1>9, IngestInv DEF Inv

\* Nothing a node does can put an unsound block anywhere.
LEMMA InvHolds == Spec => []Inv
<1>1. Init => Inv
  <2> SUFFICES ASSUME Init PROVE Inv
    OBVIOUS
  <2>1. \A n \in Miners : store[n] = <<>> /\ DOMAIN store[n] = {}
    BY DEF Init
  <2>2. IsFiniteSet({})
    BY FS_EmptySet
  <2>3. ledger \in [Miners -> Ledgers]
    BY DefaultType DEF Init
  <2> QED
    BY <2>1, <2>2, <2>3 DEF Init, Inv
<1>2. Inv /\ [Next]_vars => Inv'
  <2> SUFFICES ASSUME Inv, [Next]_vars PROVE Inv'
    OBVIOUS
  <2>1. CASE UNCHANGED vars
    BY <2>1 DEF vars, Inv
  <2>2. ASSUME NEW n \in Miners,
               \E parent \in {GenesisHash} \cup DOMAIN store[n], batch \in Batches(n) :
                  Mine(n, parent, batch)
        PROVE  Inv'
    BY <2>2, MineInv
  <2>3. ASSUME NEW n \in Miners,
               \E m \in mined : \E b \in Variants(m) : Receive(n, b)
        PROVE  Inv'
    BY <2>3, ReceiveInv
  <2> QED
    BY <2>1, <2>2, <2>3 DEF Next
<1> QED
  BY <1>1, <1>2, PTL DEF Spec

(***************************************************************************)
(* Two blocks with one hash are the same block, whoever keeps them and     *)
(* however their transactions and amounts were changed under way           *)
(* (calculate_hash, verify_transaction_merkle_root, apply_block), for any  *)
(* number of transactions in a block.                                      *)
(***************************************************************************)
THEOREM HashIsUnique == Spec => []HashNamesOneBlock
<1>1. Inv => HashNamesOneBlock
  <2> SUFFICES ASSUME Inv PROVE HashNamesOneBlock
    OBVIOUS
  <2>1. \A b \in AllBlocks : Sound(b)
    BY DEF AllBlocks, Range, Inv
  <2> QED
    BY <2>1, SameHash DEF HashNamesOneBlock
<1> QED
  BY <1>1, InvHolds, PTL
=============================================================================
