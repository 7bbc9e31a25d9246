-------------------------- MODULE ConsensusTheorems -------------------------
(***************************************************************************)
(* Facts for the proofs about specifications that are built from the       *)
(* operators of LedgerState and Ghostdag: the folds they are written with, *)
(* the ledger, and the GHOSTDAG engine.                                    *)
(*                                                                         *)
(* A fold of the community modules is a function that is chosen to satisfy *)
(* its recursion equation: FoldExists shows that there is one, by          *)
(* induction on the size of the sets; and induction is by a least          *)
(* counterexample (WFMin), for want of an induction theorem that the       *)
(* provers can instantiate.                                                *)
(***************************************************************************)
EXTENDS LedgerState, Ghostdag, FiniteSetTheorems, SequenceTheorems,
        NaturalsInduction, WellFoundedInduction, TLAPS

-----------------------------------------------------------------------------
(* Induction. *)

\* A nonempty set of natural numbers has a least element.
LEMMA LeastNat ==
    ASSUME NEW T, T \subseteq Nat, T # {}
    PROVE  \E x \in T : \A y \in T : x <= y
<1> DEFINE R == OpToRel(<, Nat)
<1>1. IsWellFoundedOn(R, Nat)
  BY NatLessThanWellFounded
<1>2. \A x, y \in Nat : y < x => <<y, x>> \in R
  BY DEF OpToRel
<1> HIDE DEF R
<1>3. PICK x \in T : \A y \in T : ~(<<y, x>> \in R)
  BY <1>1, WFMin DEF R
<1>4. ASSUME NEW y \in T PROVE x <= y
  <2>1. ~(y < x) /\ x \in Nat /\ y \in Nat
    BY <1>2, <1>3
  <2> QED
    BY <2>1
<1> QED
  BY <1>4

\* Induction on the natural numbers: a set that holds 0, and n + 1 with every
\* n it holds, holds them all.
LEMMA NatSetInduction ==
    ASSUME NEW P, 0 \in P, \A n \in Nat : n \in P => n + 1 \in P
    PROVE  Nat \subseteq P
<1> SUFFICES ASSUME Nat \ P # {} PROVE FALSE
  OBVIOUS
<1>1. PICK x \in Nat \ P : \A y \in Nat \ P : x <= y
  BY LeastNat
<1>2. x # 0 /\ x - 1 \in Nat /\ ~(x <= x - 1)
  BY <1>1
<1>3. x - 1 \in P
  BY <1>1, <1>2
<1> QED
  BY <1>1, <1>2, <1>3

\* Induction on the subsets of a finite set: a set that holds the empty set,
\* and every nonempty subset from which some element can be taken so that the
\* rest is held, holds them all.
LEMMA SubsetInduction ==
    ASSUME NEW S, IsFiniteSet(S), NEW P, {} \in P,
           \A s \in SUBSET S : s # {} /\ (\A a \in s : s \ {a} \in P) => s \in P
    PROVE  SUBSET S \subseteq P
<1> DEFINE Q == {n \in Nat : \A s \in SUBSET S : Cardinality(s) <= n => s \in P}
<1>1. \A s \in SUBSET S : IsFiniteSet(s) /\ Cardinality(s) \in Nat
  BY FS_Subset, FS_CardinalityType
<1>2. 0 \in Q
  <2>1. ASSUME NEW s \in SUBSET S, Cardinality(s) <= 0 PROVE s = {}
    BY <1>1, <2>1, FS_EmptySet
  <2> QED
    BY <2>1
<1>3. ASSUME NEW n \in Nat, n \in Q PROVE n + 1 \in Q
  <2> SUFFICES ASSUME NEW s \in SUBSET S, Cardinality(s) <= n + 1 PROVE s \in P
    BY DEF Q
  <2> SUFFICES ASSUME s # {} PROVE s \in P
    OBVIOUS
  <2>1. ASSUME NEW a \in s PROVE s \ {a} \in P
    <3>1. Cardinality(s \ {a}) = Cardinality(s) - 1
      BY <1>1, FS_RemoveElement
    <3>2. Cardinality(s \ {a}) <= n
      BY <1>1, <3>1
    <3> QED
      BY <1>3, <3>2 DEF Q
  <2> QED
    BY <2>1
<1>4. Nat \subseteq Q
  <2> HIDE DEF Q
  <2> QED
    BY <1>2, <1>3, NatSetInduction
<1> QED
  BY <1>1, <1>4

-----------------------------------------------------------------------------
(* Sequences. *)

\* Appending to the second of two sequences or to both is the same.
LEMMA ConcatAppend ==
    ASSUME NEW S, NEW p \in Seq(S), NEW q \in Seq(S), NEW e \in S
    PROVE  p \o Append(q, e) = Append(p \o q, e)
<1>1. p \o q \in Seq(S) /\ <<e>> \in Seq(S)
  BY ConcatProperties
<1>2. Append(q, e) = q \o <<e>> /\ Append(p \o q, e) = (p \o q) \o <<e>>
  BY <1>1, AppendIsConcat
<1>3. (p \o q) \o <<e>> = p \o (q \o <<e>>)
  BY <1>1, ConcatAssociative
<1> QED
  BY <1>2, <1>3

-----------------------------------------------------------------------------
(* Folds. *)

\* c picks an element of each nonempty subset of S.
Picks(c, S) == \A s \in SUBSET S : s # {} => c[s] \in s

\* g solves the recursion equation of a fold over the subsets of S.
Solution(g, S, base, c, G) ==
    \A s \in SUBSET S :
        g[s] = IF s = {} THEN base ELSE G[<<c[s], g[s \ {c[s]}]>>]

\* The recursion equation of a fold over the subsets of a finite set S has a
\* solution, whatever element c picks of each set: it is built for the sets of
\* at most n elements, for n = 0, 1, ...
LEMMA FoldExists ==
    ASSUME NEW S, IsFiniteSet(S), NEW V, NEW base \in V,
           NEW c, Picks(c, S), NEW G \in [S \X V -> V]
    PROVE  \E g \in [SUBSET S -> V] : Solution(g, S, base, c, G)
<1> DEFINE Solves(g, n) ==
               \A s \in SUBSET S : Cardinality(s) <= n =>
                   g[s] = IF s = {} THEN base ELSE G[<<c[s], g[s \ {c[s]}]>>]
           Q == {n \in Nat : \E g \in [SUBSET S -> V] : Solves(g, n)}
<1>1. \A s \in SUBSET S : IsFiniteSet(s) /\ Cardinality(s) \in Nat
  BY FS_Subset, FS_CardinalityType
<1>2. 0 \in Q
  <2> DEFINE g == [s \in SUBSET S |-> base]
  <2>1. g \in [SUBSET S -> V]
    OBVIOUS
  <2>2. ASSUME NEW s \in SUBSET S, Cardinality(s) <= 0 PROVE s = {}
    BY <1>1, <2>2, FS_EmptySet
  <2>3. Solves(g, 0)
    BY <2>2
  <2> QED
    BY <2>1, <2>3
<1>3. ASSUME NEW n \in Nat, n \in Q PROVE n + 1 \in Q
  <2>1. PICK f \in [SUBSET S -> V] : Solves(f, n)
    BY <1>3
  <2> DEFINE g == [s \in SUBSET S |->
                      IF s = {} THEN base ELSE G[<<c[s], f[s \ {c[s]}]>>]]
  <2>2. g \in [SUBSET S -> V]
    <3> SUFFICES ASSUME NEW s \in SUBSET S, s # {}
                 PROVE  G[<<c[s], f[s \ {c[s]}]>>] \in V
      OBVIOUS
    <3>1. c[s] \in S /\ s \ {c[s]} \in SUBSET S
      BY DEF Picks
    <3> QED
      BY <3>1
  <2>3. ASSUME NEW s \in SUBSET S, Cardinality(s) <= n PROVE g[s] = f[s]
    BY <2>1, <2>3
  <2>4. ASSUME NEW s \in SUBSET S, Cardinality(s) <= n + 1, s # {}
        PROVE  g[s] = G[<<c[s], g[s \ {c[s]}]>>]
    <3>1. c[s] \in s /\ s \ {c[s]} \in SUBSET S
      BY <2>4 DEF Picks
    <3>2. Cardinality(s \ {c[s]}) = Cardinality(s) - 1
      BY <1>1, <3>1, FS_RemoveElement
    <3>3. Cardinality(s \ {c[s]}) <= n
      BY <1>1, <2>4, <3>2
    <3>4. g[s \ {c[s]}] = f[s \ {c[s]}]
      BY <2>3, <3>1, <3>3
    <3> HIDE DEF Solves
    <3>5. g[s] = G[<<c[s], f[s \ {c[s]}]>>]
      BY <2>4
    <3> HIDE DEF g
    <3> QED
      BY <3>4, <3>5
  <2>5. g[{}] = base
    OBVIOUS
  <2>6. Solves(g, n + 1)
    <3> HIDE DEF g
    <3> QED
      BY <2>4, <2>5
  <2> HIDE DEF g, Solves
  <2> QED
    BY <2>2, <2>6
<1>4. Nat \subseteq Q
  <2> HIDE DEF Q
  <2> QED
    BY <1>2, <1>3, NatSetInduction
<1>5. Cardinality(S) \in Q /\ \A s \in SUBSET S : Cardinality(s) <= Cardinality(S)
  BY <1>1, <1>4, FS_Subset
<1> QED
  BY <1>5 DEF Solution

\* g is a run of n iterations of F from base.
Iterates(g, n, base, F) == g[0] = base /\ \A k \in 1..n : g[k] = F[g[k - 1]]

\* Iterating a function n times has a run.
LEMMA IterationExists ==
    ASSUME NEW n \in Nat, NEW V, NEW base \in V, NEW F \in [V -> V]
    PROVE  \E g \in [0..n -> V] : Iterates(g, n, base, F)
<1> DEFINE Runs(g, m) == g[0] = base /\ \A k \in 1..m : g[k] = F[g[k - 1]]
           Q == {m \in Nat : \E g \in [0..m -> V] : Runs(g, m)}
<1>1. 0 \in Q
  <2> DEFINE g == [k \in 0..0 |-> base]
  <2>1. g \in [0..0 -> V] /\ Runs(g, 0)
    OBVIOUS
  <2> HIDE DEF g, Runs
  <2> QED
    BY <2>1
<1>2. ASSUME NEW m \in Nat, m \in Q PROVE m + 1 \in Q
  <2>1. PICK f \in [0..m -> V] : Runs(f, m)
    BY <1>2
  <2> DEFINE g == [k \in 0..(m + 1) |-> IF k = m + 1 THEN F[f[m]] ELSE f[k]]
  <2>2. g \in [0..(m + 1) -> V]
    <3> SUFFICES ASSUME NEW k \in 0..(m + 1), k # m + 1 PROVE f[k] \in V
      OBVIOUS
    <3>1. k \in 0..m
      OBVIOUS
    <3> QED
      BY <3>1
  <2>3. g[m + 1] = F[f[m]] /\ \A k \in 0..m : g[k] = f[k]
    OBVIOUS
  <2> HIDE DEF g
  <2>4. ASSUME NEW k \in 1..(m + 1) PROVE g[k] = F[g[k - 1]]
    <3>1. CASE k = m + 1
      <4>1. k - 1 = m /\ m \in 0..m
        BY <3>1
      <4> QED
        BY <2>3, <3>1, <4>1
    <3>2. CASE k # m + 1
      <4>1. k \in 1..m /\ k \in 0..m /\ k - 1 \in 0..m
        BY <3>2
      <4> QED
        BY <2>1, <2>3, <4>1
    <3> QED
      BY <3>1, <3>2
  <2>5. Runs(g, m + 1)
    BY <2>1, <2>3, <2>4
  <2> HIDE DEF Runs
  <2> QED
    BY <2>2, <2>5
<1>3. Nat \subseteq Q
  <2> HIDE DEF Q
  <2> QED
    BY <1>1, <1>2, NatSetInduction
<1> QED
  BY <1>3 DEF Iterates

\* The largest of the first k positive numbers.
LEMMA MaxOfPrefix ==
    ASSUME NEW k \in Nat \ {0}
    PROVE  Max(1..k) = k
<1>1. k \in 1..k /\ \A y \in 1..k : k >= y
  OBVIOUS
<1>2. \A x \in 1..k : (\A y \in 1..k : x >= y) => x = k
  BY <1>1
<1> QED
  BY <1>1, <1>2 DEF Max

\* The prefixes of 1..n.
LEMMA Prefix ==
    ASSUME NEW n \in Nat, NEW k \in 1..n
    PROVE  /\ k \in Nat \ {0} /\ k \in 0..n /\ k - 1 \in 0..n
           /\ 1..k \in SUBSET (1..n) /\ 1..k # {} /\ (1..k) \ {k} = 1..(k - 1)
<1>1. k \in Nat \ {0} /\ k \in 0..n /\ k - 1 \in 0..n
  OBVIOUS
<1>2. 1..k \in SUBSET (1..n) /\ k \in 1..k
  OBVIOUS
<1>3. (1..k) \ {k} = 1..(k - 1)
  OBVIOUS
<1> QED
  BY <1>1, <1>2, <1>3

\* Max picks an element of any nonempty set of such numbers.
LEMMA MaxInSet ==
    ASSUME NEW n \in Nat, NEW s \in SUBSET (1..n), s # {}
    PROVE  Max(s) \in s
<1> DEFINE T == {n - x : x \in s}
<1>1. T \subseteq Nat /\ T # {}
  <2>1. \A x \in s : n - x \in Nat
    OBVIOUS
  <2> QED
    BY <2>1
<1>2. PICK t \in T : \A u \in T : t <= u
  BY <1>1, LeastNat
<1>3. PICK x \in s : t = n - x
  OBVIOUS
<1>4. ASSUME NEW y \in s PROVE x >= y
  <2>1. t <= n - y
    BY <1>2
  <2> QED
    BY <1>3, <2>1
<1>5. \E z \in s : \A y \in s : z >= y
  BY <1>4
<1> QED
  BY <1>5 DEF Max

\* Two runs of a loop that start alike and step alike end alike.
LEMMA RunsAgree ==
    ASSUME NEW n \in Nat, NEW r, NEW q, r[0] = q[0],
           \A k \in 1..n : r[k - 1] = q[k - 1] => r[k] = q[k]
    PROVE  r[n] = q[n]
<1> DEFINE P == {k \in Nat : k <= n => r[k] = q[k]}
<1>1. 0 \in P
  OBVIOUS
<1>2. ASSUME NEW k \in Nat, k \in P PROVE k + 1 \in P
  <2> SUFFICES ASSUME k + 1 <= n PROVE r[k + 1] = q[k + 1]
    OBVIOUS
  <2>1. k + 1 \in 1..n /\ (k + 1) - 1 = k /\ k <= n
    OBVIOUS
  <2> QED
    BY <1>2, <2>1
<1>3. Nat \subseteq P
  <2> HIDE DEF P
  <2> QED
    BY <1>1, <1>2, NatSetInduction
<1> QED
  BY <1>3

\* g solves the recursion equation of a fold from the left over n elements, in
\* which G takes the k-th element and the value so far to the next value.
LeftFold(g, n, base, G) ==
    /\ g[{}] = base
    /\ \A u \in SUBSET (1..n) : u # {} => g[u] = G[<<Max(u), g[u \ {Max(u)}]>>]

\* Such a fold has a solution.
LEMMA LeftFoldExists ==
    ASSUME NEW n \in Nat, NEW V, NEW base \in V, NEW G \in [(1..n) \X V -> V]
    PROVE  \E g \in [SUBSET (1..n) -> V] : LeftFold(g, n, base, G)
<1> DEFINE S == 1..n
           c == [u \in SUBSET S |-> Max(u)]
<1>1. IsFiniteSet(S)
  BY FS_Interval
<1>2. Picks(c, S)
  BY MaxInSet DEF Picks
<1>3. PICK g \in [SUBSET S -> V] : Solution(g, S, base, c, G)
  <2> HIDE DEF c, S
  <2>1. G \in [S \X V -> V]
    BY DEF S
  <2> QED
    BY <1>1, <1>2, <2>1, FoldExists
<1>4. ASSUME NEW u \in SUBSET S, u # {} PROVE g[u] = G[<<Max(u), g[u \ {Max(u)}]>>]
  <2>1. c[u] = Max(u)
    OBVIOUS
  <2> QED
    BY <1>3, <1>4, <2>1 DEF Solution
<1>5. g[{}] = base
  BY <1>3 DEF Solution
<1> QED
  BY <1>3, <1>4, <1>5 DEF LeftFold

\* A run of such a fold, element by element, and where it ends.
FoldRuns(r, n, base, G, end) ==
    /\ r[0] = base
    /\ \A k \in 1..n : r[k] = G[<<k, r[k - 1]>>]
    /\ r[n] = end

\* h solves the equation as long as the values lie in V.
FoldsWithin(h, n, V, base, G) ==
    /\ h[{}] = base
    /\ \A u \in SUBSET (1..n) :
          u # {} /\ h[u \ {Max(u)}] \in V => h[u] = G[<<Max(u), h[u \ {Max(u)}]>>]

\* Then its values do lie in V, and it has a run.
LEMMA LeftFoldRuns ==
    ASSUME NEW n \in Nat, NEW V, NEW base \in V, NEW G \in [(1..n) \X V -> V],
           NEW h, FoldsWithin(h, n, V, base, G)
    PROVE  \E r \in [0..n -> V] : FoldRuns(r, n, base, G, h[1..n])
<1> DEFINE r == [k \in 0..n |-> h[1..k]]
<1>1. r[0] = base
  <2>1. 1..0 = {} /\ 0 \in 0..n
    OBVIOUS
  <2> QED
    BY <2>1 DEF FoldsWithin
<1>2. ASSUME NEW k \in 1..n, r[k - 1] \in V PROVE r[k] = G[<<k, r[k - 1]>>] /\ r[k] \in V
  <2>1. /\ k \in Nat \ {0} /\ k \in 0..n /\ k - 1 \in 0..n
        /\ 1..k \in SUBSET (1..n) /\ 1..k # {} /\ (1..k) \ {k} = 1..(k - 1)
    BY Prefix
  <2>2. Max(1..k) = k
    BY <2>1, MaxOfPrefix
  <2>3. h[1..(k - 1)] \in V
    BY <1>2, <2>1
  <2>4. h[1..k] = G[<<k, h[1..(k - 1)]>>]
    BY <2>1, <2>2, <2>3 DEF FoldsWithin
  <2>5. <<k, h[1..(k - 1)]>> \in (1..n) \X V
    BY <2>3
  <2> QED
    BY <2>1, <2>4, <2>5
<1>3. r[n] = h[1..n] /\ r = [k \in 0..n |-> r[k]]
  OBVIOUS
<1> HIDE DEF r
<1> DEFINE Q == {k \in Nat : k <= n => r[k] \in V}
<1>4. 0 \in Q
  BY <1>1
<1>5. ASSUME NEW k \in Nat, k \in Q PROVE k + 1 \in Q
  <2> SUFFICES ASSUME k + 1 <= n PROVE r[k + 1] \in V
    OBVIOUS
  <2>1. k + 1 \in 1..n /\ (k + 1) - 1 = k /\ r[k] \in V
    BY <1>5
  <2> QED
    BY <1>2, <2>1
<1>6. Nat \subseteq Q
  <2> HIDE DEF Q
  <2> QED
    BY <1>4, <1>5, NatSetInduction
<1>7. \A k \in 0..n : r[k] \in V
  BY <1>6
<1>8. r \in [0..n -> V]
  BY <1>3, <1>7
<1>9. ASSUME NEW k \in 1..n PROVE r[k] = G[<<k, r[k - 1]>>]
  <2>1. k - 1 \in 0..n
    OBVIOUS
  <2> QED
    BY <1>2, <1>7, <2>1
<1> QED
  BY <1>1, <1>3, <1>8, <1>9 DEF FoldRuns

-----------------------------------------------------------------------------
(* Greatest and least elements. *)

\* A function on a nonempty finite set is greatest somewhere.
LEMMA ArgMax ==
    ASSUME NEW S, IsFiniteSet(S), S # {}, NEW f \in [S -> Int]
    PROVE  \E x \in S : \A y \in S : f[y] <= f[x]
<1> DEFINE P == {s \in SUBSET S : s # {} => \E x \in s : \A y \in s : f[y] <= f[x]}
<1>1. {} \in P
  OBVIOUS
<1>2. ASSUME NEW s \in SUBSET S, s # {}, \A a \in s : s \ {a} \in P
      PROVE  s \in P
  <2>1. PICK a \in s : TRUE
    BY <1>2
  <2>2. CASE s \ {a} = {}
    <3>1. \A y \in s : y = a
      BY <2>2
    <3>2. f[a] \in Int
      OBVIOUS
    <3> QED
      BY <3>1, <3>2
  <2>3. CASE s \ {a} # {}
    <3>1. PICK b \in s \ {a} : \A y \in s \ {a} : f[y] <= f[b]
      BY <1>2, <2>3
    <3>2. f[a] \in Int /\ f[b] \in Int /\ \A y \in s : f[y] \in Int
      OBVIOUS
    <3>3. CASE f[a] <= f[b]
      BY <3>1, <3>3
    <3>4. CASE f[b] <= f[a]
      <4>1. ASSUME NEW y \in s PROVE f[y] <= f[a]
        <5>1. CASE y = a
          BY <3>2, <5>1
        <5>2. CASE y # a
          <6>1. f[y] <= f[b]
            BY <3>1, <5>2
          <6> QED
            BY <3>2, <3>4, <6>1
        <5> QED
          BY <5>1, <5>2
      <4> QED
        BY <4>1
    <3> QED
      BY <3>2, <3>3, <3>4
  <2> QED
    BY <2>2, <2>3
<1>3. SUBSET S \subseteq P
  <2> HIDE DEF P
  <2> QED
    BY <1>1, <1>2, SubsetInduction
<1> QED
  BY <1>3

\* T holds the values of f on S.
Values(T, f, S) == (\A x \in S : f[x] \in T) /\ \A y \in T : \E x \in S : y = f[x]

\* The maximum of the values of a function on a nonempty finite set is one of
\* them, and none is greater.
LEMMA MaxOfValues ==
    ASSUME NEW S, IsFiniteSet(S), S # {}, NEW f \in [S -> Int],
           NEW T, Values(T, f, S)
    PROVE  /\ Max(T) \in Int
           /\ \E x \in S : f[x] = Max(T)
           /\ \A x \in S : f[x] <= Max(T)
<1>1. PICK x \in S : \A y \in S : f[y] <= f[x]
  BY ArgMax
<1>2. f[x] \in T /\ \A y \in T : f[x] >= y
  BY <1>1 DEF Values
<1>3. Max(T) \in T /\ \A y \in T : Max(T) >= y
  BY <1>2 DEF Max
<1>4. \A y \in S : f[y] \in T
  BY DEF Values
<1>5. Max(T) \in Int /\ \A y \in S : f[y] \in Int
  BY <1>3 DEF Values
<1>6. \E y \in S : f[y] = Max(T)
  BY <1>3 DEF Values
<1>7. \A y \in S : f[y] <= Max(T)
  BY <1>3, <1>4, <1>5
<1> QED
  BY <1>5, <1>6, <1>7

\* The maximum of a nonempty finite set of integers.
LEMMA MaxOfFinite ==
    ASSUME NEW S, IsFiniteSet(S), S # {}, S \subseteq Int
    PROVE  Max(S) \in S /\ \A y \in S : y <= Max(S)
<1> DEFINE f == [x \in S |-> x]
<1>1. f \in [S -> Int] /\ \A x \in S : f[x] = x
  OBVIOUS
<1> HIDE DEF f
<1>2. PICK x \in S : \A y \in S : f[y] <= f[x]
  BY <1>1, ArgMax
<1>3. \A y \in S : x >= y
  BY <1>1, <1>2
<1>4. Max(S) \in S /\ \A y \in S : Max(S) >= y
  BY <1>3 DEF Max
<1> QED
  BY <1>4

\* The minimum of a nonempty set of natural numbers.
LEMMA MinOfNats ==
    ASSUME NEW S, S # {}, S \subseteq Nat
    PROVE  Min(S) \in S /\ \A y \in S : Min(S) <= y
  BY LeastNat DEF Min

-----------------------------------------------------------------------------
(* Sums of the values of a function. *)

\* g holds the sums of f over the subsets of S.
Sums(g, f, S) ==
    /\ g \in [SUBSET S -> Int]
    /\ g[{}] = 0
    /\ \A s \in SUBSET S : \A a \in s : g[s] = f[a] + g[s \ {a}]

\* The order in which a sum takes the elements does not matter.
LEMMA AnyOrder ==
    ASSUME NEW S, IsFiniteSet(S), NEW f \in [S -> Int], NEW c, Picks(c, S),
           NEW g \in [SUBSET S -> Int],
           g[{}] = 0,
           \A s \in SUBSET S : s # {} => g[s] = f[c[s]] + g[s \ {c[s]}]
    PROVE  Sums(g, f, S)
<1> DEFINE Good(s) == \A a \in s : g[s] = f[a] + g[s \ {a}]
           P == {s \in SUBSET S : Good(s)}
<1>1. {} \in P
  OBVIOUS
<1>2. ASSUME NEW s \in SUBSET S, s # {}, \A a \in s : s \ {a} \in P
      PROVE  s \in P
  <2> SUFFICES ASSUME NEW a \in s, a # c[s]
               PROVE  g[s] = f[a] + g[s \ {a}]
    BY <1>2
  <2> DEFINE x == c[s]
  <2>1. x \in s /\ g[s] = f[x] + g[s \ {x}]
    BY <1>2 DEF Picks
  <2>2. g[s \ {x}] = f[a] + g[(s \ {x}) \ {a}]
    BY <1>2, <2>1
  <2>3. g[s \ {a}] = f[x] + g[(s \ {a}) \ {x}]
    BY <1>2, <2>1
  <2>4. (s \ {x}) \ {a} = (s \ {a}) \ {x} /\ (s \ {a}) \ {x} \in SUBSET S
    OBVIOUS
  <2>5. f[a] \in Int /\ f[x] \in Int /\ g[(s \ {a}) \ {x}] \in Int
    BY <2>1, <2>4
  <2> DEFINE rest == g[(s \ {a}) \ {x}]
  <2>6. g[s] = f[x] + (f[a] + rest) /\ g[s \ {a}] = f[x] + rest
    BY <2>1, <2>2, <2>3, <2>4
  <2> HIDE DEF x, rest, Good, P
  <2>7. f[x] + (f[a] + rest) = f[a] + (f[x] + rest)
    BY <2>5 DEF rest
  <2> QED
    BY <2>6, <2>7
<1>3. SUBSET S \subseteq P
  <2> HIDE DEF P
  <2> QED
    BY <1>1, <1>2, SubsetInduction
<1> QED
  BY <1>3 DEF Sums

\* SumFunction is the sum over the whole domain.
LEMMA SumIsSum ==
    ASSUME NEW S, IsFiniteSet(S), NEW f \in [S -> Int]
    PROVE  \E g : Sums(g, f, S) /\ SumFunction(f) = g[S]
<1> DEFINE Eq(g) == g = [s \in SUBSET S |->
                            IF s = {} THEN 0
                            ELSE f[CHOOSE x \in s : TRUE] + g[s \ {CHOOSE x \in s : TRUE}]]
           c == [s \in SUBSET S |-> CHOOSE x \in s : TRUE]
           G == [p \in S \X Int |-> f[p[1]] + p[2]]
<1>1. SumFunction(f) = (CHOOSE it : Eq(it))[S]
  BY DEF SumFunction, SumFunctionOnSet, FoldFunctionOnSet, MapThenFoldSet
<1>2. Picks(c, S)
  BY DEF Picks
<1>3. G \in [S \X Int -> Int] /\ 0 \in Int
  OBVIOUS
<1>4. PICK g \in [SUBSET S -> Int] : Solution(g, S, 0, c, G)
  <2> HIDE DEF c, G
  <2> QED
    BY <1>2, <1>3, FoldExists
<1>5. ASSUME NEW s \in SUBSET S, s # {}
      PROVE  G[<<c[s], g[s \ {c[s]}]>>] = f[c[s]] + g[s \ {c[s]}]
  <2>1. c[s] \in S /\ g[s \ {c[s]}] \in Int
    BY <1>2, <1>5 DEF Picks
  <2> HIDE DEF c
  <2>2. <<c[s], g[s \ {c[s]}]>> \in S \X Int
    BY <2>1
  <2> QED
    BY <2>2
<1>6. Eq(g)
  <2>1. ASSUME NEW s \in SUBSET S
        PROVE  g[s] = IF s = {} THEN 0
                      ELSE f[CHOOSE x \in s : TRUE] + g[s \ {CHOOSE x \in s : TRUE}]
    <3>1. g[s] = IF s = {} THEN 0 ELSE G[<<c[s], g[s \ {c[s]}]>>]
      BY <1>4 DEF Solution
    <3>2. c[s] = CHOOSE x \in s : TRUE
      OBVIOUS
    <3> HIDE DEF c, G
    <3> QED
      BY <1>5, <3>1, <3>2
  <2>2. g = [s \in SUBSET S |-> g[s]]
    OBVIOUS
  <2> QED
    BY <2>1, <2>2
<1> DEFINE h == CHOOSE it : Eq(it)
<1>7. Eq(h)
  <2> HIDE DEF Eq
  <2> QED
    BY <1>6
<1>8. /\ h = [s \in SUBSET S |-> h[s]]
      /\ h[{}] = 0
      /\ \A s \in SUBSET S : s # {} => h[s] = f[c[s]] + h[s \ {c[s]}]
  <2> HIDE DEF h
  <2> QED
    BY <1>7
<1> HIDE DEF h, c, G, Eq
<1>9. h \in [SUBSET S -> Int]
  <2> DEFINE P == {s \in SUBSET S : h[s] \in Int}
  <2>1. {} \in P
    BY <1>8
  <2>2. ASSUME NEW s \in SUBSET S, s # {}, \A a \in s : s \ {a} \in P
        PROVE  s \in P
    <3>1. c[s] \in s
      BY <1>2, <2>2 DEF Picks
    <3>2. f[c[s]] \in Int /\ h[s \ {c[s]}] \in Int
      BY <2>2, <3>1
    <3>3. h[s] = f[c[s]] + h[s \ {c[s]}]
      BY <1>8, <2>2
    <3>4. h[s] \in Int
      BY <3>2, <3>3
    <3> QED
      BY <3>4
  <2>3. SUBSET S \subseteq P
    <3> HIDE DEF P
    <3> QED
      BY <2>1, <2>2, SubsetInduction
  <2> QED
    BY <1>8, <2>3
<1>10. Sums(h, f, S)
  BY <1>2, <1>8, <1>9, AnyOrder
<1> QED
  BY <1>1, <1>10 DEF h

\* A sum of integers is an integer.
LEMMA SumType ==
    ASSUME NEW S, IsFiniteSet(S), NEW f \in [S -> Int]
    PROVE  SumFunction(f) \in Int
<1>1. PICK g : Sums(g, f, S) /\ SumFunction(f) = g[S]
  BY SumIsSum
<1> QED
  BY <1>1 DEF Sums

\* Two functions that agree on a set have the same sum over it.
LEMMA SumsAgree ==
    ASSUME NEW S, IsFiniteSet(S), NEW T, IsFiniteSet(T),
           NEW f \in [S -> Int], NEW g, Sums(g, f, S),
           NEW e \in [T -> Int], NEW h, Sums(h, e, T),
           NEW U \in SUBSET (S \cap T), \A x \in U : f[x] = e[x]
    PROVE  g[U] = h[U]
<1> DEFINE P == {s \in SUBSET U : g[s] = h[s]}
<1>1. {} \in P
  BY DEF Sums
<1>2. ASSUME NEW s \in SUBSET U, s # {}, \A a \in s : s \ {a} \in P
      PROVE  s \in P
  <2>1. PICK a \in s : TRUE
    BY <1>2
  <2>2. s \in SUBSET S /\ s \in SUBSET T
    OBVIOUS
  <2>3. g[s] = f[a] + g[s \ {a}] /\ h[s] = e[a] + h[s \ {a}]
    BY <2>2 DEF Sums
  <2> QED
    BY <1>2, <2>3
<1>3. IsFiniteSet(U)
  BY FS_Subset
<1>4. SUBSET U \subseteq P
  <2> HIDE DEF P
  <2> QED
    BY <1>1, <1>2, <1>3, SubsetInduction
<1> QED
  BY <1>4

\* Changing one value changes the sum by the difference.
LEMMA SumUpdate ==
    ASSUME NEW S, IsFiniteSet(S), NEW f \in [S -> Int], NEW a \in S, NEW v \in Int
    PROVE  /\ SumFunction(f) \in Int
           /\ SumFunction([f EXCEPT ![a] = v]) = SumFunction(f) - f[a] + v
<1> DEFINE e == [f EXCEPT ![a] = v]
<1>1. PICK g : Sums(g, f, S) /\ SumFunction(f) = g[S]
  BY SumIsSum
<1>2. e \in [S -> Int] /\ e[a] = v /\ \A x \in S \ {a} : e[x] = f[x]
  OBVIOUS
<1> HIDE DEF e
<1>3. PICK h : Sums(h, e, S) /\ SumFunction(e) = h[S]
  BY <1>2, SumIsSum
<1>4. g[S \ {a}] = h[S \ {a}]
  <2>1. S \ {a} \in SUBSET (S \cap S) /\ \A x \in S \ {a} : f[x] = e[x]
    BY <1>2
  <2> QED
    BY <1>1, <1>2, <1>3, <2>1, SumsAgree
<1>5. /\ g[S] = f[a] + g[S \ {a}] /\ h[S] = v + h[S \ {a}]
      /\ g[S] \in Int /\ g[S \ {a}] \in Int /\ f[a] \in Int
  BY <1>1, <1>2, <1>3 DEF Sums
<1>6. h[S] = g[S] - f[a] + v
  BY <1>4, <1>5
<1> QED
  BY <1>1, <1>3, <1>5, <1>6 DEF e

\* Appending to a sequence adds to its sum.
LEMMA SumAppend ==
    ASSUME NEW q \in Seq(Int), NEW v \in Int
    PROVE  SumFunction(Append(q, v)) = SumFunction(q) + v
<1> DEFINE n == Len(q)
           e == Append(q, v)
<1>1. /\ q \in [1..n -> Int] /\ n \in Nat
      /\ e \in [1..(n + 1) -> Int] /\ e[n + 1] = v
      /\ \A i \in 1..n : e[i] = q[i]
  <2>1. e \in Seq(Int) /\ Len(e) = n + 1 /\ n \in Nat
    OBVIOUS
  <2>2. q \in [1..n -> Int] /\ e \in [1..(n + 1) -> Int]
    <3>1. \A w \in Seq(Int) : w \in [1..Len(w) -> Int]
      OBVIOUS
    <3> HIDE DEF e
    <3> QED
      BY <2>1, <3>1
  <2>3. e[n + 1] = v /\ \A i \in 1..n : e[i] = q[i]
    OBVIOUS
  <2> QED
    BY <2>1, <2>2, <2>3
<1>2. IsFiniteSet(1..n) /\ IsFiniteSet(1..(n + 1))
  BY <1>1, FS_Interval
<1> HIDE DEF e, n
<1>3. PICK g : Sums(g, q, 1..n) /\ SumFunction(q) = g[1..n]
  BY <1>1, <1>2, SumIsSum
<1>4. PICK h : Sums(h, e, 1..(n + 1)) /\ SumFunction(e) = h[1..(n + 1)]
  BY <1>1, <1>2, SumIsSum
<1>5. g[1..n] = h[1..n]
  <2>1. 1..n \in SUBSET ((1..n) \cap (1..(n + 1)))
    BY <1>1
  <2> QED
    BY <1>1, <1>2, <1>3, <1>4, <2>1, SumsAgree
<1>6. (1..(n + 1)) \ {n + 1} = 1..n /\ n + 1 \in 1..(n + 1)
  BY <1>1
<1> DEFINE all == 1..(n + 1)
<1>7. \A a \in all : h[all] = e[a] + h[all \ {a}]
  BY <1>4 DEF Sums
<1>8. h[all] = v + h[1..n]
  BY <1>1, <1>6, <1>7
<1>9. g[1..n] \in Int
  BY <1>3 DEF Sums
<1> QED
  BY <1>3, <1>4, <1>5, <1>8, <1>9 DEF e

\* The sum of the empty sequence.
LEMMA SumEmpty == SumFunction(<<>>) = 0
<1>1. IsFiniteSet({}) /\ <<>> \in [{} -> Int]
  BY FS_EmptySet
<1>2. PICK g : Sums(g, <<>>, {}) /\ SumFunction(<<>>) = g[{}]
  BY <1>1, SumIsSum
<1> QED
  BY <1>2 DEF Sums

\* A constant zero function sums to zero.
LEMMA SumZero ==
    ASSUME NEW S, IsFiniteSet(S)
    PROVE  SumFunction([x \in S |-> 0]) = 0
<1> DEFINE f == [x \in S |-> 0]
<1>1. f \in [S -> Int] /\ \A x \in S : f[x] = 0
  OBVIOUS
<1> HIDE DEF f
<1>2. PICK g : Sums(g, f, S) /\ SumFunction(f) = g[S]
  BY <1>1, SumIsSum
<1> DEFINE P == {s \in SUBSET S : g[s] = 0}
<1>3. {} \in P
  BY <1>2 DEF Sums
<1>4. ASSUME NEW s \in SUBSET S, s # {}, \A a \in s : s \ {a} \in P
      PROVE  s \in P
  <2>1. PICK a \in s : TRUE
    BY <1>4
  <2>2. g[s] = f[a] + g[s \ {a}] /\ f[a] = 0 /\ g[s \ {a}] = 0
    BY <1>1, <1>2, <1>4 DEF Sums
  <2> QED
    BY <2>2
<1>5. SUBSET S \subseteq P
  <2> HIDE DEF P
  <2> QED
    BY <1>3, <1>4, SubsetInduction
<1> QED
  BY <1>2, <1>5 DEF f

\* None of the natural numbers of a sum, nor two of them, exceed it.
LEMMA SumBounds ==
    ASSUME NEW S, IsFiniteSet(S), NEW f \in [S -> Nat], NEW a \in S
    PROVE  /\ f[a] <= SumFunction(f)
           /\ \A b \in S \ {a} : f[a] + f[b] <= SumFunction(f)
<1>1. f \in [S -> Int]
  OBVIOUS
<1>2. PICK g : Sums(g, f, S) /\ SumFunction(f) = g[S]
  BY <1>1, SumIsSum
<1> DEFINE P == {s \in SUBSET S : g[s] \in Nat}
<1>3. {} \in P
  BY <1>2 DEF Sums
<1>4. ASSUME NEW s \in SUBSET S, s # {}, \A x \in s : s \ {x} \in P
      PROVE  s \in P
  <2>1. PICK x \in s : TRUE
    BY <1>4
  <2>2. g[s] = f[x] + g[s \ {x}] /\ f[x] \in Nat /\ g[s \ {x}] \in Nat
    BY <1>2, <1>4 DEF Sums
  <2> QED
    BY <2>2
<1>5. SUBSET S \subseteq P
  <2> HIDE DEF P
  <2> QED
    BY <1>3, <1>4, SubsetInduction
<1>6. g[S] = f[a] + g[S \ {a}] /\ g[S \ {a}] \in Nat /\ f[a] \in Nat
  BY <1>2, <1>5 DEF Sums
<1>7. ASSUME NEW b \in S \ {a} PROVE f[a] + f[b] <= g[S]
  <2>1. /\ g[S \ {a}] = f[b] + g[(S \ {a}) \ {b}]
        /\ g[(S \ {a}) \ {b}] \in Nat /\ f[b] \in Nat
    BY <1>2, <1>5 DEF Sums
  <2> HIDE DEF P
  <2> QED
    BY <1>6, <2>1
<1>8. f[a] <= g[S]
  <2> HIDE DEF P
  <2> QED
    BY <1>6
<1> QED
  BY <1>2, <1>7, <1>8

-----------------------------------------------------------------------------
(* Operators of LedgerState: types. *)

\* A 95/5 split yields two natural numbers.
LEMMA SplitType ==
    ASSUME NEW x \in Nat
    PROVE  apply_dev_tax_split(x) \in [miner : Nat, dev : Nat]
<1>1. x * DEV_TAX_PERCENTAGE \in Nat /\ x * DEV_TAX_PERCENTAGE <= x * 100
  BY EconomyAssumption
<1>2. (x * DEV_TAX_PERCENTAGE) \div 100 \in 0..x
  BY <1>1, EconomyAssumption
<1> QED
  BY <1>2 DEF apply_dev_tax_split

\* A power of two: the number of subsets of an interval.
LEMMA PowerOfTwo ==
    ASSUME NEW n \in Nat
    PROVE  2^n \in Nat \ {0}
<1> DEFINE S == 1..n
<1>1. IsFiniteSet(S) /\ Cardinality(S) = n
  BY FS_Interval
<1>2. IsFiniteSet(SUBSET S) /\ Cardinality(SUBSET S) = 2^n
  BY <1>1, FS_SUBSET
<1>3. SUBSET S # {}
  OBVIOUS
<1> HIDE DEF S
<1> QED
  BY <1>2, <1>3, FS_EmptySet, FS_CardinalityType

\* A shifted u64 is a natural number, and so are its two parts.
LEMMA SubsidyType ==
    ASSUME NEW h \in Nat
    PROVE  calculate_subsidy_split(h) \in [miner : Nat, dev : Nat]
<1> DEFINE era == h \div BLOCKS_PER_ERA
           total == IF era >= 64 THEN 0 ELSE INITIAL_BLOCK_REWARD \div 2^era
<1>1. era \in Nat
  BY EconomyAssumption
<1>2. 2^era \in Nat \ {0}
  BY <1>1, PowerOfTwo
<1>3. \A p \in Nat \ {0} : INITIAL_BLOCK_REWARD \div p \in Nat
  BY EconomyAssumption
<1>4. total \in Nat
  BY <1>2, <1>3
<1>5. calculate_subsidy_split(h) = apply_dev_tax_split(total)
  BY DEF calculate_subsidy_split
<1> HIDE DEF total
<1> QED
  BY <1>4, <1>5, SplitType

\* The two distributed shares of the fee are natural numbers.
LEMMA FeeType ==
    fee_distribution.miner \in Nat /\ fee_distribution.dev \in Nat
<1>1. burn_share \in 0..TRANSACTION_FEE
  BY EconomyAssumption DEF burn_share
<1>2. TRANSACTION_FEE - burn_share \in Nat
  BY <1>1, EconomyAssumption
<1>3. fee_distribution \in [miner : Nat, dev : Nat]
  BY <1>2, SplitType DEF fee_distribution
<1> QED
  BY <1>3

\* A credit that passes checked_add keeps the balances within a u64.
LEMMA CreditType ==
    ASSUME NEW b \in [Addr -> 0..MAX_U64], NEW a \in Addr, NEW x \in Nat,
           CanCredit(b, a, x)
    PROVE  Credit(b, a, x) \in [Addr -> 0..MAX_U64]
<1>1. b[a] + x \in 0..MAX_U64
  BY EconomyAssumption DEF CanCredit
<1> QED
  BY <1>1 DEF Credit

\* The fields of a transaction.
LEMMA TxType ==
    ASSUME NEW tx \in Txs
    PROVE  /\ tx.sender \in Addr
           /\ tx.recipient \in Addr
           /\ tx.amount \in Nat
           /\ tx.nonce \in Nat
  BY TxAssumption

\* The sender's debit keeps the balances within a u64 once it is payable.
LEMMA DebitType ==
    ASSUME NEW s \in Ledgers, NEW tx \in Txs, Payable(s, tx)
    PROVE  AfterDebit(s.balances, tx) \in [Addr -> 0..MAX_U64]
<1> DEFINE cost == tx.amount + TRANSACTION_FEE
<1>1. s.balances \in [Addr -> 0..MAX_U64]
  BY DEF Ledgers
<1>2. cost \in Nat /\ tx.sender \in Addr
  BY TxType, EconomyAssumption
<1>3. cost <= s.balances[tx.sender]
  BY DEF Payable
<1>4. s.balances[tx.sender] - cost \in 0..MAX_U64
  BY <1>1, <1>2, <1>3, EconomyAssumption
<1> QED
  BY <1>1, <1>2, <1>4 DEF AfterDebit

\* After Ok the scratch ledger is well typed.
LEMMA AppliedType ==
    ASSUME NEW s \in Ledgers, NEW tx \in Txs, NEW m \in Addr,
           TxApplies(s, tx, m)
    PROVE  TxApplied(s, tx, m) \in Ledgers
<1>1. AfterDebit(s.balances, tx) \in [Addr -> 0..MAX_U64]
  BY DebitType DEF TxApplies
<1>2. AfterRecipient(s.balances, tx) \in [Addr -> 0..MAX_U64]
  BY <1>1, CreditType, TxType DEF TxApplies, RecipientFits, AfterRecipient
<1>3. AfterMinerFee(s.balances, tx, m) \in [Addr -> 0..MAX_U64]
  BY <1>2, CreditType, FeeType DEF TxApplies, MinerFeeFits, AfterMinerFee
<1>4. AfterDevFee(s.balances, tx, m) \in [Addr -> 0..MAX_U64]
  BY <1>3, CreditType, FeeType, AddrAssumption DEF TxApplies, DevFeeFits, AfterDevFee
<1>5. [s.next_nonces EXCEPT ![tx.sender] = @ + 1] \in [Addr -> Nat]
  BY TxType DEF Ledgers
<1>6. s.confirmed \cup {tx} \in SUBSET Txs
  BY DEF Ledgers
<1> QED
  BY <1>4, <1>5, <1>6 DEF TxApplied, Ledgers

\* After Err the scratch ledger is well typed, wherever the failure was.
LEMMA FailedType ==
    ASSUME NEW s \in Ledgers, NEW tx \in Txs, NEW m \in Addr
    PROVE  TxFailed(s, tx, m) \in Ledgers
<1> DEFINE Bal == [Addr -> 0..MAX_U64]
           b == IF ~Payable(s, tx) THEN s.balances
                ELSE IF ~RecipientFits(s, tx) THEN AfterDebit(s.balances, tx)
                ELSE IF ~MinerFeeFits(s, tx, m) THEN AfterRecipient(s.balances, tx)
                ELSE AfterMinerFee(s.balances, tx, m)
<1>1. s.balances \in Bal /\ s.next_nonces \in [Addr -> Nat]
      /\ s.confirmed \cup {tx} \in SUBSET Txs
  BY DEF Ledgers
<1>2. Payable(s, tx) => AfterDebit(s.balances, tx) \in Bal
  BY DebitType
<1>3. Payable(s, tx) /\ RecipientFits(s, tx) => AfterRecipient(s.balances, tx) \in Bal
  BY <1>2, CreditType, TxType DEF RecipientFits, AfterRecipient
<1>4. Payable(s, tx) /\ RecipientFits(s, tx) /\ MinerFeeFits(s, tx, m)
         => AfterMinerFee(s.balances, tx, m) \in Bal
  BY <1>3, CreditType, FeeType DEF MinerFeeFits, AfterMinerFee
<1>5. b \in Bal
  BY <1>1, <1>2, <1>3, <1>4
<1>6. TxFailed(s, tx, m) = [s EXCEPT !.confirmed = s.confirmed \cup {tx}, !.balances = b]
  BY DEF TxFailed
<1> HIDE DEF b
<1> QED
  BY <1>1, <1>5, <1>6 DEF Ledgers

\* Appending to a sequence over S an element of S.
LEMMA AppendType ==
    ASSUME NEW S, NEW q \in Seq(S), NEW e \in S
    PROVE  Append(q, e) \in Seq(S)
  OBVIOUS

\* The default ledger is a ledger.
LEMMA DefaultType == DefaultLedger \in Ledgers
  BY EconomyAssumption DEF DefaultLedger, Ledgers

\* The coinbase that passes checked_add keeps the ledger well typed.
LEMMA CoinbaseType ==
    ASSUME NEW s \in Ledgers, NEW b, CoinbaseFits(s, b),
           b.miner \in Addr, b.coinbase.miner \in Nat, b.coinbase.dev \in Nat
    PROVE  CoinbaseApplied(s, b) \in Ledgers
<1>1. s.balances \in [Addr -> 0..MAX_U64]
  BY DEF Ledgers
<1>2. b.miner \in Addr /\ b.coinbase.miner \in Nat /\ b.coinbase.dev \in Nat
  OBVIOUS
<1>3. AfterMinerReward(s.balances, b) \in [Addr -> 0..MAX_U64]
  BY <1>1, <1>2, CreditType DEF CoinbaseFits, AfterMinerReward
<1>4. Credit(AfterMinerReward(s.balances, b), DEV_TREASURY_ADDRESS, b.coinbase.dev)
        \in [Addr -> 0..MAX_U64]
  BY <1>2, <1>3, CreditType, AddrAssumption DEF CoinbaseFits
<1> QED
  BY <1>4 DEF CoinbaseApplied, Ledgers

-----------------------------------------------------------------------------
(* The loops as values: FoldLeft, iteration by iteration. *)

Results == [ok : BOOLEAN, ledger : Ledgers]
Selections == [accepted : Seq(Txs), ledger : Ledgers]

\* The loops of ApplyTxs and select_affordable from any point on.
ApplyFrom(acc, txs, m) == FoldLeft(LAMBDA a, tx : ApplyOne(a, tx, m), acc, txs)
SelectFrom(acc, txs, m) == FoldLeft(LAMBDA a, tx : SelectOne(a, tx, m), acc, txs)

\* r holds the results of such a loop after 0, 1, ... iterations.
IsApplyRun(r, acc, txs, m) ==
    /\ r \in [0..Len(txs) -> Results]
    /\ r[0] = acc
    /\ \A k \in 1..Len(txs) : r[k] = ApplyOne(r[k - 1], txs[k], m)
    /\ ApplyFrom(acc, txs, m) = r[Len(txs)]
IsSelectRun(r, acc, txs, m) ==
    /\ r \in [0..Len(txs) -> Selections]
    /\ r[0] = acc
    /\ \A k \in 1..Len(txs) : r[k] = SelectOne(r[k - 1], txs[k], m)
    /\ SelectFrom(acc, txs, m) = r[Len(txs)]

\* One iteration of the loop of apply_block yields a result.
LEMMA ApplyOneType ==
    ASSUME NEW acc \in Results, NEW tx \in Txs, NEW m \in Addr
    PROVE  ApplyOne(acc, tx, m) \in Results
<1>1. acc.ledger \in Ledgers /\ acc.ok \in BOOLEAN
  BY DEF Results
<1>2. CASE acc.ok /\ TxApplies(acc.ledger, tx, m)
  <2>1. TxApplied(acc.ledger, tx, m) \in Ledgers
    BY <1>1, <1>2, AppliedType
  <2>2. ApplyOne(acc, tx, m) = [acc EXCEPT !.ledger = TxApplied(acc.ledger, tx, m)]
    BY <1>2 DEF ApplyOne
  <2> QED
    BY <2>1, <2>2 DEF Results
<1>3. CASE ~(acc.ok /\ TxApplies(acc.ledger, tx, m))
  <2>1. ApplyOne(acc, tx, m) = [acc EXCEPT !.ok = FALSE]
    BY <1>3 DEF ApplyOne
  <2> QED
    BY <2>1 DEF Results
<1> QED
  BY <1>2, <1>3

\* One iteration of the loop of select_affordable yields a selection.
LEMMA SelectOneType ==
    ASSUME NEW acc \in Selections, NEW tx \in Txs, NEW m \in Addr
    PROVE  SelectOne(acc, tx, m) \in Selections
<1>1. acc.ledger \in Ledgers /\ acc.accepted \in Seq(Txs)
  BY DEF Selections
<1>2. CASE TxApplies(acc.ledger, tx, m)
  <2>1. TxApplied(acc.ledger, tx, m) \in Ledgers /\ Append(acc.accepted, tx) \in Seq(Txs)
    BY <1>1, <1>2, AppliedType, AppendType
  <2>2. SelectOne(acc, tx, m) = [accepted |-> Append(acc.accepted, tx),
                                 ledger   |-> TxApplied(acc.ledger, tx, m)]
    BY <1>2 DEF SelectOne
  <2> QED
    BY <2>1, <2>2 DEF Selections
<1>3. CASE ~TxApplies(acc.ledger, tx, m)
  <2>1. SelectOne(acc, tx, m) = [acc EXCEPT !.ledger = TxFailed(acc.ledger, tx, m)]
    BY <1>3 DEF SelectOne
  <2>2. TxFailed(acc.ledger, tx, m) \in Ledgers
    BY <1>1, FailedType
  <2> QED
    BY <2>1, <2>2 DEF Selections
<1> QED
  BY <1>2, <1>3

\* The loop of apply_block has a run.
LEMMA ApplyRun ==
    ASSUME NEW acc \in Results, NEW txs \in Seq(Txs), NEW m \in Addr
    PROVE  \E r : IsApplyRun(r, acc, txs, m)
<1> DEFINE n == Len(txs)
           S == 1..n
           Eq(g) == g = [u \in SUBSET S |->
                            IF u = {} THEN acc
                            ELSE ApplyOne(g[u \ {Max(u)}], txs[Max(u)], m)]
           c == [u \in SUBSET S |-> Max(u)]
           G == [p \in S \X Results |-> ApplyOne(p[2], txs[p[1]], m)]
<1>1. n \in Nat /\ DOMAIN txs = S /\ IsFiniteSet(S) /\ \A i \in S : txs[i] \in Txs
  BY FS_Interval
<1>2. ApplyFrom(acc, txs, m) = (CHOOSE it : Eq(it))[S]
  BY <1>1 DEF ApplyFrom, FoldLeft, MapThenFoldSet
<1> HIDE DEF n
<1>3. Picks(c, S)
  BY <1>1, MaxInSet DEF Picks
<1>4. G \in [S \X Results -> Results]
  <2> SUFFICES ASSUME NEW p \in S \X Results PROVE ApplyOne(p[2], txs[p[1]], m) \in Results
    OBVIOUS
  <2>1. p[1] \in S /\ p[2] \in Results
    OBVIOUS
  <2> QED
    BY <1>1, <2>1, ApplyOneType
<1>5. PICK g \in [SUBSET S -> Results] : Solution(g, S, acc, c, G)
  <2> HIDE DEF c, G, S
  <2> QED
    BY <1>1, <1>3, <1>4, FoldExists
<1>6. ASSUME NEW u \in SUBSET S, u # {}
      PROVE  g[u] = ApplyOne(g[u \ {Max(u)}], txs[Max(u)], m)
  <2>1. Max(u) \in S /\ c[u] = Max(u) /\ g[u \ {Max(u)}] \in Results
    BY <1>1, <1>6, MaxInSet
  <2>2. g[u] = G[<<Max(u), g[u \ {Max(u)}]>>]
    BY <1>5, <1>6, <2>1 DEF Solution
  <2>3. <<Max(u), g[u \ {Max(u)}]>> \in S \X Results
    BY <2>1
  <2> QED
    BY <2>2, <2>3
<1>7. g[{}] = acc
  BY <1>5 DEF Solution
<1>8. Eq(g)
  BY <1>6, <1>7
<1> DEFINE h == CHOOSE it : Eq(it)
<1>9. Eq(h)
  <2> HIDE DEF Eq
  <2> QED
    BY <1>8
<1>10. /\ h[{}] = acc
       /\ \A u \in SUBSET S : u # {} => h[u] = ApplyOne(h[u \ {Max(u)}], txs[Max(u)], m)
  <2> HIDE DEF h
  <2> QED
    BY <1>9
<1> HIDE DEF h, Eq, c, G
<1> DEFINE r == [k \in 0..n |-> h[1..k]]
<1>11. r[0] = acc
  <2>1. 1..0 = {} /\ 0 \in 0..n
    BY <1>1
  <2> QED
    BY <1>10, <2>1
<1>12. ASSUME NEW k \in 1..n PROVE r[k] = ApplyOne(r[k - 1], txs[k], m)
  <2>1. /\ k \in Nat \ {0} /\ k \in 0..n /\ k - 1 \in 0..n
        /\ 1..k \in SUBSET S /\ 1..k # {} /\ (1..k) \ {k} = 1..(k - 1)
    BY <1>1, Prefix
  <2>2. Max(1..k) = k
    BY <2>1, MaxOfPrefix
  <2>3. h[1..k] = ApplyOne(h[1..(k - 1)], txs[k], m)
    BY <1>10, <2>1, <2>2
  <2> QED
    BY <2>1, <2>3
<1>13. r[n] = ApplyFrom(acc, txs, m)
  BY <1>1, <1>2 DEF h
<1> DEFINE Q == {k \in Nat : k <= n => r[k] \in Results}
<1>14. r \in [0..n -> Results]
  <2> HIDE DEF r
  <2>1. 0 \in Q
    BY <1>11
  <2>2. ASSUME NEW k \in Nat, k \in Q PROVE k + 1 \in Q
    <3> SUFFICES ASSUME k + 1 <= n PROVE r[k + 1] \in Results
      OBVIOUS
    <3>1. k + 1 \in 1..n /\ (k + 1) - 1 = k /\ r[k] \in Results
      BY <1>1, <2>2
    <3>2. r[k + 1] = ApplyOne(r[k], txs[k + 1], m)
      BY <1>12, <3>1
    <3> QED
      BY <1>1, <3>1, <3>2, ApplyOneType
  <2>3. Nat \subseteq Q
    <3> HIDE DEF Q
    <3> QED
      BY <2>1, <2>2, NatSetInduction
  <2>4. \A k \in 0..n : r[k] \in Results
    BY <1>1, <2>3
  <2> QED
    BY <2>4 DEF r
<1> HIDE DEF r
<1> QED
  BY <1>11, <1>12, <1>13, <1>14 DEF n, IsApplyRun

\* So has the loop of select_affordable.
LEMMA SelectRun ==
    ASSUME NEW acc \in Selections, NEW txs \in Seq(Txs), NEW m \in Addr
    PROVE  \E r : IsSelectRun(r, acc, txs, m)
<1> DEFINE n == Len(txs)
           S == 1..n
           Eq(g) == g = [u \in SUBSET S |->
                            IF u = {} THEN acc
                            ELSE SelectOne(g[u \ {Max(u)}], txs[Max(u)], m)]
           c == [u \in SUBSET S |-> Max(u)]
           G == [p \in S \X Selections |-> SelectOne(p[2], txs[p[1]], m)]
<1>1. n \in Nat /\ DOMAIN txs = S /\ IsFiniteSet(S) /\ \A i \in S : txs[i] \in Txs
  BY FS_Interval
<1>2. SelectFrom(acc, txs, m) = (CHOOSE it : Eq(it))[S]
  BY <1>1 DEF SelectFrom, FoldLeft, MapThenFoldSet
<1> HIDE DEF n
<1>3. Picks(c, S)
  BY <1>1, MaxInSet DEF Picks
<1>4. G \in [S \X Selections -> Selections]
  <2> SUFFICES ASSUME NEW p \in S \X Selections PROVE SelectOne(p[2], txs[p[1]], m) \in Selections
    OBVIOUS
  <2>1. p[1] \in S /\ p[2] \in Selections
    OBVIOUS
  <2> QED
    BY <1>1, <2>1, SelectOneType
<1>5. PICK g \in [SUBSET S -> Selections] : Solution(g, S, acc, c, G)
  <2> HIDE DEF c, G, S
  <2> QED
    BY <1>1, <1>3, <1>4, FoldExists
<1>6. ASSUME NEW u \in SUBSET S, u # {}
      PROVE  g[u] = SelectOne(g[u \ {Max(u)}], txs[Max(u)], m)
  <2>1. Max(u) \in S /\ c[u] = Max(u) /\ g[u \ {Max(u)}] \in Selections
    BY <1>1, <1>6, MaxInSet
  <2>2. g[u] = G[<<Max(u), g[u \ {Max(u)}]>>]
    BY <1>5, <1>6, <2>1 DEF Solution
  <2>3. <<Max(u), g[u \ {Max(u)}]>> \in S \X Selections
    BY <2>1
  <2> QED
    BY <2>2, <2>3
<1>7. g[{}] = acc
  BY <1>5 DEF Solution
<1>8. Eq(g)
  BY <1>6, <1>7
<1> DEFINE h == CHOOSE it : Eq(it)
<1>9. Eq(h)
  <2> HIDE DEF Eq
  <2> QED
    BY <1>8
<1>10. /\ h[{}] = acc
       /\ \A u \in SUBSET S : u # {} => h[u] = SelectOne(h[u \ {Max(u)}], txs[Max(u)], m)
  <2> HIDE DEF h
  <2> QED
    BY <1>9
<1> HIDE DEF h, Eq, c, G
<1> DEFINE r == [k \in 0..n |-> h[1..k]]
<1>11. r[0] = acc
  <2>1. 1..0 = {} /\ 0 \in 0..n
    BY <1>1
  <2> QED
    BY <1>10, <2>1
<1>12. ASSUME NEW k \in 1..n PROVE r[k] = SelectOne(r[k - 1], txs[k], m)
  <2>1. /\ k \in Nat \ {0} /\ k \in 0..n /\ k - 1 \in 0..n
        /\ 1..k \in SUBSET S /\ 1..k # {} /\ (1..k) \ {k} = 1..(k - 1)
    BY <1>1, Prefix
  <2>2. Max(1..k) = k
    BY <2>1, MaxOfPrefix
  <2>3. h[1..k] = SelectOne(h[1..(k - 1)], txs[k], m)
    BY <1>10, <2>1, <2>2
  <2> QED
    BY <2>1, <2>3
<1>13. r[n] = SelectFrom(acc, txs, m)
  BY <1>1, <1>2 DEF h
<1> DEFINE Q == {k \in Nat : k <= n => r[k] \in Selections}
<1>14. r \in [0..n -> Selections]
  <2> HIDE DEF r
  <2>1. 0 \in Q
    BY <1>11
  <2>2. ASSUME NEW k \in Nat, k \in Q PROVE k + 1 \in Q
    <3> SUFFICES ASSUME k + 1 <= n PROVE r[k + 1] \in Selections
      OBVIOUS
    <3>1. k + 1 \in 1..n /\ (k + 1) - 1 = k /\ r[k] \in Selections
      BY <1>1, <2>2
    <3>2. r[k + 1] = SelectOne(r[k], txs[k + 1], m)
      BY <1>12, <3>1
    <3> QED
      BY <1>1, <3>1, <3>2, SelectOneType
  <2>3. Nat \subseteq Q
    <3> HIDE DEF Q
    <3> QED
      BY <2>1, <2>2, NatSetInduction
  <2>4. \A k \in 0..n : r[k] \in Selections
    BY <1>1, <2>3
  <2> QED
    BY <2>4 DEF r
<1> HIDE DEF r
<1> QED
  BY <1>11, <1>12, <1>13, <1>14 DEF n, IsSelectRun

\* The empty loop returns what it is given.
LEMMA ApplyNone ==
    ASSUME NEW acc \in Results, NEW m \in Addr
    PROVE  ApplyFrom(acc, <<>>, m) = acc
<1>1. <<>> \in Seq(Txs) /\ Len(<<>>) = 0
  OBVIOUS
<1>2. PICK r : IsApplyRun(r, acc, <<>>, m)
  BY <1>1, ApplyRun
<1> QED
  BY <1>1, <1>2 DEF IsApplyRun

\* The loop returns what it returns for the rest after its first iteration.
LEMMA ApplyFront ==
    ASSUME NEW acc \in Results, NEW txs \in Seq(Txs), txs # <<>>, NEW m \in Addr
    PROVE  ApplyFrom(acc, txs, m) = ApplyFrom(ApplyOne(acc, Head(txs), m), Tail(txs), m)
<1> DEFINE n == Len(Tail(txs))
<1>1. /\ Tail(txs) \in Seq(Txs) /\ n \in Nat /\ Len(txs) = n + 1
      /\ Head(txs) = txs[1] /\ Head(txs) \in Txs
      /\ \A k \in 1..n : Tail(txs)[k] = txs[k + 1]
  OBVIOUS
<1>2. ApplyOne(acc, Head(txs), m) \in Results
  BY <1>1, ApplyOneType
<1>3. PICK r : /\ r[0] = acc
               /\ \A k \in 1..(n + 1) : r[k] = ApplyOne(r[k - 1], txs[k], m)
               /\ ApplyFrom(acc, txs, m) = r[n + 1]
  <2>1. PICK r : IsApplyRun(r, acc, txs, m)
    BY ApplyRun
  <2> QED
    BY <1>1, <2>1 DEF IsApplyRun
<1> HIDE DEF n
<1>4. PICK q : /\ q[0] = ApplyOne(acc, Head(txs), m)
               /\ \A k \in 1..n : q[k] = ApplyOne(q[k - 1], Tail(txs)[k], m)
               /\ ApplyFrom(ApplyOne(acc, Head(txs), m), Tail(txs), m) = q[n]
  <2>1. PICK q : IsApplyRun(q, ApplyOne(acc, Head(txs), m), Tail(txs), m)
    BY <1>1, <1>2, ApplyRun
  <2> QED
    BY <2>1 DEF IsApplyRun, n
<1> DEFINE w == [k \in 0..n |-> r[k + 1]]
<1>5. w[0] = q[0]
  <2>1. 1 \in 1..(n + 1) /\ 1 - 1 = 0 /\ 0 \in 0..n /\ 0 + 1 = 1
    BY <1>1
  <2>2. w[0] = r[1] /\ r[1] = ApplyOne(r[0], txs[1], m)
    BY <1>3, <2>1
  <2> HIDE DEF w
  <2> QED
    BY <1>1, <1>3, <1>4, <2>2
<1>6. ASSUME NEW k \in 1..n, w[k - 1] = q[k - 1] PROVE w[k] = q[k]
  <2>1. /\ k + 1 \in 1..(n + 1) /\ (k + 1) - 1 = k /\ (k - 1) + 1 = k
        /\ k \in 0..n /\ k - 1 \in 0..n
    BY <1>1
  <2>2. w[k] = ApplyOne(r[k], txs[k + 1], m) /\ w[k - 1] = r[k]
    BY <1>3, <2>1
  <2> HIDE DEF w
  <2> QED
    BY <1>1, <1>4, <1>6, <2>2
<1>7. w[n] = r[n + 1]
  BY <1>1
<1> HIDE DEF w
<1>8. w[n] = q[n]
  BY <1>1, <1>5, <1>6, RunsAgree
<1> QED
  BY <1>3, <1>4, <1>7, <1>8

\* The empty loop returns what it is given.
LEMMA SelectNone ==
    ASSUME NEW acc \in Selections, NEW m \in Addr
    PROVE  SelectFrom(acc, <<>>, m) = acc
<1>1. <<>> \in Seq(Txs) /\ Len(<<>>) = 0
  OBVIOUS
<1>2. PICK r : IsSelectRun(r, acc, <<>>, m)
  BY <1>1, SelectRun
<1> QED
  BY <1>1, <1>2 DEF IsSelectRun

\* The loop returns what it returns for the rest after its first iteration.
LEMMA SelectFront ==
    ASSUME NEW acc \in Selections, NEW txs \in Seq(Txs), txs # <<>>, NEW m \in Addr
    PROVE  SelectFrom(acc, txs, m) = SelectFrom(SelectOne(acc, Head(txs), m), Tail(txs), m)
<1> DEFINE n == Len(Tail(txs))
<1>1. /\ Tail(txs) \in Seq(Txs) /\ n \in Nat /\ Len(txs) = n + 1
      /\ Head(txs) = txs[1] /\ Head(txs) \in Txs
      /\ \A k \in 1..n : Tail(txs)[k] = txs[k + 1]
  OBVIOUS
<1>2. SelectOne(acc, Head(txs), m) \in Selections
  BY <1>1, SelectOneType
<1>3. PICK r : /\ r[0] = acc
               /\ \A k \in 1..(n + 1) : r[k] = SelectOne(r[k - 1], txs[k], m)
               /\ SelectFrom(acc, txs, m) = r[n + 1]
  <2>1. PICK r : IsSelectRun(r, acc, txs, m)
    BY SelectRun
  <2> QED
    BY <1>1, <2>1 DEF IsSelectRun
<1> HIDE DEF n
<1>4. PICK q : /\ q[0] = SelectOne(acc, Head(txs), m)
               /\ \A k \in 1..n : q[k] = SelectOne(q[k - 1], Tail(txs)[k], m)
               /\ SelectFrom(SelectOne(acc, Head(txs), m), Tail(txs), m) = q[n]
  <2>1. PICK q : IsSelectRun(q, SelectOne(acc, Head(txs), m), Tail(txs), m)
    BY <1>1, <1>2, SelectRun
  <2> QED
    BY <2>1 DEF IsSelectRun, n
<1> DEFINE w == [k \in 0..n |-> r[k + 1]]
<1>5. w[0] = q[0]
  <2>1. 1 \in 1..(n + 1) /\ 1 - 1 = 0 /\ 0 \in 0..n /\ 0 + 1 = 1
    BY <1>1
  <2>2. w[0] = r[1] /\ r[1] = SelectOne(r[0], txs[1], m)
    BY <1>3, <2>1
  <2> HIDE DEF w
  <2> QED
    BY <1>1, <1>3, <1>4, <2>2
<1>6. ASSUME NEW k \in 1..n, w[k - 1] = q[k - 1] PROVE w[k] = q[k]
  <2>1. /\ k + 1 \in 1..(n + 1) /\ (k + 1) - 1 = k /\ (k - 1) + 1 = k
        /\ k \in 0..n /\ k - 1 \in 0..n
    BY <1>1
  <2>2. w[k] = SelectOne(r[k], txs[k + 1], m) /\ w[k - 1] = r[k]
    BY <1>3, <2>1
  <2> HIDE DEF w
  <2> QED
    BY <1>1, <1>4, <1>6, <2>2
<1>7. w[n] = r[n + 1]
  BY <1>1
<1> HIDE DEF w
<1>8. w[n] = q[n]
  BY <1>1, <1>5, <1>6, RunsAgree
<1> QED
  BY <1>3, <1>4, <1>7, <1>8

\* After a transaction that fails, apply_block's loop changes nothing more.
LEMMA ApplyStuck ==
    ASSUME NEW acc \in Results, ~acc.ok, NEW txs \in Seq(Txs), NEW m \in Addr
    PROVE  ApplyFrom(acc, txs, m) = acc
<1> DEFINE n == Len(txs)
           q == [k \in 0..n |-> acc]
<1>1. PICK r : IsApplyRun(r, acc, txs, m)
  BY ApplyRun
<1>2. n \in Nat /\ 0 \in 0..n /\ r[0] = q[0] /\ q[n] = acc
  BY <1>1 DEF IsApplyRun
<1>3. \A tx : ApplyOne(acc, tx, m) = acc
  BY DEF ApplyOne, Results
<1>4. ASSUME NEW k \in 1..n, r[k - 1] = q[k - 1] PROVE r[k] = q[k]
  <2>1. k \in 0..n /\ k - 1 \in 0..n
    BY <1>2
  <2>2. r[k] = ApplyOne(acc, txs[k], m)
    BY <1>1, <1>4, <2>1 DEF IsApplyRun
  <2> QED
    BY <1>3, <2>1, <2>2
<1> HIDE DEF q
<1>5. r[n] = q[n]
  BY <1>2, <1>4, RunsAgree
<1> QED
  BY <1>1, <1>2, <1>5 DEF IsApplyRun

\* One more transaction is one more iteration at the end.
LEMMA ApplyLast ==
    ASSUME NEW acc \in Results, NEW txs \in Seq(Txs), NEW tx \in Txs, NEW m \in Addr
    PROVE  ApplyFrom(acc, Append(txs, tx), m) = ApplyOne(ApplyFrom(acc, txs, m), tx, m)
<1> DEFINE n == Len(txs)
           t == Append(txs, tx)
<1>1. /\ t \in Seq(Txs) /\ n \in Nat /\ Len(t) = n + 1 /\ t[n + 1] = tx
      /\ \A k \in 1..n : t[k] = txs[k]
  BY AppendType
<1> HIDE DEF t
<1>2. PICK r : IsApplyRun(r, acc, t, m)
  BY <1>1, ApplyRun
<1>3. PICK q : IsApplyRun(q, acc, txs, m)
  BY ApplyRun
<1> HIDE DEF n
<1>4. ASSUME NEW k \in 1..n, r[k - 1] = q[k - 1] PROVE r[k] = q[k]
  <2>1. k \in 1..(n + 1)
    BY <1>1
  <2>2. r[k] = ApplyOne(r[k - 1], t[k], m) /\ q[k] = ApplyOne(q[k - 1], txs[k], m)
    BY <1>1, <1>2, <1>3, <2>1 DEF IsApplyRun, n
  <2> QED
    BY <1>1, <1>4, <2>2
<1>5. r[0] = q[0]
  BY <1>2, <1>3 DEF IsApplyRun
<1>6. r[n] = q[n]
  BY <1>1, <1>4, <1>5, RunsAgree
<1>7. n + 1 \in 1..(n + 1) /\ (n + 1) - 1 = n
  BY <1>1
<1>8. r[n + 1] = ApplyOne(r[n], tx, m)
  BY <1>1, <1>2, <1>7 DEF IsApplyRun
<1> QED
  BY <1>1, <1>2, <1>3, <1>6, <1>8 DEF IsApplyRun, t, n

\* What was accepted before has no influence on what is accepted later.
LEMMA SelectShift ==
    ASSUME NEW acc \in Selections, NEW txs \in Seq(Txs), NEW m \in Addr
    PROVE  SelectFrom(acc, txs, m).accepted
             = acc.accepted \o select_affordable(acc.ledger, txs, m)
<1> DEFINE n == Len(txs)
           new == [accepted |-> <<>>, ledger |-> acc.ledger]
<1>1. n \in Nat /\ \A k \in 1..n : txs[k] \in Txs
  OBVIOUS
<1>2. new \in Selections /\ acc.accepted \in Seq(Txs)
  BY DEF Selections
<1>3. PICK r : IsSelectRun(r, acc, txs, m)
  BY SelectRun
<1>4. PICK q : IsSelectRun(q, new, txs, m)
  BY <1>2, SelectRun
<1> DEFINE With(a) == [accepted |-> acc.accepted \o a.accepted, ledger |-> a.ledger]
           w == [k \in 0..n |-> With(q[k])]
<1>5. r[0] = w[0]
  <2>1. q[0] = new /\ r[0] = acc /\ 0 \in 0..n
    BY <1>1, <1>3, <1>4 DEF IsSelectRun
  <2>2. With(new) = acc
    BY <1>2 DEF Selections
  <2> QED
    BY <2>1, <2>2
<1>6. ASSUME NEW a \in Selections, NEW tx \in Txs
      PROVE  SelectOne(With(a), tx, m) = With(SelectOne(a, tx, m))
  <2>1. a.accepted \in Seq(Txs)
    BY DEF Selections
  <2>2. acc.accepted \o Append(a.accepted, tx) = Append(acc.accepted \o a.accepted, tx)
    <3>1. \A p1, p2 \in Seq(Txs) : \A e \in Txs : p1 \o Append(p2, e) = Append(p1 \o p2, e)
      BY ConcatAppend
    <3>2. acc.accepted \in Seq(Txs) /\ a.accepted \in Seq(Txs)
      BY <1>2, <2>1
    <3> QED
      BY <3>1, <3>2, Zenon
  <2>3. CASE TxApplies(a.ledger, tx, m)
    BY <2>2, <2>3 DEF SelectOne
  <2>4. CASE ~TxApplies(a.ledger, tx, m)
    BY <2>4 DEF SelectOne, Selections
  <2> QED
    BY <2>3, <2>4
<1>7. ASSUME NEW k \in 1..n, r[k - 1] = w[k - 1] PROVE r[k] = w[k]
  <2>1. k \in 0..n /\ k - 1 \in 0..n
    BY <1>1
  <2>2. /\ r[k] = SelectOne(r[k - 1], txs[k], m)
        /\ q[k] = SelectOne(q[k - 1], txs[k], m)
        /\ q[k - 1] \in Selections
    BY <1>3, <1>4, <2>1 DEF IsSelectRun
  <2>3. w[k] = With(q[k]) /\ w[k - 1] = With(q[k - 1])
    BY <2>1
  <2> HIDE DEF With, w
  <2> QED
    BY <1>1, <1>6, <1>7, <2>2, <2>3
<1>8. w[n] = With(q[n])
  BY <1>1
<1> HIDE DEF w
<1>9. r[n] = w[n]
  BY <1>1, <1>5, <1>7, RunsAgree
<1>10. select_affordable(acc.ledger, txs, m) = q[n].accepted
  BY <1>4 DEF IsSelectRun, SelectFrom, select_affordable
<1>11. SelectFrom(acc, txs, m) = With(q[n])
  BY <1>3, <1>8, <1>9 DEF IsSelectRun
<1>12. With(q[n]).accepted = acc.accepted \o q[n].accepted
  OBVIOUS
<1> HIDE DEF With
<1> QED
  BY <1>10, <1>11, <1>12

\* apply_block's loop on a ledger: no transaction, one that applies, one that
\* does not.
LEMMA ApplyTxsNone ==
    ASSUME NEW s \in Ledgers, NEW m \in Addr
    PROVE  ApplyTxs(s, <<>>, m) = [ok |-> TRUE, ledger |-> s]
<1>1. [ok |-> TRUE, ledger |-> s] \in Results
  BY DEF Results
<1> QED
  BY <1>1, ApplyNone DEF ApplyTxs, ApplyFrom

\* The first transaction applies.
LEMMA ApplyTxsNext ==
    ASSUME NEW s \in Ledgers, NEW txs \in Seq(Txs), txs # <<>>, NEW m \in Addr,
           TxApplies(s, Head(txs), m)
    PROVE  ApplyTxs(s, txs, m) = ApplyTxs(TxApplied(s, Head(txs), m), Tail(txs), m)
<1> DEFINE acc == [ok |-> TRUE, ledger |-> s]
<1>1. acc \in Results
  BY DEF Results
<1>2. ApplyOne(acc, Head(txs), m) = [ok |-> TRUE, ledger |-> TxApplied(s, Head(txs), m)]
  BY DEF ApplyOne
<1>3. ApplyFrom(acc, txs, m) = ApplyFrom(ApplyOne(acc, Head(txs), m), Tail(txs), m)
  BY <1>1, ApplyFront
<1>4. ApplyTxs(s, txs, m) = ApplyFrom(acc, txs, m)
  BY DEF ApplyTxs, ApplyFrom
<1>5. ApplyTxs(TxApplied(s, Head(txs), m), Tail(txs), m)
        = ApplyFrom([ok |-> TRUE, ledger |-> TxApplied(s, Head(txs), m)], Tail(txs), m)
  BY DEF ApplyTxs, ApplyFrom
<1> QED
  BY <1>2, <1>3, <1>4, <1>5

\* The first transaction does not apply.
LEMMA ApplyTxsFails ==
    ASSUME NEW s \in Ledgers, NEW txs \in Seq(Txs), txs # <<>>, NEW m \in Addr,
           ~TxApplies(s, Head(txs), m)
    PROVE  ~ApplyTxs(s, txs, m).ok
<1> DEFINE acc == [ok |-> TRUE, ledger |-> s]
           bad == [ok |-> FALSE, ledger |-> s]
<1>1. acc \in Results /\ bad \in Results /\ Tail(txs) \in Seq(Txs)
  BY DEF Results
<1>2. ApplyOne(acc, Head(txs), m) = bad
  BY DEF ApplyOne
<1>3. ApplyTxs(s, txs, m) = ApplyFrom(bad, Tail(txs), m)
  BY <1>1, <1>2, ApplyFront DEF ApplyTxs, ApplyFrom
<1>4. ApplyFrom(bad, Tail(txs), m) = bad
  BY <1>1, ApplyStuck
<1> QED
  BY <1>3, <1>4

\* One more iteration of select_affordable: what it will have accepted in the
\* end is the same before and after it.
LEMMA SelectNext ==
    ASSUME NEW p \in Seq(Txs), NEW s \in Ledgers,
           NEW txs \in Seq(Txs), txs # <<>>, NEW m \in Addr
    PROVE  LET tx == Head(txs) IN
           p \o select_affordable(s, txs, m)
             = IF TxApplies(s, tx, m)
               THEN Append(p, tx) \o select_affordable(TxApplied(s, tx, m), Tail(txs), m)
               ELSE p \o select_affordable(TxFailed(s, tx, m), Tail(txs), m)
<1> DEFINE acc == [accepted |-> p, ledger |-> s]
           tx == Head(txs)
           nxt == SelectOne(acc, tx, m)
<1>1. acc \in Selections /\ tx \in Txs /\ Tail(txs) \in Seq(Txs)
  BY DEF Selections
<1>2. nxt \in Selections
  BY <1>1, SelectOneType
<1>3. SelectFrom(acc, txs, m) = SelectFrom(nxt, Tail(txs), m)
  BY <1>1, SelectFront
<1>4. SelectFrom(acc, txs, m).accepted = acc.accepted \o select_affordable(acc.ledger, txs, m)
  BY <1>1, SelectShift
<1> HIDE DEF nxt
<1>5. SelectFrom(nxt, Tail(txs), m).accepted
        = nxt.accepted \o select_affordable(nxt.ledger, Tail(txs), m)
  BY <1>1, <1>2, SelectShift
<1>6. acc.accepted = p /\ acc.ledger = s
  OBVIOUS
<1>7. CASE TxApplies(s, tx, m)
  <2>1. nxt.accepted = Append(p, tx) /\ nxt.ledger = TxApplied(s, tx, m)
    BY <1>7 DEF SelectOne, nxt
  <2> HIDE DEF acc, tx
  <2>2. p \o select_affordable(s, txs, m)
          = Append(p, tx) \o select_affordable(TxApplied(s, tx, m), Tail(txs), m)
    BY <1>3, <1>4, <1>5, <1>6, <2>1
  <2> QED
    BY <1>7, <2>2 DEF tx
<1>8. CASE ~TxApplies(s, tx, m)
  <2>1. nxt.accepted = p /\ nxt.ledger = TxFailed(s, tx, m)
    BY <1>8 DEF SelectOne, nxt
  <2> HIDE DEF acc, tx
  <2>2. p \o select_affordable(s, txs, m)
          = p \o select_affordable(TxFailed(s, tx, m), Tail(txs), m)
    BY <1>3, <1>4, <1>5, <1>6, <2>1
  <2> QED
    BY <1>8, <2>2 DEF tx
<1> QED
  BY <1>7, <1>8

-----------------------------------------------------------------------------
(* Operators of LedgerState: money. *)

\* The burned share and the two distributed shares make up the fee.
LEMMA FeeSum ==
    /\ burn_share \in Nat
    /\ fee_distribution.miner + fee_distribution.dev = TRANSACTION_FEE - burn_share
<1>1. burn_share \in Nat /\ TRANSACTION_FEE \in Nat
  BY EconomyAssumption DEF burn_share
<1> DEFINE x == TRANSACTION_FEE - burn_share
           d == (x * DEV_TAX_PERCENTAGE) \div 100
<1>2. fee_distribution.miner = x - d /\ fee_distribution.dev = d
  BY DEF fee_distribution, apply_dev_tax_split
<1>3. x \in Int /\ d \in Int
  BY <1>1, EconomyAssumption
<1> HIDE DEF x, d
<1>4. (x - d) + d = x
  BY <1>3
<1> QED
  BY <1>1, <1>2, <1>4 DEF x

\* A credit adds its amount to the sum of the balances.
LEMMA CreditSum ==
    ASSUME NEW b \in [Addr -> Int], NEW a \in Addr, NEW x \in Int
    PROVE  /\ Credit(b, a, x) \in [Addr -> Int]
           /\ SumFunction(b) \in Int
           /\ SumFunction(Credit(b, a, x)) = SumFunction(b) + x
<1> DEFINE v == b[a] + x
<1>1. Credit(b, a, x) = [b EXCEPT ![a] = v] /\ b[a] \in Int /\ v \in Int
  BY DEF Credit
<1>2. SumFunction([b EXCEPT ![a] = v]) = SumFunction(b) - b[a] + v
  <2>1. \A y \in Int : SumFunction([b EXCEPT ![a] = y]) = SumFunction(b) - b[a] + y
    BY SumUpdate, AddrAssumption
  <2> HIDE DEF v
  <2> QED
    BY <1>1, <2>1
<1>3. SumFunction(b) \in Int
  BY SumType, AddrAssumption
<1>4. SumFunction(b) - b[a] + (b[a] + x) = SumFunction(b) + x
  BY <1>1, <1>3
<1> QED
  BY <1>1, <1>2, <1>3, <1>4

\* The sums on the way of a transaction: the debit takes amount and fee, the
\* three credits bring back all but the burned share.
LEMMA TxSums ==
    ASSUME NEW b \in [Addr -> Int], NEW tx \in Txs, NEW m \in Addr
    PROVE  /\ SumFunction(b) \in Int
           /\ SumFunction(AfterDebit(b, tx)) = SumFunction(b) - (tx.amount + TRANSACTION_FEE)
           /\ SumFunction(AfterRecipient(b, tx)) = SumFunction(b) - TRANSACTION_FEE
           /\ SumFunction(AfterMinerFee(b, tx, m))
                = SumFunction(b) - TRANSACTION_FEE + fee_distribution.miner
           /\ SumFunction(AfterDevFee(b, tx, m)) = SumFunction(b) - burn_share
<1> DEFINE cost == tx.amount + TRANSACTION_FEE
<1>1. /\ tx.sender \in Addr /\ tx.recipient \in Addr /\ tx.amount \in Int
      /\ cost \in Int /\ TRANSACTION_FEE \in Int
      /\ DEV_TREASURY_ADDRESS \in Addr
  BY TxType, EconomyAssumption, AddrAssumption
<1>2. fee_distribution.miner \in Int /\ fee_distribution.dev \in Int
  BY FeeType
<1> DEFINE less == -cost
<1>3. AfterDebit(b, tx) = Credit(b, tx.sender, less)
  BY <1>1 DEF AfterDebit, Credit
<1>4. less \in Int
  BY <1>1
<1> HIDE DEF less
<1>5. /\ AfterDebit(b, tx) \in [Addr -> Int]
      /\ SumFunction(b) \in Int
      /\ SumFunction(AfterDebit(b, tx)) = SumFunction(b) + less
  <2>1. \A x \in Int : /\ Credit(b, tx.sender, x) \in [Addr -> Int]
                        /\ SumFunction(b) \in Int
                        /\ SumFunction(Credit(b, tx.sender, x)) = SumFunction(b) + x
    BY <1>1, CreditSum
  <2> QED
    BY <1>3, <1>4, <2>1
<1>6. /\ AfterRecipient(b, tx) \in [Addr -> Int]
      /\ SumFunction(AfterRecipient(b, tx)) = SumFunction(AfterDebit(b, tx)) + tx.amount
  BY <1>1, <1>5, CreditSum DEF AfterRecipient
<1>7. /\ AfterMinerFee(b, tx, m) \in [Addr -> Int]
      /\ SumFunction(AfterMinerFee(b, tx, m))
           = SumFunction(AfterRecipient(b, tx)) + fee_distribution.miner
  BY <1>2, <1>6, CreditSum DEF AfterMinerFee
<1>8. SumFunction(AfterDevFee(b, tx, m))
        = SumFunction(AfterMinerFee(b, tx, m)) + fee_distribution.dev
  BY <1>1, <1>2, <1>7, CreditSum DEF AfterDevFee
<1> QED
  BY <1>1, <1>2, <1>4, <1>5, <1>6, <1>7, <1>8, FeeSum DEF less

\* What a ledger is worth, and a list without repetition.
Worth(s) == SumFunction(s.balances)
Distinct(q) == \A i, j \in 1..Len(q) : q[i] = q[j] => i = j

\* t is the ledger s with some of the transactions S and at most x more money.
Adds(s, t, S, x) ==
    /\ t \in Ledgers
    /\ t.confirmed \subseteq s.confirmed \cup S
    /\ Worth(t) <= Worth(s) + x

\* The state of the loop of apply_block after k transactions that applied.
Looped(acc, s, txs, k) ==
    acc.ok => /\ acc.ledger.confirmed = s.confirmed \cup {txs[i] : i \in 1..k}
              /\ Worth(acc.ledger) <= Worth(s)
              /\ \A i, j \in 1..k : txs[i] = txs[j] => i = j

\* What a ledger is worth is an integer.
LEMMA WorthType ==
    ASSUME NEW s \in Ledgers
    PROVE  Worth(s) \in Int
<1>1. s.balances \in [Addr -> Int]
  BY EconomyAssumption DEF Ledgers
<1> QED
  BY <1>1, SumType, AddrAssumption DEF Worth

\* One more transaction that applies is one that did not occur before.
LEMMA LoopedOnce ==
    ASSUME NEW s \in Ledgers, NEW txs \in Seq(Txs), NEW m \in Addr, NEW k \in 1..Len(txs),
           NEW acc \in Results, Looped(acc, s, txs, k - 1)
    PROVE  Looped(ApplyOne(acc, txs[k], m), s, txs, k)
<1> DEFINE tx == txs[k]
           a == ApplyOne(acc, tx, m)
<1>1. tx \in Txs /\ acc.ledger \in Ledgers /\ acc.ok \in BOOLEAN /\ k \in Nat \ {0}
  BY DEF Results
<1>2. CASE acc.ok /\ TxApplies(acc.ledger, tx, m)
  <2> DEFINE l == acc.ledger
             t == TxApplied(l, tx, m)
  <2>1. a.ledger = t /\ a.ok
    BY <1>2 DEF ApplyOne, Results
  <2>2. t.confirmed = l.confirmed \cup {tx} /\ t.balances = AfterDevFee(l.balances, tx, m)
        /\ tx \notin l.confirmed
    BY <1>2 DEF TxApplied, TxApplies, Payable
  <2>3. /\ l.confirmed = s.confirmed \cup {txs[i] : i \in 1..(k - 1)}
        /\ Worth(l) <= Worth(s)
        /\ \A i, j \in 1..(k - 1) : txs[i] = txs[j] => i = j
    BY <1>2 DEF Looped
  <2>4. l.balances \in [Addr -> Int]
    BY <1>1, EconomyAssumption DEF Ledgers
  <2>5. Worth(t) = Worth(l) - burn_share /\ Worth(l) \in Int
    BY <1>1, <2>2, <2>4, TxSums DEF Worth
  <2>6. \A i \in 1..k : i \in 1..(k - 1) \/ i = k
    BY <1>1
  <2>7. \A i \in 1..(k - 1) : i \in 1..k
    BY <1>1
  <2>8. k \in 1..k
    BY <1>1
  <2> HIDE DEF t, l
  <2>9. t.confirmed = s.confirmed \cup {txs[i] : i \in 1..k}
    BY <2>2, <2>3, <2>6, <2>7, <2>8
  <2>10. \A i \in 1..(k - 1) : txs[i] # tx
    BY <2>2, <2>3
  <2>11. \A i, j \in 1..k : txs[i] = txs[j] => i = j
    BY <2>3, <2>6, <2>10
  <2>12. Worth(t) <= Worth(s)
    BY <2>3, <2>5, FeeSum, WorthType
  <2> QED
    BY <2>1, <2>9, <2>11, <2>12 DEF Looped
<1>3. CASE ~(acc.ok /\ TxApplies(acc.ledger, tx, m))
  <2>1. ~a.ok
    BY <1>3 DEF ApplyOne, Results
  <2> QED
    BY <2>1 DEF Looped
<1> QED
  BY <1>2, <1>3

\* Transactions that all apply are all different, are the ones confirmed, and
\* bring no money.
LEMMA ApplyTxsIs ==
    ASSUME NEW s \in Ledgers, NEW txs \in Seq(Txs), NEW m \in Addr
    PROVE  /\ ApplyTxs(s, txs, m) \in Results
           /\ ApplyTxs(s, txs, m).ok =>
                 /\ Distinct(txs)
                 /\ Adds(s, ApplyTxs(s, txs, m).ledger, ToSet(txs), 0)
<1> DEFINE acc == [ok |-> TRUE, ledger |-> s]
           n == Len(txs)
           e == ApplyTxs(s, txs, m)
<1>1. acc \in Results /\ n \in Nat
  BY DEF Results
<1>2. PICK r : IsApplyRun(r, acc, txs, m)
  BY <1>1, ApplyRun
<1>3. r \in [0..n -> Results] /\ r[0] = acc /\ e = r[n]
      /\ \A k \in 1..n : r[k] = ApplyOne(r[k - 1], txs[k], m)
  BY <1>2 DEF IsApplyRun, ApplyTxs, ApplyFrom
<1> DEFINE Q == {k \in Nat : k <= n => Looped(r[k], s, txs, k)}
<1>4. 0 \in Q
  <2>1. Worth(s) \in Int
    BY WorthType
  <2> QED
    BY <1>3, <2>1 DEF Looped
<1>5. ASSUME NEW k \in Nat, k \in Q PROVE k + 1 \in Q
  <2> SUFFICES ASSUME k + 1 <= n PROVE Looped(r[k + 1], s, txs, k + 1)
    OBVIOUS
  <2>1. k + 1 \in 1..n /\ (k + 1) - 1 = k /\ k \in 0..n /\ Looped(r[k], s, txs, k)
    BY <1>1, <1>5
  <2>2. r[k + 1] = ApplyOne(r[k], txs[k + 1], m) /\ r[k] \in Results
    BY <1>3, <2>1
  <2>3. \A i \in 1..n : Looped(r[k], s, txs, i - 1)
                           => Looped(ApplyOne(r[k], txs[i], m), s, txs, i)
    BY <2>2, LoopedOnce
  <2> QED
    BY <2>1, <2>2, <2>3
<1> HIDE DEF Q
<1>6. n \in Q
  BY <1>1, <1>4, <1>5, NatSetInduction
<1>7. e \in Results /\ Looped(e, s, txs, n)
  BY <1>1, <1>3, <1>6 DEF Q
<1>8. e.ledger \in Ledgers
  BY <1>7 DEF Results
<1>9. {txs[i] : i \in 1..n} = ToSet(txs)
  BY DEF ToSet
<1> HIDE DEF e
<1>10. ASSUME e.ok PROVE Distinct(txs) /\ Adds(s, e.ledger, ToSet(txs), 0)
  <2>1. Worth(e.ledger) \in Int /\ Worth(s) \in Int
    BY <1>8, WorthType
  <2> QED
    BY <1>7, <1>8, <1>9, <1>10, <2>1 DEF Looped, Distinct, Adds
<1> QED
  BY <1>7, <1>10 DEF e

\* The parts of a block that the ledger looks at.
Payload(b) ==
    /\ b.miner \in Addr /\ b.coinbase.miner \in Nat /\ b.coinbase.dev \in Nat
    /\ b.txs \in Seq(Txs)

\* A block that applies brings its coinbase and confirms its transactions, all
\* different; one that does not changes nothing.
LEMMA ApplyBlockIs ==
    ASSUME NEW s \in Ledgers, NEW b, Payload(b)
    PROVE  /\ apply_block(s, b) \in Results
           /\ ~apply_block(s, b).ok => apply_block(s, b).ledger = s
           /\ apply_block(s, b).ok => Distinct(b.txs)
           /\ Adds(s, apply_block(s, b).ledger, ToSet(b.txs), b.coinbase.miner + b.coinbase.dev)
<1> DEFINE looped == ApplyTxs(s, b.txs, b.miner)
           t == CoinbaseApplied(looped.ledger, b)
           a == apply_block(s, b)
           x == b.coinbase.miner + b.coinbase.dev
<1>1. /\ b.miner \in Addr /\ b.coinbase.miner \in Nat /\ b.coinbase.dev \in Nat
      /\ b.txs \in Seq(Txs)
  BY DEF Payload
<1>2. /\ looped \in Results
      /\ looped.ok => Distinct(b.txs) /\ Adds(s, looped.ledger, ToSet(b.txs), 0)
  BY <1>1, ApplyTxsIs
<1>3. looped.ledger \in Ledgers
  BY <1>2 DEF Results
<1>4. Worth(s) \in Int /\ x \in Nat
  BY <1>1, WorthType
<1>5. Adds(s, s, ToSet(b.txs), x)
  BY <1>4 DEF Adds
<1>6. CASE b.height = 0
  <2>1. a.ledger = s /\ a \in Results /\ (a.ok => b.txs = <<>>)
    BY <1>6 DEF apply_block, Results
  <2>2. Distinct(<<>>)
    BY DEF Distinct
  <2> QED
    BY <1>5, <2>1, <2>2
<1>7. CASE b.height # 0 /\ looped.ok /\ CoinbaseFits(looped.ledger, b)
           /\ verify_coinbase_rewards(b) /\ b.dev = DEV_TREASURY_ADDRESS
  <2>1. a = [ok |-> TRUE, ledger |-> t]
    BY <1>7 DEF apply_block
  <2> DEFINE l == looped.ledger
             mid == AfterMinerReward(l.balances, b)
  <2>2. t \in Ledgers
    BY <1>1, <1>3, <1>7, CoinbaseType
  <2>3. /\ t.confirmed = l.confirmed
        /\ t.balances = Credit(mid, DEV_TREASURY_ADDRESS, b.coinbase.dev)
    BY <1>3 DEF CoinbaseApplied, Ledgers
  <2>4. l.balances \in [Addr -> Int]
    BY <1>3, EconomyAssumption DEF Ledgers
  <2>5. /\ mid \in [Addr -> Int] /\ SumFunction(l.balances) \in Int
        /\ SumFunction(mid) = SumFunction(l.balances) + b.coinbase.miner
    <3> HIDE DEF l
    <3>1. \A y \in Int : /\ Credit(l.balances, b.miner, y) \in [Addr -> Int]
                         /\ SumFunction(l.balances) \in Int
                         /\ SumFunction(Credit(l.balances, b.miner, y))
                              = SumFunction(l.balances) + y
      BY <1>1, <2>4, CreditSum
    <3>2. mid = Credit(l.balances, b.miner, b.coinbase.miner) /\ b.coinbase.miner \in Int
      BY <1>1 DEF AfterMinerReward
    <3> HIDE DEF mid
    <3> QED
      BY <3>1, <3>2
  <2> HIDE DEF mid, l
  <2>6. SumFunction(t.balances) = SumFunction(mid) + b.coinbase.dev
    <3>1. \A y \in Int : SumFunction(Credit(mid, DEV_TREASURY_ADDRESS, y)) = SumFunction(mid) + y
      BY <2>5, CreditSum, AddrAssumption
    <3> QED
      BY <1>1, <2>3, <3>1
  <2>7. Worth(t) = Worth(l) + x /\ Worth(l) \in Int
    BY <1>1, <2>5, <2>6 DEF Worth
  <2>8. l.confirmed \subseteq s.confirmed \cup ToSet(b.txs) /\ Worth(l) <= Worth(s) + 0
    BY <1>2, <1>7 DEF Adds, l
  <2> HIDE DEF t, x
  <2>9. Worth(t) <= Worth(s) + x
    BY <1>4, <2>7, <2>8
  <2>10. Adds(s, t, ToSet(b.txs), x)
    BY <2>2, <2>3, <2>8, <2>9 DEF Adds
  <2>11. a \in Results /\ a.ok /\ a.ledger = t
    BY <2>1, <2>2 DEF Results
  <2> QED
    BY <1>2, <1>7, <2>10, <2>11 DEF x
<1>8. CASE ~(b.height = 0)
           /\ ~(/\ verify_coinbase_rewards(b) /\ b.dev = DEV_TREASURY_ADDRESS
                /\ looped.ok /\ CoinbaseFits(looped.ledger, b))
  <2>1. a = [ok |-> FALSE, ledger |-> s]
    BY <1>8 DEF apply_block
  <2> QED
    BY <1>5, <2>1 DEF Results
<1> QED
  BY <1>6, <1>7, <1>8

\* The batch of select_affordable consists of transactions.
LEMMA SelectedType ==
    ASSUME NEW s \in Ledgers, NEW txs \in Seq(Txs), NEW m \in Addr
    PROVE  select_affordable(s, txs, m) \in Seq(Txs)
<1> DEFINE acc == [accepted |-> <<>>, ledger |-> s]
           n == Len(txs)
<1>1. acc \in Selections /\ n \in Nat /\ n \in 0..n
  BY DEF Selections
<1>2. PICK r : IsSelectRun(r, acc, txs, m)
  BY <1>1, SelectRun
<1>3. select_affordable(s, txs, m) = r[n].accepted /\ r[n] \in Selections
  BY <1>1, <1>2 DEF IsSelectRun, select_affordable, SelectFrom
<1> QED
  BY <1>3 DEF Selections

\* The orders of a finite set are lists of its elements, each once.
LEMMA OrdersAre ==
    ASSUME NEW S, IsFiniteSet(S), NEW q \in SetToSeqs(S)
    PROVE  /\ Cardinality(S) \in Nat /\ q \in [1..Cardinality(S) -> S]
           /\ q \in Seq(S) /\ IsInjective(q)
<1>1. Cardinality(S) \in Nat
  BY FS_CardinalityType
<1>2. /\ q \in [1..Cardinality(S) -> S]
      /\ \A i, j \in 1..Cardinality(S) : i # j => q[i] # q[j]
  BY DEF SetToSeqs
<1>3. IsInjective(q)
  BY <1>2 DEF IsInjective
<1> DEFINE n == Cardinality(S)
<1> HIDE DEF n
<1>4. q \in [1..n -> S] /\ n \in Nat
  BY <1>1, <1>2 DEF n
<1>5. q \in Seq(S)
  BY <1>4
<1> QED
  BY <1>1, <1>2, <1>3, <1>5

-----------------------------------------------------------------------------
(* The replay of an order of blocks. *)

\* A sum of natural numbers over fewer elements is smaller.
LEMMA SumsMonotone ==
    ASSUME NEW S, IsFiniteSet(S), NEW f \in [S -> Nat], NEW g, Sums(g, f, S)
    PROVE  \A s \in SUBSET S : \A u \in SUBSET s : g[u] <= g[s]
<1> DEFINE P == {s \in SUBSET S : \A u \in SUBSET s : g[u] <= g[s]}
<1>1. {} \in P
  <2>1. SUBSET {} = {{}} /\ g[{}] = 0 /\ 0 <= 0
    BY DEF Sums
  <2>2. \A u \in SUBSET {} : g[u] <= g[{}]
    BY <2>1
  <2> QED
    BY <2>2
<1>2. ASSUME NEW s \in SUBSET S, s # {}, \A a \in s : s \ {a} \in P
      PROVE  s \in P
  <2> SUFFICES ASSUME NEW u \in SUBSET s PROVE g[u] <= g[s]
    OBVIOUS
  <2>1. g[s] \in Int /\ g[u] \in Int
    BY DEF Sums
  <2>2. CASE u = s
    BY <2>1, <2>2
  <2>3. CASE u # s
    <3>1. PICK a \in s : a \notin u
      BY <2>3
    <3>2. g[s] = f[a] + g[s \ {a}] /\ f[a] \in Nat /\ g[s \ {a}] \in Int
      BY DEF Sums
    <3>3. g[u] <= g[s \ {a}]
      BY <1>2, <3>1
    <3> HIDE DEF P
    <3> QED
      BY <2>1, <3>2, <3>3
  <2> QED
    BY <2>2, <2>3
<1>3. SUBSET S \subseteq P
  <2> HIDE DEF P
  <2> QED
    BY <1>1, <1>2, SubsetInduction
<1> QED
  BY <1>3

\* The ledger a replay starts from.
Fresh == [ok |-> TRUE, ledger |-> DefaultLedger]

\* r is a run of the replay of the n blocks of q.
IsReplayRun(r, blocks, known, q, n) ==
    /\ r[0] = Fresh /\ r[n] = ReplayAll(blocks, known, q)
    /\ \A k \in 1..n : r[k] = ReplayOne(r[k - 1], blocks, known, q[k])

\* A step of a replay leads to a ledger.
LEMMA ReplayOneType ==
    ASSUME NEW blocks, NEW known, \A h \in known : Payload(blocks[h]),
           NEW acc \in Results, NEW h
    PROVE  ReplayOne(acc, blocks, known, h) \in Results
<1>1. acc.ledger \in Ledgers /\ [acc EXCEPT !.ok = FALSE] \in Results
  BY DEF Results
<1>2. h \in known => apply_block(acc.ledger, blocks[h]) \in Results
  BY <1>1, ApplyBlockIs
<1> QED
  BY <1>1, <1>2 DEF ReplayOne

\* A replay has a run.
LEMMA ReplayAllRun ==
    ASSUME NEW blocks, NEW known, \A h \in known : Payload(blocks[h]),
           NEW H, NEW n \in Nat, NEW q \in [1..n -> H]
    PROVE  \E r \in [0..n -> Results] : IsReplayRun(r, blocks, known, q, n)
<1> DEFINE V == Results
           S == 1..n
           Eq(g) == g = [u \in SUBSET S |->
                            IF u = {} THEN Fresh
                            ELSE ReplayOne(g[u \ {Max(u)}], blocks, known, q[Max(u)])]
           G == [p \in S \X V |-> ReplayOne(p[2], blocks, known, q[p[1]])]
           h == CHOOSE g : Eq(g)
<1>1. ReplayAll(blocks, known, q) = h[S]
  <2>1. DOMAIN q = S
    OBVIOUS
  <2> QED
    BY <2>1 DEF ReplayAll, FoldLeft, MapThenFoldSet, Fresh
<1>2. G \in [S \X V -> V]
  <2> SUFFICES ASSUME NEW p \in S \X V PROVE ReplayOne(p[2], blocks, known, q[p[1]]) \in V
    OBVIOUS
  <2>1. p[2] \in V
    OBVIOUS
  <2> QED
    BY <2>1, ReplayOneType
<1>3. Fresh \in V
  BY DefaultType DEF Fresh, Results
<1> HIDE DEF V
<1>4. \A k \in S, v \in V : G[<<k, v>>] = ReplayOne(v, blocks, known, q[k])
  OBVIOUS
<1> HIDE DEF G
<1>5. PICK g \in [SUBSET S -> V] : LeftFold(g, n, Fresh, G)
  BY <1>2, <1>3, LeftFoldExists
<1>6. ASSUME NEW u \in SUBSET S, u # {} PROVE Max(u) \in S /\ u \ {Max(u)} \in SUBSET S
  BY <1>6, MaxInSet
<1>7. Eq(g)
  <2>1. ASSUME NEW u \in SUBSET S, u # {}
        PROVE  g[u] = ReplayOne(g[u \ {Max(u)}], blocks, known, q[Max(u)])
    <3>1. g[u \ {Max(u)}] \in V
      BY <1>6, <2>1
    <3> QED
      BY <1>4, <1>5, <1>6, <2>1, <3>1 DEF LeftFold
  <2>2. g[{}] = Fresh
    BY <1>5 DEF LeftFold
  <2> QED
    BY <2>1, <2>2
<1>8. Eq(h)
  <2> HIDE DEF Eq
  <2> QED
    BY <1>7
<1> HIDE DEF h
<1>9. h[{}] = Fresh
  BY <1>8
<1>10. FoldsWithin(h, n, V, Fresh, G)
  <2> SUFFICES ASSUME NEW u \in SUBSET S, u # {}, h[u \ {Max(u)}] \in V
               PROVE  h[u] = G[<<Max(u), h[u \ {Max(u)}]>>]
    BY <1>9 DEF FoldsWithin
  <2>1. h[u] = ReplayOne(h[u \ {Max(u)}], blocks, known, q[Max(u)])
    BY <1>8
  <2> HIDE DEF Eq
  <2> QED
    BY <1>4, <1>6, <2>1
<1>11. PICK r \in [0..n -> V] : FoldRuns(r, n, Fresh, G, h[1..n])
  <2> HIDE DEF Eq
  <2> QED
    BY <1>2, <1>3, <1>10, LeftFoldRuns
<1>12. ASSUME NEW k \in 1..n PROVE r[k] = ReplayOne(r[k - 1], blocks, known, q[k])
  <2>1. k - 1 \in 0..n
    OBVIOUS
  <2>2. r[k - 1] \in V
    BY <2>1
  <2> HIDE DEF Eq
  <2> QED
    BY <1>4, <1>11, <2>2 DEF FoldRuns
<1>13. IsReplayRun(r, blocks, known, q, n)
  <2> HIDE DEF Eq
  <2> QED
    BY <1>1, <1>11, <1>12 DEF IsReplayRun, FoldRuns
<1> QED
  BY <1>13 DEF V

\* What the blocks of a set claim, and a ledger that holds no more than that and
\* no other transactions.
Rewards(blocks, S) ==
    SumFunction([h \in S |-> blocks[h].coinbase.miner + blocks[h].coinbase.dev])
BackedBy(l, blocks, S) ==
    /\ l.confirmed \subseteq UNION {ToSet(blocks[h].txs) : h \in S}
    /\ Worth(l) <= Rewards(blocks, S)

\* Replaying different blocks yields a ledger backed by those of them that are known.
LEMMA ReplayIs ==
    ASSUME NEW known, IsFiniteSet(known), NEW blocks, \A h \in known : Payload(blocks[h]),
           NEW H, NEW n \in Nat, NEW q \in [1..n -> H], IsInjective(q)
    PROVE  /\ ReplayAll(blocks, known, q) \in Results
           /\ BackedBy(ReplayAll(blocks, known, q).ledger, blocks, known)
<1> DEFINE f == [h \in known |-> blocks[h].coinbase.miner + blocks[h].coinbase.dev]
           Up(k) == {q[i] : i \in 1..k} \cap known
<1>1. PICK r \in [0..n -> Results] : IsReplayRun(r, blocks, known, q, n)
  BY ReplayAllRun
<1>2. f \in [known -> Nat] /\ f \in [known -> Int]
  BY DEF Payload
<1>3. \A h \in known : f[h] = blocks[h].coinbase.miner + blocks[h].coinbase.dev
  OBVIOUS
<1>4. Rewards(blocks, known) = SumFunction(f)
  BY DEF Rewards
<1> HIDE DEF f
<1>5. PICK g : Sums(g, f, known) /\ SumFunction(f) = g[known]
  BY <1>2, SumIsSum
<1>6. /\ \A s \in SUBSET known : g[s] \in Int /\ \A u \in SUBSET s : g[u] <= g[s]
      /\ \A s \in SUBSET known : \A a \in s : g[s] = f[a] + g[s \ {a}]
  <2>1. \A s \in SUBSET known : \A u \in SUBSET s : g[u] <= g[s]
    BY <1>2, <1>5, SumsMonotone
  <2> QED
    BY <1>5, <2>1 DEF Sums
<1> DEFINE P(k) == /\ r[k].ledger.confirmed \subseteq UNION {ToSet(blocks[h].txs) : h \in Up(k)}
                   /\ Worth(r[k].ledger) <= g[Up(k)]
           Q == {k \in Nat : k <= n => P(k)}
<1>7. 0 \in Q
  <2>1. Up(0) = {} /\ r[0] = Fresh
    BY <1>1 DEF IsReplayRun
  <2>2. r[0].ledger.confirmed = {} /\ Worth(r[0].ledger) = 0
    BY <2>1, SumZero, AddrAssumption DEF Fresh, DefaultLedger, Worth
  <2>3. g[{}] = 0
    BY <1>5 DEF Sums
  <2> HIDE DEF Up
  <2>4. Worth(r[0].ledger) <= g[Up(0)]
    <3>1. Worth(r[0].ledger) = 0 /\ g[Up(0)] = 0
      BY <2>1, <2>2, <2>3, Zenon
    <3> QED
      BY <3>1
  <2>5. P(0)
    BY <2>2, <2>4
  <2> HIDE DEF P
  <2> QED
    BY <2>5
<1>8. ASSUME NEW k \in Nat, k \in Q PROVE k + 1 \in Q
  <2> HIDE DEF P
  <2> SUFFICES ASSUME k + 1 <= n PROVE P(k + 1)
    OBVIOUS
  <2>1. k + 1 \in 1..n /\ (k + 1) - 1 = k /\ k \in 0..n /\ k + 1 \in 0..n /\ P(k)
    BY <1>8
  <2> HIDE DEF Q
  <2> USE DEF P
  <2> DEFINE x == q[k + 1]
  <2>2. r[k + 1] = ReplayOne(r[k], blocks, known, x)
    BY <1>1, <2>1 DEF IsReplayRun
  <2>3. r[k] \in Results /\ r[k].ledger \in Ledgers
    BY <2>1 DEF Results
  <2>4. 1..(k + 1) = 1..k \cup {k + 1}
    OBVIOUS
  <2>5. /\ x \in known => Up(k + 1) = Up(k) \cup {x}
        /\ Up(k) \subseteq Up(k + 1) /\ Up(k + 1) \subseteq known
    BY <2>4
  <2>6. x \notin Up(k)
    <3>1. ASSUME NEW i \in 1..k, q[i] = x PROVE FALSE
      <4>1. i \in DOMAIN q /\ k + 1 \in DOMAIN q /\ i # k + 1
        BY <2>1
      <4> QED
        BY <3>1, <4>1 DEF IsInjective
    <3> QED
      BY <3>1
  <2> HIDE DEF Up
  <2>7. g[Up(k)] \in Int /\ g[Up(k + 1)] \in Int /\ g[Up(k)] <= g[Up(k + 1)]
    BY <1>6, <2>5
  <2>8. Worth(r[k].ledger) \in Int
    BY <2>3, WorthType
  <2>9. CASE r[k + 1].ledger = r[k].ledger
    <3>1. Worth(r[k + 1].ledger) <= g[Up(k + 1)]
      BY <2>1, <2>7, <2>8, <2>9
    <3> QED
      BY <2>1, <2>5, <2>9, <3>1
  <2>10. CASE x \in known /\ r[k + 1] = apply_block(r[k].ledger, blocks[x])
    <3> DEFINE s == r[k].ledger
               t == r[k + 1].ledger
    <3>1. Adds(s, t, ToSet(blocks[x].txs), f[x])
      BY <1>3, <2>3, <2>10, ApplyBlockIs
    <3>2. /\ t \in Ledgers /\ t.confirmed \subseteq s.confirmed \cup ToSet(blocks[x].txs)
          /\ Worth(t) <= Worth(s) + f[x]
      BY <3>1 DEF Adds
    <3>3. Up(k + 1) \ {x} = Up(k) /\ x \in Up(k + 1) /\ Up(k + 1) \in SUBSET known
      BY <2>5, <2>6, <2>10
    <3>4. g[Up(k + 1)] = f[x] + g[Up(k)] /\ f[x] \in Int
      <4>1. \A u \in SUBSET known : \A a \in u : g[u] = f[a] + g[u \ {a}]
        BY <1>6
      <4>2. g[Up(k + 1)] = f[x] + g[Up(k + 1) \ {x}]
        BY <3>3, <4>1, Zenon
      <4>3. f[x] \in Int
        BY <1>2, <2>10
      <4> QED
        BY <3>3, <4>2, <4>3
    <3>5. Worth(t) \in Int
      BY <3>2, WorthType
    <3>6. t.confirmed \subseteq UNION {ToSet(blocks[h].txs) : h \in Up(k + 1)}
      BY <2>1, <3>2, <3>3
    <3> HIDE DEF t, s
    <3>7. Worth(s) <= g[Up(k)] /\ Worth(s) \in Int
      BY <2>1, <2>8 DEF s
    <3>8. Worth(t) <= g[Up(k + 1)]
      BY <2>7, <3>2, <3>4, <3>5, <3>7
    <3> QED
      BY <3>6, <3>8 DEF t
  <2>11. \/ r[k + 1].ledger = r[k].ledger
         \/ x \in known /\ r[k + 1] = apply_block(r[k].ledger, blocks[x])
    <3>1. [r[k] EXCEPT !.ok = FALSE].ledger = r[k].ledger
      BY <2>3 DEF Results
    <3> QED
      BY <2>2, <3>1 DEF ReplayOne
  <2> QED
    BY <2>9, <2>10, <2>11
<1>9. P(n)
  <2>1. n \in Q
    <3> HIDE DEF Q
    <3> QED
      BY <1>7, <1>8, NatSetInduction
  <2>2. n <= n
    OBVIOUS
  <2> HIDE DEF P
  <2> QED
    BY <2>1, <2>2
<1>10. n \in 0..n /\ r[n] = ReplayAll(blocks, known, q) /\ r[n] \in Results /\ r[n].ledger \in Ledgers
  BY <1>1 DEF IsReplayRun, Results
<1>11. Up(n) \subseteq known
  OBVIOUS
<1> HIDE DEF Up
<1>12. g[Up(n)] \in Int /\ g[known] \in Int /\ g[Up(n)] <= g[known]
  BY <1>6, <1>11
<1>13. Worth(r[n].ledger) <= g[known]
  BY <1>9, <1>10, <1>12, WorthType
<1> QED
  BY <1>4, <1>5, <1>9, <1>10, <1>11, <1>13 DEF BackedBy

-----------------------------------------------------------------------------
(* Orders. *)

\* R orders the elements of S, each before or after each other one.
Orders(R, S) ==
    /\ \A x \in S : <<x, x>> \notin R
    /\ \A x, y \in S : x # y => <<x, y>> \in R \/ <<y, x>> \in R
    /\ \A x, y, z \in S : <<x, y>> \in R /\ <<y, z>> \in R => <<x, z>> \in R

\* q lists the elements of S in the order R, each once.
Lists(q, S, R) ==
    /\ q \in [1..Cardinality(S) -> S]
    /\ \A x \in S : \E i \in 1..Cardinality(S) : q[i] = x
    /\ \A i, j \in 1..Cardinality(S) : i < j => q[i] # q[j] /\ <<q[i], q[j]>> \in R

\* The k-th element of q has k - 1 others before it, if there is such an element.
Ranks(q, S, R) ==
    /\ q = [k \in 1..Cardinality(S) |-> q[k]]
    /\ \A k \in 1..Cardinality(S), x \in S :
          Cardinality({y \in S : <<y, x>> \in R}) = k - 1
              => q[k] \in S /\ Cardinality({y \in S : <<y, q[k]>> \in R}) = k - 1

\* This is how InOrder lists its set in order: the elements have different numbers of
\* elements before them, so every number below the size occurs.
LEMMA InOrderLists ==
    ASSUME NEW S, IsFiniteSet(S), NEW R, Orders(R, S), NEW q, Ranks(q, S, R)
    PROVE  Lists(q, S, R)
<1> DEFINE n == Cardinality(S)
           Below(x) == {y \in S : <<y, x>> \in R}
           rank == [x \in S |-> Cardinality(Below(x))]
<1>1. n \in Nat
  BY FS_CardinalityType
<1>2. ASSUME NEW x \in S PROVE IsFiniteSet(Below(x)) /\ Cardinality(Below(x)) \in 0..(n - 1)
  <2>1. Below(x) \subseteq S /\ x \notin Below(x)
    BY DEF Orders
  <2>2. IsFiniteSet(Below(x)) /\ Cardinality(Below(x)) \in Nat /\ Cardinality(Below(x)) <= n
    BY <2>1, FS_Subset, FS_CardinalityType
  <2>3. Below(x) # S
    BY <2>1
  <2>4. Cardinality(Below(x)) # n
    BY <2>1, <2>3, FS_Subset
  <2> HIDE DEF Below
  <2> QED
    BY <1>1, <2>2, <2>4
<1>3. ASSUME NEW x \in S, NEW z \in S, <<x, z>> \in R PROVE rank[x] < rank[z]
  <2>1. Below(x) \subseteq Below(z) /\ x \in Below(z) /\ x \notin Below(x)
    BY <1>3 DEF Orders
  <2>2. Cardinality(Below(x)) <= Cardinality(Below(z)) /\ Cardinality(Below(x)) # Cardinality(Below(z))
    BY <1>2, <2>1, FS_Subset
  <2> HIDE DEF Below
  <2>3. Cardinality(Below(x)) \in 0..(n - 1) /\ Cardinality(Below(z)) \in 0..(n - 1)
    BY <1>2
  <2> QED
    BY <2>2, <2>3
<1>4. rank \in [S -> 0..(n - 1)] /\ \A x \in S : rank[x] = Cardinality(Below(x))
  BY <1>2
<1>0. /\ q = [k \in 1..n |-> q[k]]
      /\ \A k \in 1..n, x \in S : rank[x] = k - 1 => q[k] \in S /\ rank[q[k]] = k - 1
  BY DEF Ranks
<1> HIDE DEF rank, Below
<1>5. rank \in Injection(S, 0..(n - 1))
  <2>1. ASSUME NEW x \in S, NEW y \in S, x # y PROVE rank[x] # rank[y]
    <3>1. rank[x] < rank[y] \/ rank[y] < rank[x]
      BY <1>3, <2>1 DEF Orders
    <3>2. rank[x] \in Int /\ rank[y] \in Int
      BY <1>1, <1>4
    <3> QED
      BY <3>1, <3>2
  <2> QED
    BY <1>4, <2>1 DEF Injection, IsInjective
<1>6. IsFiniteSet(0..(n - 1)) /\ Cardinality(0..(n - 1)) = n
  <2>1. 0 \in Int /\ n - 1 \in Int /\ (0 > n - 1 <=> n = 0) /\ (n - 1) - 0 + 1 = n
    BY <1>1
  <2> QED
    BY <1>1, <2>1, FS_Interval
<1>7. rank \in Surjection(S, 0..(n - 1))
  BY <1>5, <1>6, FS_Injection DEF n
<1>8. ASSUME NEW k \in 1..n PROVE q[k] \in S /\ rank[q[k]] = k - 1
  <2>1. k - 1 \in 0..(n - 1)
    BY <1>1
  <2>2. \E x \in S : rank[x] = k - 1
    BY <1>7, <2>1 DEF Surjection
  <2> QED
    BY <1>0, <2>2
<1>9. q \in [1..n -> S]
  BY <1>0, <1>8
<1>10. ASSUME NEW x \in S PROVE \E i \in 1..n : q[i] = x
  <2>1. rank[x] \in 0..(n - 1)
    BY <1>4
  <2>2. rank[x] + 1 \in 1..n /\ (rank[x] + 1) - 1 = rank[x]
    BY <1>1, <2>1
  <2>3. q[rank[x] + 1] \in S /\ rank[q[rank[x] + 1]] = rank[x]
    BY <1>8, <2>2
  <2>4. q[rank[x] + 1] = x
    BY <1>5, <2>3 DEF Injection, IsInjective
  <2> QED
    BY <2>2, <2>4
<1>11. ASSUME NEW i \in 1..n, NEW j \in 1..n, i < j PROVE q[i] # q[j] /\ <<q[i], q[j]>> \in R
  <2>1. q[i] \in S /\ q[j] \in S /\ rank[q[i]] = i - 1 /\ rank[q[j]] = j - 1
    BY <1>8
  <2>2. i - 1 # j - 1 /\ ~(j - 1 < i - 1)
    BY <1>1, <1>11
  <2>3. q[i] # q[j]
    BY <2>1, <2>2
  <2>4. ~(<<q[j], q[i]>> \in R)
    BY <1>3, <2>1, <2>2
  <2> QED
    BY <2>1, <2>3, <2>4 DEF Orders
<1> QED
  BY <1>9, <1>10, <1>11 DEF Lists, n

-----------------------------------------------------------------------------
(* Graph discovery. *)

\* What lies one step below the blocks of S.
ParentsOf(store, S, walls) ==
    (UNION {ToSet(store[h]) : h \in S \cap DOMAIN store}) \ walls

\* g is a run of the search of Reach.
Searches(g, store, from, walls) ==
    /\ g[0] = from \ walls
    /\ \A k \in 1..Cardinality(DOMAIN store) :
          g[k] = g[k - 1] \cup ParentsOf(store, g[k - 1], walls)
    /\ Reach(store, from, walls) = g[Cardinality(DOMAIN store)]

\* The hashes a store refers to lie in H.
Refers(store, H) ==
    /\ IsFiniteSet(DOMAIN store)
    /\ \A h \in DOMAIN store : ToSet(store[h]) \subseteq H

\* The search finds blocks that the store refers to, and does not enter walls.
LEMMA ReachRun ==
    ASSUME NEW H, NEW store, Refers(store, H), NEW from \in SUBSET H, NEW walls
    PROVE  \E g \in [0..Cardinality(DOMAIN store) -> SUBSET (H \ walls)] :
               Searches(g, store, from, walls)
<1> DEFINE n == Cardinality(DOMAIN store)
           V == SUBSET (H \ walls)
           base == from \ walls
           F == [S \in V |-> S \cup ParentsOf(store, S, walls)]
           Eq(g) == g = [k \in 0..n |-> IF k = 0 THEN base
                                        ELSE g[k - 1] \cup ParentsOf(store, g[k - 1], walls)]
<1>1. n \in Nat
  BY FS_CardinalityType DEF Refers
<1>2. Reach(store, from, walls) = (CHOOSE g : Eq(g))[n]
  BY DEF Reach, ParentsOf
<1> HIDE DEF n
<1>3. base \in V /\ F \in [V -> V]
  BY DEF ParentsOf, Refers
<1>4. PICK f \in [0..n -> V] : Iterates(f, n, base, F)
  <2> HIDE DEF V, F, base, Eq
  <2> QED
    BY <1>1, <1>3, IterationExists
<1>5. ASSUME NEW k \in 0..n, k # 0
      PROVE  f[k] = f[k - 1] \cup ParentsOf(store, f[k - 1], walls)
  <2>1. k \in 1..n /\ k - 1 \in 0..n
    BY <1>1, <1>5
  <2>2. f[k - 1] \in V
    BY <2>1
  <2>3. f[k] = F[f[k - 1]]
    BY <1>4, <2>1 DEF Iterates
  <2> QED
    BY <2>2, <2>3
<1>6. Eq(f)
  <2> HIDE DEF base, V, F
  <2> QED
    BY <1>4, <1>5 DEF Iterates
<1> DEFINE g == CHOOSE g : Eq(g)
<1>7. Eq(g)
  <2> HIDE DEF Eq
  <2> QED
    BY <1>6
<1>8. DOMAIN g = 0..n /\ g[0] = base
  <2> HIDE DEF g, base
  <2> QED
    BY <1>1, <1>7
<1>9. ASSUME NEW k \in 1..n
      PROVE  g[k] = g[k - 1] \cup ParentsOf(store, g[k - 1], walls)
  <2> HIDE DEF g
  <2>1. k \in 0..n /\ k # 0
    BY <1>1
  <2> QED
    BY <1>7, <2>1
<1>10. g = [k \in 0..n |-> g[k]]
  <2> HIDE DEF g, base
  <2> QED
    BY <1>7
<1> HIDE DEF g, Eq
<1> DEFINE Q == {k \in Nat : k <= n => g[k] \in V}
<1>11. 0 \in Q
  BY <1>3, <1>8
<1>12. ASSUME NEW k \in Nat, k \in Q PROVE k + 1 \in Q
  <2> SUFFICES ASSUME k + 1 <= n PROVE g[k + 1] \in V
    OBVIOUS
  <2>1. k + 1 \in 1..n /\ (k + 1) - 1 = k /\ g[k] \in V
    BY <1>1, <1>12
  <2>2. g[k + 1] = F[g[k]]
    BY <1>9, <2>1
  <2> HIDE DEF F, V
  <2> QED
    BY <1>3, <2>1, <2>2
<1>13. Nat \subseteq Q
  <2> HIDE DEF Q
  <2> QED
    BY <1>11, <1>12, NatSetInduction
<1>14. \A k \in 0..n : g[k] \in V
  BY <1>1, <1>13
<1>15. g \in [0..n -> V]
  <2> HIDE DEF V
  <2> QED
    BY <1>10, <1>14
<1>16. Reach(store, from, walls) = g[n]
  BY <1>2 DEF g
<1> QED
  BY <1>8, <1>9, <1>15, <1>16 DEF Searches, n

\* What the search finds.
LEMMA ReachType ==
    ASSUME NEW H, NEW store, Refers(store, H), NEW from \in SUBSET H, NEW walls
    PROVE  Reach(store, from, walls) \subseteq H \ walls
<1>1. PICK g \in [0..Cardinality(DOMAIN store) -> SUBSET (H \ walls)] :
          Searches(g, store, from, walls)
  BY ReachRun
<1>2. Cardinality(DOMAIN store) \in Nat
  BY FS_CardinalityType DEF Refers
<1> QED
  BY <1>1, <1>2 DEF Searches

-----------------------------------------------------------------------------
(* Colouring. *)

\* GhostdagData over the hashes H.
DataOver(H) == [blue_score : Nat, selected_parent : H \cup {None},
                blues : SUBSET H, reds : SUBSET H]

\* Data over fewer hashes are data over more.
LEMMA DataMonotone ==
    ASSUME NEW G, NEW H, G \subseteq H, NEW d \in DataOver(G)
    PROVE  d \in DataOver(H)
  BY DEF DataOver

\* InOrder by hash lists a finite set of hashes.
LEMMA HashOrder ==
    ASSUME NEW S, IsFiniteSet(S), S \subseteq Nat
    PROVE  LET R == {p \in S \X S : p[1] < p[2]}
           IN  Orders(R, S) /\ Lists(InOrder(S, LowestFirst), S, R)
<1> DEFINE R == {p \in S \X S : p[1] < p[2]}
<1>1. \A x, y \in S : <<x, y>> \in R <=> x < y
  OBVIOUS
<1> HIDE DEF R
<1>2. Orders(R, S)
  <2>1. \A x \in S : ~(<<x, x>> \in R)
    BY <1>1
  <2>2. \A x, y \in S : x # y => <<x, y>> \in R \/ <<y, x>> \in R
    BY <1>1
  <2>3. \A x, y, z \in S : <<x, y>> \in R /\ <<y, z>> \in R => <<x, z>> \in R
    BY <1>1
  <2> QED
    BY <2>1, <2>2, <2>3 DEF Orders
<1>3. \A x \in S : {y \in S : LowestFirst(y, x)} = {y \in S : <<y, x>> \in R}
  BY <1>1 DEF LowestFirst
<1> DEFINE q == InOrder(S, LowestFirst)
           at(k) == CHOOSE x \in S : Cardinality({y \in S : LowestFirst(y, x)}) = k - 1
<1>4. q = [k \in 1..Cardinality(S) |-> q[k]]
  <2>1. q = [k \in 1..Cardinality(S) |-> at(k)]
    BY DEF InOrder
  <2> HIDE DEF q, at
  <2> QED
    BY <2>1
<1>5. ASSUME NEW k \in 1..Cardinality(S), NEW x \in S,
             Cardinality({y \in S : LowestFirst(y, x)}) = k - 1
      PROVE  q[k] \in S /\ Cardinality({y \in S : LowestFirst(y, q[k])}) = k - 1
  BY <1>5 DEF InOrder
<1> HIDE DEF q
<1>6. Ranks(q, S, R)
  BY <1>3, <1>4, <1>5 DEF Ranks
<1> QED
  BY <1>2, <1>6, InOrderLists DEF R, q

\* The selected parent is one of the parents that have data, if any has.
LEMMA SelectedParentType ==
    ASSUME NEW H, NEW D, NEW cache \in [D -> DataOver(H)], NEW parents \in Seq(H)
    PROVE  \/ /\ selected_parent(cache, parents) = None
              /\ \A i \in DOMAIN parents : parents[i] \notin D
           \/ selected_parent(cache, parents) \in ToSet(parents) \cap D
<1> DEFINE known == {i \in DOMAIN parents : parents[i] \in D}
           f == [i \in known |-> cache[parents[i]].blue_score]
           scores == {cache[parents[i]].blue_score : i \in known}
           best == Max(scores)
           top == {i \in known : cache[parents[i]].blue_score = best}
<1>1. CASE known = {}
  BY <1>1 DEF selected_parent
<1>2. CASE known # {}
  <2>1. DOMAIN parents = 1..Len(parents) /\ Len(parents) \in Nat
    OBVIOUS
  <2>2. IsFiniteSet(known) /\ known \subseteq 1..Len(parents)
    <3>1. IsFiniteSet(1..Len(parents))
      BY <2>1, FS_Interval
    <3> QED
      BY <2>1, <3>1, FS_Subset
  <2>3. f \in [known -> Int] /\ \A i \in known : f[i] = cache[parents[i]].blue_score
    BY DEF DataOver
  <2>4. Values(scores, f, known)
    BY <2>3 DEF Values
  <2>5. \E i \in known : f[i] = best
    <3> HIDE DEF f, known, scores
    <3> QED
      BY <1>2, <2>2, <2>3, <2>4, MaxOfValues
  <2>6. top # {} /\ top \subseteq known
    BY <2>3, <2>5
  <2>7. Max(top) \in known
    <3>1. top \subseteq 1..Len(parents)
      BY <2>2, <2>6
    <3> HIDE DEF top, known
    <3> QED
      BY <2>1, <2>6, <3>1, MaxInSet
  <2>8. selected_parent(cache, parents) = parents[Max(top)]
    BY <1>2 DEF selected_parent
  <2> HIDE DEF top
  <2> QED
    BY <2>7, <2>8 DEF ToSet
<1> QED
  BY <1>1, <1>2

\* One verdict of the colouring.
Coloured(store, c, acc) == IF can_be_blue(store, c, acc) THEN acc \cup {c} ELSE acc

\* The blue blocks after an anticone q was coloured.
Blues(store, base, q) ==
    FoldLeft(LAMBDA acc, c : IF can_be_blue(store, c, acc) THEN acc \cup {c} ELSE acc, base, q)

\* r is a run of the colouring.
Colours(r, store, base, q, n) ==
    /\ r[0] = base
    /\ \A k \in 1..n : r[k] = Coloured(store, q[k], r[k - 1])
    /\ r[n] = Blues(store, base, q)

\* The colouring of an anticone is a run over it, block by block.
LEMMA BluesRun ==
    ASSUME NEW H, NEW store, NEW base \in SUBSET H, NEW n \in Nat, NEW q \in [1..n -> H]
    PROVE  \E r \in [0..n -> SUBSET H] : Colours(r, store, base, q, n)
<1> DEFINE V == SUBSET H
           S == 1..n
           Eq(g) == g = [u \in SUBSET S |->
                            IF u = {} THEN base
                            ELSE Coloured(store, q[Max(u)], g[u \ {Max(u)}])]
           G == [p \in S \X V |-> Coloured(store, q[p[1]], p[2])]
           h == CHOOSE g : Eq(g)
<1>1. Blues(store, base, q) = h[S]
  BY DEF Blues, FoldLeft, MapThenFoldSet, Coloured
<1>2. G \in [S \X V -> V] /\ base \in V
  BY DEF Coloured
<1>3. \A k \in S, v \in V : G[<<k, v>>] = Coloured(store, q[k], v)
  OBVIOUS
<1> HIDE DEF G
<1>4. PICK g \in [SUBSET S -> V] : LeftFold(g, n, base, G)
  <2> HIDE DEF V
  <2> QED
    BY <1>2, LeftFoldExists
<1>5. ASSUME NEW u \in SUBSET S, u # {} PROVE Max(u) \in S /\ u \ {Max(u)} \in SUBSET S
  BY <1>5, MaxInSet
<1>6. Eq(g)
  <2>1. ASSUME NEW u \in SUBSET S, u # {}
        PROVE  g[u] = Coloured(store, q[Max(u)], g[u \ {Max(u)}])
    <3>1. g[u \ {Max(u)}] \in V
      BY <1>5, <2>1
    <3> HIDE DEF V
    <3> QED
      BY <1>3, <1>4, <1>5, <2>1, <3>1 DEF LeftFold
  <2>2. g[{}] = base
    BY <1>4 DEF LeftFold
  <2> HIDE DEF V
  <2> QED
    BY <2>1, <2>2
<1>7. Eq(h)
  <2> HIDE DEF Eq
  <2> QED
    BY <1>6
<1> HIDE DEF h
<1>8. h[{}] = base
  BY <1>7
<1>9. FoldsWithin(h, n, V, base, G)
  <2> SUFFICES ASSUME NEW u \in SUBSET S, u # {}, h[u \ {Max(u)}] \in V
               PROVE  h[u] = G[<<Max(u), h[u \ {Max(u)}]>>]
    BY <1>8 DEF FoldsWithin
  <2>1. h[u] = Coloured(store, q[Max(u)], h[u \ {Max(u)}])
    BY <1>7
  <2> HIDE DEF V, Eq
  <2> QED
    BY <1>3, <1>5, <2>1
<1>10. PICK r \in [0..n -> V] : FoldRuns(r, n, base, G, h[1..n])
  <2> HIDE DEF V, Eq
  <2> QED
    BY <1>2, <1>9, LeftFoldRuns
<1>11. ASSUME NEW k \in 1..n PROVE r[k] = Coloured(store, q[k], r[k - 1])
  <2>1. k - 1 \in 0..n
    OBVIOUS
  <2>2. r[k - 1] \in V
    BY <2>1
  <2> HIDE DEF V, Eq
  <2> QED
    BY <1>3, <1>10, <2>2 DEF FoldRuns
<1> QED
  BY <1>1, <1>10, <1>11 DEF Colours, FoldRuns

\* The data of a new block are data, whatever the store lacks.
LEMMA DataType ==
    ASSUME NEW H, IsFiniteSet(H), H \subseteq Nat, NEW store, Refers(store, H),
           NEW D, NEW cache \in [D -> DataOver(H)], NEW parents \in Seq(H)
    PROVE  calculate_ghostdag_data(store, cache, parents) \in DataOver(H)
<1> DEFINE sp == selected_parent(cache, parents)
           S == find_anticone(store, parents, sp)
           q == InOrder(S, LowestFirst)
           base == {sp} \cup cache[sp].blues
           blues == Blues(store, base, q)
           data == [blue_score      |-> cache[sp].blue_score + Cardinality(blues),
                    selected_parent |-> sp,
                    blues           |-> blues,
                    reds            |-> ToSet(q) \ blues]
<1>1. calculate_ghostdag_data(store, cache, parents) = IF sp = None THEN GenesisData ELSE data
  BY DEF calculate_ghostdag_data, Blues
<1>2. CASE sp = None
  BY <1>1, <1>2 DEF GenesisData, DataOver
<1>3. CASE sp # None
  <2>1. sp \in ToSet(parents) \cap D
    BY <1>3, SelectedParentType
  <2>2. ToSet(parents) \subseteq H
    BY DEF ToSet
  <2>3. S \subseteq H
    BY <2>2, ReachType DEF find_anticone
  <2>4. IsFiniteSet(S) /\ S \subseteq Nat /\ Cardinality(S) \in Nat
    BY <2>3, FS_Subset, FS_CardinalityType
  <2> HIDE DEF sp, S
  <2>5. q \in [1..Cardinality(S) -> S]
    BY <2>4, HashOrder DEF Lists
  <2>6. q \in [1..Cardinality(S) -> H] /\ ToSet(q) \subseteq H
    BY <2>3, <2>5 DEF ToSet
  <2>7. cache[sp].blue_score \in Nat /\ cache[sp].blues \subseteq H /\ sp \in H
    BY <2>1, <2>2 DEF DataOver
  <2>8. base \in SUBSET H
    BY <2>7
  <2> HIDE DEF q, base
  <2>9. PICK r \in [0..Cardinality(S) -> SUBSET H] : Colours(r, store, base, q, Cardinality(S))
    BY <2>4, <2>6, <2>8, BluesRun
  <2>10. blues \in SUBSET H
    BY <2>4, <2>9 DEF Colours
  <2> HIDE DEF blues
  <2>11. Cardinality(blues) \in Nat
    BY <2>10, FS_Subset, FS_CardinalityType
  <2>12. data \in DataOver(H)
    BY <2>6, <2>7, <2>10, <2>11 DEF DataOver
  <2> QED
    BY <1>1, <1>3, <2>12
<1> QED
  BY <1>2, <1>3

-----------------------------------------------------------------------------
(* Fork choice. *)

\* Where blocks are higher than their parents there is a tip, and fork choice
\* finds one of highest score.
LEMMA CanonicalTip ==
    ASSUME NEW H, H \subseteq Nat, NEW store, IsFiniteSet(DOMAIN store), DOMAIN store # {},
           DOMAIN store \subseteq H, NEW cache \in [DOMAIN store -> DataOver(H)],
           NEW ht \in [DOMAIN store -> Int],
           \A h \in DOMAIN store : \A p \in ToSet(store[h]) \cap DOMAIN store : ht[p] < ht[h]
    PROVE  LET tip == select_canonical_tip(store, cache)
           IN  /\ tip \in compute_tips(store)
               /\ tip \in DOMAIN store
               /\ \A h \in compute_tips(store) : cache[h].blue_score <= cache[tip].blue_score
<1> DEFINE tips == compute_tips(store)
           f == [h \in tips |-> cache[h].blue_score]
           scores == {cache[h].blue_score : h \in tips}
           best == Max(scores)
           top == {h \in tips : cache[h].blue_score = best}
           tip == select_canonical_tip(store, cache)
<1>1. tips \subseteq DOMAIN store /\ IsFiniteSet(tips)
  BY FS_Subset DEF compute_tips
<1>2. tips # {}
  <2>1. PICK x \in DOMAIN store : \A y \in DOMAIN store : ht[y] <= ht[x]
    BY ArgMax
  <2>2. ASSUME NEW h \in DOMAIN store, x \in ToSet(store[h]) PROVE FALSE
    <3>1. ht[x] < ht[h] /\ ht[h] <= ht[x] /\ ht[x] \in Int /\ ht[h] \in Int
      BY <2>1, <2>2
    <3> QED
      BY <3>1
  <2>3. x \in tips
    BY <2>2 DEF compute_tips
  <2> QED
    BY <2>3
<1>3. f \in [tips -> Int] /\ \A h \in tips : f[h] = cache[h].blue_score
  BY <1>1 DEF DataOver
<1>4. Values(scores, f, tips)
  BY <1>3 DEF Values
<1> HIDE DEF tips, f, scores
<1>5. (\E h \in tips : f[h] = best) /\ \A h \in tips : f[h] <= best
  BY <1>1, <1>2, <1>3, <1>4, MaxOfValues
<1>6. top # {} /\ top \subseteq Nat
  BY <1>1, <1>3, <1>5
<1>7. tips \cap DOMAIN cache = tips
  BY <1>1
<1>8. tip = Min(top)
  BY <1>7 DEF select_canonical_tip, select_best_tip, tips, scores
<1>9. tip \in top
  <2> HIDE DEF top, tip
  <2> QED
    BY <1>6, <1>8, MinOfNats
<1>10. tip \in tips /\ f[tip] = best
  BY <1>3, <1>9
<1> HIDE DEF tip, best
<1>11. tip \in tips /\ tip \in DOMAIN store /\ \A h \in tips : cache[h].blue_score <= cache[tip].blue_score
  BY <1>1, <1>3, <1>5, <1>10
<1> QED
  BY <1>11 DEF tip, tips

-----------------------------------------------------------------------------
(* Filtered sequences. *)

\* w holds the elements of q at the positions o[1] < o[2] < ..., which are
\* those in `at`.
Filters(w, q, at, o) ==
    /\ o \in [1..Cardinality(at) -> at] /\ w = [k \in 1..Cardinality(at) |-> q[o[k]]]
    /\ \A i \in at : \E k \in 1..Cardinality(at) : o[k] = i
    /\ \A j, k \in 1..Cardinality(at) : j < k <=> o[j] < o[k]

\* Filtered keeps the chosen elements in their order.
LEMMA FilteredIs ==
    ASSUME NEW S, NEW q \in Seq(S), NEW at \in SUBSET DOMAIN q
    PROVE  /\ \E o : Filters(Filtered(q, at), q, at, o)
           /\ Cardinality(at) \in Nat /\ Filtered(q, at) \in Seq(S)
           /\ Len(Filtered(q, at)) = Cardinality(at)
<1> DEFINE o == InOrder(at, LowestFirst)
           n == Cardinality(at)
           R == {p \in at \X at : p[1] < p[2]}
           w == Filtered(q, at)
<1>1. DOMAIN q = 1..Len(q) /\ Len(q) \in Nat /\ at \subseteq Nat /\ q \in [1..Len(q) -> S]
  OBVIOUS
<1>2. IsFiniteSet(at)
  <2>1. IsFiniteSet(1..Len(q))
    BY <1>1, FS_Interval
  <2> QED
    BY <1>1, <2>1, FS_Subset
<1>3. n \in Nat
  BY <1>2, FS_CardinalityType
<1>4. Lists(o, at, R)
  BY <1>1, <1>2, HashOrder
<1>5. w = [k \in DOMAIN o |-> q[o[k]]]
  BY DEF Filtered
<1>6. \A x, y \in at : <<x, y>> \in R <=> x < y
  OBVIOUS
<1> HIDE DEF o, R, w
<1>7. o \in [1..n -> at]
  BY <1>4 DEF Lists
<1>8. w = [k \in 1..n |-> q[o[k]]]
  BY <1>5, <1>7
<1>9. \A i \in at : \E k \in 1..n : o[k] = i
  BY <1>4 DEF Lists
<1>10. ASSUME NEW j \in 1..n, NEW k \in 1..n PROVE j < k <=> o[j] < o[k]
  <2>1. o[j] \in Nat /\ o[k] \in Nat /\ o[j] \in at /\ o[k] \in at
    BY <1>1, <1>7
  <2>2. CASE j < k
    BY <1>4, <1>6, <2>1, <2>2 DEF Lists
  <2>3. CASE j = k
    BY <1>3, <2>1, <2>3
  <2>4. CASE k < j
    <3>1. o[k] < o[j]
      BY <1>4, <1>6, <2>1, <2>4 DEF Lists
    <3> QED
      BY <1>3, <2>1, <2>4, <3>1
  <2> QED
    BY <1>3, <2>2, <2>3, <2>4
<1>11. Filters(w, q, at, o)
  BY <1>7, <1>8, <1>9, <1>10 DEF Filters
<1>12. w \in [1..n -> S]
  BY <1>1, <1>7, <1>8
<1>13. w \in Seq(S) /\ Len(w) = n
  BY <1>3, <1>12
<1> QED
  BY <1>3, <1>11, <1>13 DEF w

-----------------------------------------------------------------------------
(* The search of Reach finds the least closed set. *)

\* Nothing leads out of the finite store.
Closed(store) == Refers(store, DOMAIN store)

\* X holds the start of the search and every step from X.
Complete(X, store, from, walls) ==
    /\ from \ walls \subseteq X
    /\ \A h \in X \cap DOMAIN store : ToSet(store[h]) \ walls \subseteq X

\* The search stays within every such set.
LEMMA ReachLeast ==
    ASSUME NEW H, NEW store, Refers(store, H), NEW from \in SUBSET H, NEW walls,
           NEW X, Complete(X, store, from, walls)
    PROVE  Reach(store, from, walls) \subseteq X
<1> DEFINE n == Cardinality(DOMAIN store)
<1>1. PICK g \in [0..n -> SUBSET (H \ walls)] : Searches(g, store, from, walls)
  BY ReachRun
<1>2. n \in Nat
  BY FS_CardinalityType DEF Refers
<1>3. /\ g[0] = from \ walls /\ Reach(store, from, walls) = g[n]
      /\ \A k \in 1..n : g[k] = g[k - 1] \cup ParentsOf(store, g[k - 1], walls)
  BY <1>1 DEF Searches
<1> HIDE DEF n
<1> DEFINE Q == {k \in Nat : k <= n => g[k] \subseteq X}
<1>4. 0 \in Q
  BY <1>3 DEF Complete
<1>5. ASSUME NEW k \in Nat, k \in Q PROVE k + 1 \in Q
  <2> SUFFICES ASSUME k + 1 <= n PROVE g[k + 1] \subseteq X
    OBVIOUS
  <2>1. k + 1 \in 1..n /\ (k + 1) - 1 = k /\ g[k] \subseteq X
    BY <1>2, <1>5
  <2>2. g[k + 1] = g[k] \cup ParentsOf(store, g[k], walls)
    BY <1>3, <2>1
  <2>3. ParentsOf(store, g[k], walls) \subseteq X
    BY <2>1 DEF ParentsOf, Complete
  <2> QED
    BY <2>1, <2>2, <2>3
<1>6. Nat \subseteq Q
  <2> HIDE DEF Q
  <2> QED
    BY <1>4, <1>5, NatSetInduction
<1> QED
  BY <1>2, <1>3, <1>6

\* In a closed store the search has found everything when it stops: each round
\* before finds a new block, and there are as many rounds as blocks.
LEMMA ReachComplete ==
    ASSUME NEW store, Closed(store), NEW from \in SUBSET DOMAIN store, NEW walls
    PROVE  Complete(Reach(store, from, walls), store, from, walls)
<1> DEFINE D == DOMAIN store
           n == Cardinality(D)
           Step(S) == ParentsOf(store, S, walls)
<1>1. PICK g \in [0..n -> SUBSET (D \ walls)] : Searches(g, store, from, walls)
  BY ReachRun DEF Closed
<1>2. n \in Nat /\ IsFiniteSet(D)
  BY FS_CardinalityType DEF Closed, Refers
<1>3. /\ g[0] = from \ walls /\ Reach(store, from, walls) = g[n]
      /\ \A k \in 1..n : g[k] = g[k - 1] \cup Step(g[k - 1])
  BY <1>1 DEF Searches
<1>4. ASSUME NEW S \in SUBSET (D \ walls) PROVE Step(S) \subseteq D \ walls
  BY DEF ParentsOf, Closed, Refers
<1> HIDE DEF n, D, Step
<1> DEFINE P(k) == /\ from \ walls \subseteq g[k]
                   /\ Step(g[k]) \subseteq g[k] \/ Cardinality(g[k]) >= k
           Q == {k \in Nat : k <= n => P(k)}
<1>5. ASSUME NEW k \in 0..n PROVE IsFiniteSet(g[k]) /\ Cardinality(g[k]) \in Nat /\ g[k] \subseteq D
                                  /\ Cardinality(g[k]) <= n /\ (Cardinality(g[k]) = n => g[k] = D)
  <2>1. g[k] \subseteq D
    OBVIOUS
  <2> QED
    BY <1>2, <2>1, FS_Subset, FS_CardinalityType DEF n
<1>6. 0 \in Q
  <2>1. 0 \in 0..n
    BY <1>2
  <2>2. Cardinality(g[0]) >= 0
    BY <1>5, <2>1
  <2> QED
    BY <1>3, <2>2
<1>7. ASSUME NEW k \in Nat, k \in Q PROVE k + 1 \in Q
  <2> SUFFICES ASSUME k + 1 <= n PROVE P(k + 1)
    OBVIOUS
  <2>1. k + 1 \in 1..n /\ (k + 1) - 1 = k /\ k \in 0..n /\ k + 1 \in 0..n /\ P(k)
    BY <1>2, <1>7
  <2>2. g[k + 1] = g[k] \cup Step(g[k])
    BY <1>3, <2>1
  <2>3. CASE Step(g[k]) \subseteq g[k]
    <3>1. g[k + 1] = g[k]
      BY <2>2, <2>3
    <3> QED
      BY <2>1, <2>3, <3>1
  <2>4. CASE ~(Step(g[k]) \subseteq g[k]) /\ Cardinality(g[k]) >= k
    <3>1. g[k] \subseteq g[k + 1] /\ g[k] # g[k + 1]
      BY <2>2, <2>4
    <3>2. IsFiniteSet(g[k + 1]) /\ Cardinality(g[k]) \in Nat /\ Cardinality(g[k + 1]) \in Nat
      BY <1>5, <2>1
    <3>3. Cardinality(g[k]) <= Cardinality(g[k + 1]) /\ Cardinality(g[k]) # Cardinality(g[k + 1])
      BY <3>1, <3>2, FS_Subset
    <3>4. Cardinality(g[k + 1]) >= k + 1
      BY <2>4, <3>2, <3>3
    <3> QED
      BY <2>1, <3>1, <3>4
  <2> QED
    BY <2>1, <2>3, <2>4
<1>8. Nat \subseteq Q
  <2> HIDE DEF Q
  <2> QED
    BY <1>6, <1>7, NatSetInduction
<1>9. P(n) /\ n \in 0..n
  BY <1>2, <1>8
<1>10. Step(g[n]) \subseteq g[n]
  <2>1. CASE Cardinality(g[n]) >= n
    <3>1. Cardinality(g[n]) = n
      BY <1>2, <1>5, <1>9, <2>1
    <3>2. g[n] = D
      BY <1>5, <1>9, <3>1
    <3> QED
      BY <1>4, <1>9, <3>2
  <2> QED
    BY <1>9, <2>1
<1> QED
  BY <1>3, <1>9, <1>10 DEF Complete, Step, ParentsOf

\* Two stores that agree on the blocks both have.
Agree(s, t) == \A h \in DOMAIN s \cap DOMAIN t : s[h] = t[h]

\* What is found from common blocks is common.
LEMMA ReachWithin ==
    ASSUME NEW s, NEW t, Closed(s), Closed(t), Agree(s, t),
           NEW from \in SUBSET (DOMAIN s \cap DOMAIN t), NEW v, NEW w,
           \A h \in DOMAIN s \cap DOMAIN t : h \in v <=> h \in w
    PROVE  Reach(s, from, v) \subseteq Reach(t, from, w) \cap DOMAIN s \cap DOMAIN t
<1> DEFINE I == DOMAIN s \cap DOMAIN t
           R == Reach(t, from, w)
           X == R \cap I
<1>1. Complete(R, t, from, w)
  BY ReachComplete
<1> HIDE DEF R
<1>2. from \ v \subseteq X
  BY <1>1 DEF Complete
<1>3. ASSUME NEW h \in X \cap DOMAIN s PROVE ToSet(s[h]) \ v \subseteq X
  <2>1. s[h] = t[h] /\ h \in DOMAIN t /\ h \in DOMAIN s /\ h \in R
    BY DEF Agree
  <2>2. ToSet(s[h]) \subseteq I
    BY <2>1 DEF Closed, Refers
  <2>3. ToSet(t[h]) \ w \subseteq R
    BY <1>1, <2>1 DEF Complete
  <2> QED
    BY <2>1, <2>2, <2>3
<1>4. Complete(X, s, from, v)
  BY <1>2, <1>3 DEF Complete
<1> HIDE DEF X
<1>5. Reach(s, from, v) \subseteq X
  BY <1>4, ReachLeast DEF Closed
<1> QED
  BY <1>5 DEF X, R

\* A block has the same past in both stores.
LEMMA PastAgree ==
    ASSUME NEW s, NEW t, Closed(s), Closed(t), Agree(s, t), NEW h \in DOMAIN s \cap DOMAIN t
    PROVE  /\ get_past_set(s, h) = get_past_set(t, h)
           /\ get_past_set(s, h) \subseteq DOMAIN s \cap DOMAIN t
<1> DEFINE f == ToSet(s[h])
<1>1. f = ToSet(t[h]) /\ f \in SUBSET (DOMAIN s \cap DOMAIN t)
  BY DEF Agree, Closed, Refers
<1>2. get_past_set(s, h) = Reach(s, f, {}) /\ get_past_set(t, h) = Reach(t, f, {})
  BY <1>1 DEF get_past_set
<1>3. Agree(t, s) /\ f \in SUBSET (DOMAIN t \cap DOMAIN s)
  BY <1>1 DEF Agree
<1> HIDE DEF f
<1>4. Reach(s, f, {}) \subseteq Reach(t, f, {}) \cap DOMAIN s \cap DOMAIN t
  BY <1>1, ReachWithin
<1>5. Reach(t, f, {}) \subseteq Reach(s, f, {}) \cap DOMAIN t \cap DOMAIN s
  BY <1>3, ReachWithin
<1> QED
  BY <1>2, <1>4, <1>5

\* So have two common blocks the same relation.
LEMMA ParallelAgree ==
    ASSUME NEW s, NEW t, Closed(s), Closed(t), Agree(s, t),
           NEW g \in DOMAIN s \cap DOMAIN t, NEW h \in DOMAIN s \cap DOMAIN t
    PROVE  Parallel(s, g, h) <=> Parallel(t, g, h)
  BY PastAgree DEF Parallel

\* And common parents the same anticone.
LEMMA AnticoneAgree ==
    ASSUME NEW s, NEW t, Closed(s), Closed(t), Agree(s, t),
           NEW sp \in DOMAIN s \cap DOMAIN t, NEW parents,
           ToSet(parents) \subseteq DOMAIN s \cap DOMAIN t
    PROVE  /\ find_anticone(s, parents, sp) = find_anticone(t, parents, sp)
           /\ find_anticone(s, parents, sp) \subseteq DOMAIN s \cap DOMAIN t
<1> DEFINE f == ToSet(parents)
           v == get_past_set(s, sp) \cup {sp}
<1>1. find_anticone(s, parents, sp) = Reach(s, f, v)
  BY DEF find_anticone
<1>2. find_anticone(t, parents, sp) = Reach(t, f, v)
  BY PastAgree DEF find_anticone
<1>3. Agree(t, s) /\ f \in SUBSET (DOMAIN s \cap DOMAIN t) /\ f \in SUBSET (DOMAIN t \cap DOMAIN s)
  BY DEF Agree
<1> HIDE DEF f, v
<1>4. Reach(s, f, v) \subseteq Reach(t, f, v) \cap DOMAIN s \cap DOMAIN t
  BY <1>3, ReachWithin
<1>5. Reach(t, f, v) \subseteq Reach(s, f, v) \cap DOMAIN t \cap DOMAIN s
  BY <1>3, ReachWithin
<1> QED
  BY <1>1, <1>2, <1>4, <1>5

-----------------------------------------------------------------------------
(* Colouring depends on common blocks only. *)

\* The verdict on a common block, among common blue blocks.
LEMMA VerdictAgree ==
    ASSUME NEW s, NEW t, Closed(s), Closed(t), Agree(s, t),
           NEW c \in DOMAIN s \cap DOMAIN t, NEW blues \in SUBSET (DOMAIN s \cap DOMAIN t)
    PROVE  Coloured(s, c, blues) = Coloured(t, c, blues)
<1>1. ASSUME NEW b \in blues
      PROVE  /\ Parallel(s, b, c) <=> Parallel(t, b, c)
             /\ {o \in blues : Parallel(s, o, b)} = {o \in blues : Parallel(t, o, b)}
  <2>1. b \in DOMAIN s \cap DOMAIN t
    OBVIOUS
  <2>2. ASSUME NEW o \in blues PROVE Parallel(s, o, b) <=> Parallel(t, o, b)
    BY <2>1, ParallelAgree
  <2>3. Parallel(s, b, c) <=> Parallel(t, b, c)
    BY <2>1, ParallelAgree
  <2> QED
    BY <2>2, <2>3
<1>2. can_be_blue(s, c, blues) <=> can_be_blue(t, c, blues)
  BY <1>1 DEF can_be_blue
<1> QED
  BY <1>2 DEF Coloured

\* The blue blocks, from common ones and a common anticone.
LEMMA BluesAgree ==
    ASSUME NEW s, NEW t, Closed(s), Closed(t), Agree(s, t),
           NEW base \in SUBSET (DOMAIN s \cap DOMAIN t),
           NEW n \in Nat, NEW q \in [1..n -> DOMAIN s \cap DOMAIN t]
    PROVE  Blues(s, base, q) = Blues(t, base, q)
<1> DEFINE I == DOMAIN s \cap DOMAIN t
<1>1. PICK f \in [0..n -> SUBSET I] : Colours(f, s, base, q, n)
  BY BluesRun
<1>2. PICK g \in [0..n -> SUBSET I] : Colours(g, t, base, q, n)
  BY BluesRun
<1>3. ASSUME NEW k \in 1..n, f[k - 1] = g[k - 1] PROVE f[k] = g[k]
  <2>1. k - 1 \in 0..n /\ q[k] \in I
    OBVIOUS
  <2>2. f[k - 1] \in SUBSET I
    BY <2>1
  <2>3. Coloured(s, q[k], f[k - 1]) = Coloured(t, q[k], f[k - 1])
    BY <2>1, <2>2, VerdictAgree
  <2> QED
    BY <1>1, <1>2, <1>3, <2>3 DEF Colours
<1>4. f[0] = g[0]
  BY <1>1, <1>2 DEF Colours
<1> QED
  BY <1>1, <1>2, <1>3, <1>4, RunsAgree DEF Colours

\* The selected parent is known and none of the parents has a higher score.
LEMMA SelectedParentBest ==
    ASSUME NEW H, NEW D, NEW cache \in [D -> DataOver(H)], NEW parents \in Seq(D), parents # <<>>
    PROVE  LET sp == selected_parent(cache, parents)
           IN  /\ sp \in ToSet(parents) /\ sp \in D
               /\ \A p \in ToSet(parents) : cache[p].blue_score <= cache[sp].blue_score
<1> DEFINE known == {i \in DOMAIN parents : parents[i] \in DOMAIN cache}
           f == [i \in known |-> cache[parents[i]].blue_score]
           scores == {cache[parents[i]].blue_score : i \in known}
           best == Max(scores)
           top == {i \in known : cache[parents[i]].blue_score = best}
           sp == selected_parent(cache, parents)
<1>1. DOMAIN parents = 1..Len(parents) /\ Len(parents) \in Nat /\ Len(parents) # 0
      /\ \A i \in DOMAIN parents : parents[i] \in D
  OBVIOUS
<1>2. known = DOMAIN parents /\ known # {} /\ IsFiniteSet(known)
  <2>1. known = DOMAIN parents /\ 1 \in DOMAIN parents
    BY <1>1
  <2>2. IsFiniteSet(1..Len(parents))
    BY <1>1, FS_Interval
  <2> QED
    BY <1>1, <2>1, <2>2
<1>3. f \in [known -> Int] /\ \A i \in known : f[i] = cache[parents[i]].blue_score
  BY <1>2 DEF DataOver
<1>4. Values(scores, f, known)
  BY <1>3 DEF Values
<1>5. sp = parents[Max(top)]
  BY <1>2 DEF selected_parent
<1> HIDE DEF f, known, scores, sp
<1>6. (\E i \in known : f[i] = best) /\ \A i \in known : f[i] <= best
  <2>1. known # {} /\ IsFiniteSet(known) /\ f \in [known -> Int]
    BY <1>2, <1>3
  <2> QED
    BY <1>4, <2>1, MaxOfValues
<1>7. top # {} /\ top \in SUBSET (1..Len(parents))
  BY <1>1, <1>2, <1>3, <1>6
<1>8. Max(top) \in top
  <2> HIDE DEF top
  <2> QED
    BY <1>1, <1>7, MaxInSet
<1>9. sp \in ToSet(parents) /\ sp \in D /\ cache[sp].blue_score = best
  BY <1>1, <1>2, <1>5, <1>8 DEF ToSet
<1>10. \A p \in ToSet(parents) : cache[p].blue_score <= best
  BY <1>2, <1>3, <1>6 DEF ToSet
<1> QED
  BY <1>9, <1>10 DEF sp

\* It depends on the data of the parents only.
LEMMA SelectedParentAgree ==
    ASSUME NEW C, NEW D, NEW parents,
           \A i \in DOMAIN parents : /\ parents[i] \in DOMAIN C /\ parents[i] \in DOMAIN D
                                     /\ C[parents[i]] = D[parents[i]]
    PROVE  selected_parent(C, parents) = selected_parent(D, parents)
<1> DEFINE known(c) == {i \in DOMAIN parents : parents[i] \in DOMAIN c}
           scores(c) == {c[parents[i]].blue_score : i \in known(c)}
           top(c) == {i \in known(c) : c[parents[i]].blue_score = Max(scores(c))}
<1>1. known(C) = known(D)
  OBVIOUS
<1>2. scores(C) = scores(D)
  BY <1>1
<1>3. top(C) = top(D)
  BY <1>1, <1>2
<1>4. ASSUME NEW c PROVE selected_parent(c, parents) = IF known(c) = {} THEN None ELSE parents[Max(top(c))]
  BY DEF selected_parent
<1> HIDE DEF known, top
<1> QED
  BY <1>1, <1>3, <1>4

\* Two stores with their data that agree and both have the parents.
Comparable(s, t, C, D, parents) ==
    /\ Closed(s) /\ Closed(t) /\ Agree(s, t) /\ DOMAIN s \subseteq Nat
    /\ C \in [DOMAIN s -> DataOver(DOMAIN s)] /\ D \in [DOMAIN t -> DataOver(DOMAIN t)]
    /\ Agree(C, D)
    /\ parents \in Seq(DOMAIN s \cap DOMAIN t) /\ parents # <<>>

\* The data of a block depend on its past only: they are the same from any
\* closed store that has the parents.
LEMMA DataAgree ==
    ASSUME NEW s, NEW t, NEW C, NEW D, NEW parents, Comparable(s, t, C, D, parents)
    PROVE  calculate_ghostdag_data(s, C, parents) = calculate_ghostdag_data(t, D, parents)
<1> USE DEF Comparable
<1> DEFINE I == DOMAIN s \cap DOMAIN t
           sp == selected_parent(C, parents)
           S == find_anticone(s, parents, sp)
           q == InOrder(S, LowestFirst)
           base == {sp} \cup C[sp].blues
           Result(c, b) == [blue_score      |-> c[sp].blue_score + Cardinality(b),
                            selected_parent |-> sp,
                            blues           |-> b,
                            reds            |-> ToSet(q) \ b]
<1>1. sp = selected_parent(D, parents)
  <2>1. \A i \in DOMAIN parents : parents[i] \in I
    OBVIOUS
  <2>2. ASSUME NEW i \in DOMAIN parents
        PROVE  parents[i] \in DOMAIN C /\ parents[i] \in DOMAIN D /\ C[parents[i]] = D[parents[i]]
    BY <2>1 DEF Agree
  <2> QED
    BY <2>2, SelectedParentAgree
<1>2. sp \in I /\ sp \in DOMAIN s /\ sp \in DOMAIN t /\ sp # None /\ ToSet(parents) \subseteq I
  <2>1. parents \in Seq(DOMAIN s)
    OBVIOUS
  <2>2. sp \in ToSet(parents)
    BY <2>1, SelectedParentBest
  <2>3. ToSet(parents) \subseteq I
    BY DEF ToSet
  <2> QED
    BY <2>2, <2>3 DEF None
<1>3. S = find_anticone(t, parents, sp) /\ S \subseteq I
  BY <1>2, AnticoneAgree
<1>4. C[sp] = D[sp]
  BY <1>2 DEF Agree
<1>5. calculate_ghostdag_data(s, C, parents) = Result(C, Blues(s, base, q))
  BY <1>2 DEF calculate_ghostdag_data, Blues
<1>6. calculate_ghostdag_data(t, D, parents) = Result(D, Blues(t, base, q))
  <2> DEFINE u == selected_parent(D, parents)
             T == find_anticone(t, parents, u)
             p == InOrder(T, LowestFirst)
             b == Blues(t, {u} \cup D[u].blues, p)
  <2>1. u = sp
    BY <1>1
  <2>2. calculate_ghostdag_data(t, D, parents)
          = IF u = None THEN GenesisData
            ELSE [blue_score      |-> D[u].blue_score + Cardinality(b),
                  selected_parent |-> u,
                  blues           |-> b,
                  reds            |-> ToSet(p) \ b]
    BY DEF calculate_ghostdag_data, Blues
  <2>3. T = S
    BY <1>3, <2>1
  <2> HIDE DEF u, T, S, sp
  <2>4. {u} \cup D[u].blues = base /\ p = q
    BY <1>4, <2>1, <2>3
  <2> HIDE DEF p, q, base
  <2>5. b = Blues(t, base, q)
    BY <2>4
  <2> HIDE DEF b
  <2> QED
    BY <1>2, <2>1, <2>2, <2>4, <2>5
<1>7. IsFiniteSet(S) /\ S \subseteq Nat /\ Cardinality(S) \in Nat
  BY <1>3, FS_Subset, FS_CardinalityType DEF Closed, Refers
<1> HIDE DEF S
<1>8. q \in [1..Cardinality(S) -> I]
  <2>1. q \in [1..Cardinality(S) -> S]
    BY <1>7, HashOrder DEF Lists
  <2> HIDE DEF q
  <2> QED
    BY <1>3, <2>1
<1>9. base \in SUBSET I
  <2>1. C[sp].blues \subseteq DOMAIN s /\ D[sp].blues \subseteq DOMAIN t
    BY <1>2 DEF DataOver
  <2> QED
    BY <1>2, <1>4, <2>1
<1> HIDE DEF q, base, sp
<1>10. Blues(s, base, q) = Blues(t, base, q)
  BY <1>7, <1>8, <1>9, BluesAgree
<1> QED
  BY <1>4, <1>5, <1>6, <1>10

-----------------------------------------------------------------------------
(* The past of a block, and what colouring makes of it. *)

\* The past holds the parents and their pasts, and nothing that is not stored.
LEMMA PastHolds ==
    ASSUME NEW s, Closed(s), NEW from \in SUBSET DOMAIN s
    PROVE  LET past == Reach(s, from, {})
           IN  /\ past \subseteq DOMAIN s
               /\ from \subseteq past
               /\ \A h \in past : get_past_set(s, h) \subseteq past
<1> DEFINE past == Reach(s, from, {})
<1>1. past \subseteq DOMAIN s
  BY ReachType DEF Closed
<1>2. Complete(past, s, from, {})
  BY ReachComplete
<1> HIDE DEF past
<1>3. ASSUME NEW h \in past PROVE get_past_set(s, h) \subseteq past
  <2>1. h \in DOMAIN s /\ ToSet(s[h]) \in SUBSET DOMAIN s
    BY <1>1 DEF Closed, Refers
  <2>2. Complete(past, s, ToSet(s[h]), {})
    BY <1>2, <2>1 DEF Complete
  <2>3. Reach(s, ToSet(s[h]), {}) \subseteq past
    BY <2>1, <2>2, ReachLeast DEF Closed
  <2> QED
    BY <2>1, <2>3 DEF get_past_set
<1> QED
  BY <1>1, <1>2, <1>3 DEF Complete, past

\* Walls from which nothing leads out hide themselves and nothing else.
LEMMA ReachBehind ==
    ASSUME NEW s, Closed(s), NEW from \in SUBSET DOMAIN s, NEW W,
           \A h \in W \cap DOMAIN s : ToSet(s[h]) \subseteq W
    PROVE  Reach(s, from, W) = Reach(s, from, {}) \ W
<1> DEFINE R == Reach(s, from, W)
           A == Reach(s, from, {})
<1>1. Complete(R, s, from, W) /\ Complete(A, s, from, {})
  BY ReachComplete
<1>2. R \cap W = {}
  BY ReachType DEF Closed
<1> HIDE DEF R, A
<1>3. Complete(A, s, from, W) /\ Complete(R \cup W, s, from, {})
  BY <1>1 DEF Complete
<1>4. R \subseteq A
  BY <1>3, ReachLeast DEF Closed, R
<1> DEFINE X == R \cup W
<1>5. Complete(X, s, from, {})
  BY <1>3
<1> HIDE DEF X
<1>6. A \subseteq X
  BY <1>5, ReachLeast DEF Closed, A
<1> QED
  BY <1>2, <1>4, <1>6 DEF X, R, A

\* Colouring keeps the blues it starts from and adds blocks of the anticone.
LEMMA BluesBetween ==
    ASSUME NEW store, NEW n \in Nat, NEW S, NEW q \in [1..n -> S], NEW base
    PROVE  base \subseteq Blues(store, base, q) /\ Blues(store, base, q) \subseteq base \cup S
<1> DEFINE H == base \cup S
<1>1. PICK r \in [0..n -> SUBSET H] : Colours(r, store, base, q, n)
  <2>1. base \in SUBSET H /\ q \in [1..n -> H]
    OBVIOUS
  <2> HIDE DEF H
  <2> QED
    BY <2>1, BluesRun
<1> DEFINE Q == {k \in Nat : k <= n => base \subseteq r[k]}
<1>2. 0 \in Q
  BY <1>1 DEF Colours
<1>3. ASSUME NEW k \in Nat, k \in Q PROVE k + 1 \in Q
  <2> SUFFICES ASSUME k + 1 <= n PROVE base \subseteq r[k + 1]
    OBVIOUS
  <2>1. k + 1 \in 1..n /\ (k + 1) - 1 = k /\ base \subseteq r[k]
    BY <1>3
  <2>2. r[k + 1] = Coloured(store, q[k + 1], r[k])
    BY <1>1, <2>1 DEF Colours
  <2> QED
    BY <2>1, <2>2 DEF Coloured
<1>4. Nat \subseteq Q
  <2> HIDE DEF Q
  <2> QED
    BY <1>2, <1>3, NatSetInduction
<1>5. base \subseteq r[n] /\ r[n] \in SUBSET H
  BY <1>4
<1> QED
  BY <1>1, <1>5 DEF Colours

\* What the data d of a block with these parents say of its past.
Exact(d, s, C, parents) ==
    LET sp == d.selected_parent
        old == get_past_set(s, sp) \cup {sp}
        past == Reach(s, ToSet(parents), {})
    IN  /\ sp \in ToSet(parents)
        /\ \A p \in ToSet(parents) : C[p].blue_score <= d.blue_score
        /\ d.blues \cap d.reds = {}
        /\ d.blues \cup d.reds \subseteq past
        /\ (d.blues \cup d.reds) \ old = past \ old
        /\ d.blues \cap old = C[sp].blues \cup {sp}

\* The data of a block divide its past between the selected parent's past and
\* its own blues and reds.
LEMMA DataExact ==
    ASSUME NEW s, Closed(s), DOMAIN s \subseteq Nat,
           NEW C \in [DOMAIN s -> DataOver(DOMAIN s)],
           \A h \in DOMAIN s : C[h].blues \subseteq get_past_set(s, h),
           NEW parents \in Seq(DOMAIN s), parents # <<>>
    PROVE  Exact(calculate_ghostdag_data(s, C, parents), s, C, parents)
<1> DEFINE sp == selected_parent(C, parents)
           P == ToSet(parents)
           past == Reach(s, P, {})
           old == get_past_set(s, sp) \cup {sp}
           S == find_anticone(s, parents, sp)
           q == InOrder(S, LowestFirst)
           base == {sp} \cup C[sp].blues
           b == Blues(s, base, q)
           d == calculate_ghostdag_data(s, C, parents)
<1>1. sp \in P /\ sp \in DOMAIN s /\ \A p \in P : C[p].blue_score <= C[sp].blue_score
  BY SelectedParentBest
<1>2. P \in SUBSET DOMAIN s /\ sp # None
  BY <1>1 DEF ToSet, None
<1>3. d = [blue_score |-> C[sp].blue_score + Cardinality(b), selected_parent |-> sp,
           blues |-> b, reds |-> ToSet(q) \ b]
  BY <1>2 DEF calculate_ghostdag_data, Blues
<1>4. S = Reach(s, P, old)
  BY DEF find_anticone
<1> HIDE DEF d, P
<1>5. past \subseteq DOMAIN s /\ P \subseteq past /\ get_past_set(s, sp) \subseteq past
  BY <1>1, <1>2, PastHolds
<1>6. \A h \in old \cap DOMAIN s : ToSet(s[h]) \subseteq old
  <2> SUFFICES ASSUME NEW h \in old PROVE ToSet(s[h]) \subseteq old
    OBVIOUS
  <2>1. ToSet(s[sp]) \in SUBSET DOMAIN s
    BY <1>1 DEF Closed, Refers
  <2>2. Complete(get_past_set(s, sp), s, ToSet(s[sp]), {}) /\ get_past_set(s, sp) \subseteq DOMAIN s
    BY <1>1, <1>5, <2>1, ReachComplete DEF get_past_set
  <2> QED
    BY <2>2 DEF Complete
<1>7. S = past \ old
  <2> HIDE DEF old, S, past
  <2> QED
    BY <1>2, <1>4, <1>6, ReachBehind DEF past
<1>8. base \subseteq old
  BY <1>1
<1> HIDE DEF past, old
<1>9. IsFiniteSet(S) /\ S \subseteq Nat /\ Cardinality(S) \in Nat
  <2>1. S \subseteq DOMAIN s
    BY <1>5, <1>7
  <2> HIDE DEF S
  <2> QED
    BY <2>1, FS_Subset, FS_CardinalityType DEF Closed, Refers
<1> HIDE DEF S
<1>10. q \in [1..Cardinality(S) -> S] /\ ToSet(q) = S
  <2>1. q \in [1..Cardinality(S) -> S] /\ \A x \in S : \E i \in 1..Cardinality(S) : q[i] = x
    BY <1>9, HashOrder DEF Lists
  <2> HIDE DEF q
  <2> QED
    BY <2>1 DEF ToSet
<1> HIDE DEF q
<1>11. base \subseteq b /\ b \subseteq base \cup S
  <2> HIDE DEF base
  <2> QED
    BY <1>9, <1>10, BluesBetween
<1>12. sp \in old /\ old \subseteq past \cup {sp}
  BY <1>5 DEF old
<1>13. C[sp].blue_score <= d.blue_score
  <2>1. b \subseteq DOMAIN s
    BY <1>5, <1>7, <1>8, <1>11, <1>12, <1>1
  <2> HIDE DEF b
  <2>2. Cardinality(b) \in Nat
    BY <2>1, FS_Subset, FS_CardinalityType DEF Closed, Refers
  <2>3. C[sp].blue_score \in Nat
    BY <1>1 DEF DataOver
  <2> QED
    BY <1>3, <2>2, <2>3
<1>14. base = C[sp].blues \cup {sp}
  OBVIOUS
<1> HIDE DEF b, base
<1>15. d.selected_parent = sp /\ d.blues = b /\ d.reds = S \ b
  BY <1>3, <1>10
<1>16. \A p \in P : C[p].blue_score <= d.blue_score
  <2>1. \A p \in P : C[p].blue_score \in Nat
    BY <1>2 DEF DataOver
  <2>2. d.blue_score \in Int
    <3>1. d \in DataOver(DOMAIN s)
      BY DataType DEF d, Closed, Refers
    <3> QED
      BY <3>1 DEF DataOver
  <2> QED
    BY <1>1, <1>13, <2>1, <2>2
<1>17. /\ d.blues \cap d.reds = {}
       /\ d.blues \cup d.reds \subseteq past
       /\ (d.blues \cup d.reds) \ old = past \ old
       /\ d.blues \cap old = C[sp].blues \cup {sp}
  BY <1>1, <1>5, <1>7, <1>8, <1>11, <1>12, <1>14, <1>15
<1> QED
  BY <1>1, <1>15, <1>16, <1>17 DEF Exact, past, old, P, d

-----------------------------------------------------------------------------
(* The linear order. *)

\* The order p becomes the order q of hashes of H as the set S is collected.
Collects(q, p, S, H) ==
    /\ q \in Seq(H)
    /\ ToSet(q) = ToSet(p) \cup S
    /\ IsInjective(p) => IsInjective(q)

\* A block is appended if it is not there yet.
LEMMA AppendNewIs ==
    ASSUME NEW H, NEW p \in Seq(H), NEW x \in H
    PROVE  Collects(AppendNew(p, x), p, {x}, H)
<1> DEFINE q == AppendNew(p, x)
<1>1. CASE Contains(p, x)
  <2>1. q = p /\ x \in ToSet(p)
    BY <1>1 DEF AppendNew, Contains, ToSet
  <2> QED
    BY <2>1 DEF Collects
<1>2. CASE ~Contains(p, x)
  <2>1. q = Append(p, x)
    BY <1>2 DEF AppendNew
  <2> HIDE DEF q
  <2>2. /\ q \in Seq(H) /\ Len(q) = Len(p) + 1 /\ q[Len(p) + 1] = x
        /\ \A i \in 1..Len(p) : q[i] = p[i]
    BY <2>1
  <2>3. DOMAIN q = DOMAIN p \cup {Len(p) + 1} /\ DOMAIN p = 1..Len(p) /\ Len(p) \in Nat
    BY <2>2
  <2>4. ToSet(q) = ToSet(p) \cup {x}
    BY <2>2, <2>3 DEF ToSet
  <2>5. \A i \in DOMAIN p : p[i] # x
    BY <1>2, <2>3 DEF Contains
  <2>6. IsInjective(p) => IsInjective(q)
    BY <2>2, <2>3, <2>5 DEF IsInjective
  <2> QED
    BY <2>2, <2>4, <2>6 DEF Collects, q
<1> QED
  BY <1>1, <1>2

\* r is a run in which the n blocks of q are appended to base.
Appends(r, base, q, n) ==
    /\ r[0] = base /\ r[n] = FoldLeft(AppendNew, base, q)
    /\ \A k \in 1..n : r[k] = AppendNew(r[k - 1], q[k])

LEMMA AppendsRun ==
    ASSUME NEW H, NEW base \in Seq(H), NEW n \in Nat, NEW q \in [1..n -> H]
    PROVE  \E r \in [0..n -> Seq(H)] : Appends(r, base, q, n)
<1> DEFINE V == Seq(H)
           S == 1..n
           Eq(g) == g = [u \in SUBSET S |->
                            IF u = {} THEN base ELSE AppendNew(g[u \ {Max(u)}], q[Max(u)])]
           G == [p \in S \X V |-> AppendNew(p[2], q[p[1]])]
           h == CHOOSE g : Eq(g)
<1>1. FoldLeft(AppendNew, base, q) = h[S]
  <2>1. DOMAIN q = S
    OBVIOUS
  <2> QED
    BY <2>1 DEF FoldLeft, MapThenFoldSet
<1>2. G \in [S \X V -> V]
  <2> SUFFICES ASSUME NEW p \in S \X V PROVE AppendNew(p[2], q[p[1]]) \in V
    OBVIOUS
  <2>1. p[1] \in S /\ p[2] \in V /\ q[p[1]] \in H
    OBVIOUS
  <2> QED
    BY <2>1, AppendNewIs DEF Collects
<1>3. base \in V
  OBVIOUS
<1> HIDE DEF V
<1>4. \A k \in S, v \in V : G[<<k, v>>] = AppendNew(v, q[k])
  OBVIOUS
<1> HIDE DEF G
<1>5. PICK g \in [SUBSET S -> V] : LeftFold(g, n, base, G)
  BY <1>2, <1>3, LeftFoldExists
<1>6. ASSUME NEW u \in SUBSET S, u # {} PROVE Max(u) \in S /\ u \ {Max(u)} \in SUBSET S
  BY <1>6, MaxInSet
<1>7. Eq(g)
  <2>1. ASSUME NEW u \in SUBSET S, u # {} PROVE g[u] = AppendNew(g[u \ {Max(u)}], q[Max(u)])
    <3>1. g[u \ {Max(u)}] \in V
      BY <1>6, <2>1
    <3> QED
      BY <1>4, <1>5, <1>6, <2>1, <3>1 DEF LeftFold
  <2>2. g[{}] = base
    BY <1>5 DEF LeftFold
  <2> QED
    BY <2>1, <2>2
<1>8. Eq(h)
  <2> HIDE DEF Eq
  <2> QED
    BY <1>7
<1> HIDE DEF h
<1>9. h[{}] = base
  BY <1>8
<1>10. FoldsWithin(h, n, V, base, G)
  <2> SUFFICES ASSUME NEW u \in SUBSET S, u # {}, h[u \ {Max(u)}] \in V
               PROVE  h[u] = G[<<Max(u), h[u \ {Max(u)}]>>]
    BY <1>9 DEF FoldsWithin
  <2>1. h[u] = AppendNew(h[u \ {Max(u)}], q[Max(u)])
    BY <1>8
  <2> HIDE DEF Eq
  <2> QED
    BY <1>4, <1>6, <2>1
<1>11. PICK r \in [0..n -> V] : FoldRuns(r, n, base, G, h[1..n])
  <2> HIDE DEF Eq
  <2> QED
    BY <1>2, <1>3, <1>10, LeftFoldRuns
<1>12. ASSUME NEW k \in 1..n PROVE r[k] = AppendNew(r[k - 1], q[k])
  <2>1. k - 1 \in 0..n
    OBVIOUS
  <2>2. r[k - 1] \in V
    BY <2>1
  <2> HIDE DEF Eq
  <2> QED
    BY <1>4, <1>11, <2>2 DEF FoldRuns
<1>13. Appends(r, base, q, n)
  <2> HIDE DEF Eq
  <2> QED
    BY <1>1, <1>11, <1>12 DEF Appends, FoldRuns
<1> QED
  BY <1>13 DEF V

\* So all of q is collected.
LEMMA AppendsAll ==
    ASSUME NEW H, NEW base \in Seq(H), NEW n \in Nat, NEW q \in [1..n -> H]
    PROVE  Collects(FoldLeft(AppendNew, base, q), base, ToSet(q), H)
<1>1. PICK r \in [0..n -> Seq(H)] : Appends(r, base, q, n)
  BY AppendsRun
<1> DEFINE upto(k) == {q[i] : i \in 1..k}
           Q == {k \in Nat : k <= n => Collects(r[k], base, upto(k), H)}
<1>2. 0 \in Q
  <2>1. upto(0) = {} /\ r[0] = base
    BY <1>1 DEF Appends
  <2> HIDE DEF upto
  <2> QED
    BY <2>1 DEF Collects
<1>3. ASSUME NEW k \in Nat, k \in Q PROVE k + 1 \in Q
  <2> SUFFICES ASSUME k + 1 <= n PROVE Collects(r[k + 1], base, upto(k + 1), H)
    OBVIOUS
  <2>1. k + 1 \in 1..n /\ (k + 1) - 1 = k /\ Collects(r[k], base, upto(k), H) /\ q[k + 1] \in H
    BY <1>3
  <2>2. r[k + 1] = AppendNew(r[k], q[k + 1])
    BY <1>1, <2>1 DEF Appends
  <2>3. 1..(k + 1) = 1..k \cup {k + 1}
    OBVIOUS
  <2>4. upto(k + 1) = upto(k) \cup {q[k + 1]}
    BY <2>3
  <2> HIDE DEF upto
  <2>5. Collects(r[k + 1], r[k], {q[k + 1]}, H)
    <3>1. r[k] \in Seq(H)
      BY <2>1 DEF Collects
    <3>2. Collects(AppendNew(r[k], q[k + 1]), r[k], {q[k + 1]}, H)
      BY <2>1, <3>1, AppendNewIs
    <3> QED
      BY <2>2, <3>2
  <2> QED
    BY <2>1, <2>4, <2>5 DEF Collects
<1>4. Nat \subseteq Q
  <2> HIDE DEF Q
  <2> QED
    BY <1>2, <1>3, NatSetInduction
<1>5. Collects(r[n], base, upto(n), H)
  <2> HIDE DEF upto
  <2> QED
    BY <1>4
<1>6. upto(n) = ToSet(q)
  BY DEF ToSet
<1> HIDE DEF upto
<1> QED
  BY <1>1, <1>5, <1>6 DEF Appends

\* What get_linear_sort does at one block of the chain.
Visited(cache, p, h) ==
    AppendNew(FoldLeft(AppendNew, p, InOrder(cache[h].blues \cup cache[h].reds, LowestFirst)), h)

\* The block, its blues and its reds are collected.
LEMMA VisitedIs ==
    ASSUME NEW H, IsFiniteSet(H), H \subseteq Nat, NEW D \in SUBSET H,
           NEW cache \in [D -> DataOver(H)], NEW h \in D, NEW p \in Seq(H)
    PROVE  Collects(Visited(cache, p, h), p, cache[h].blues \cup cache[h].reds \cup {h}, H)
<1> DEFINE S == cache[h].blues \cup cache[h].reds
           q == InOrder(S, LowestFirst)
           o == FoldLeft(AppendNew, p, q)
<1>1. S \subseteq H
  BY DEF DataOver
<1> HIDE DEF S
<1>2. IsFiniteSet(S) /\ S \subseteq Nat /\ Cardinality(S) \in Nat
  BY <1>1, FS_Subset, FS_CardinalityType
<1>3. q \in [1..Cardinality(S) -> S] /\ \A x \in S : \E i \in 1..Cardinality(S) : q[i] = x
  BY <1>2, HashOrder DEF Lists
<1> HIDE DEF q
<1>4. q \in [1..Cardinality(S) -> H] /\ ToSet(q) = S
  BY <1>1, <1>3 DEF ToSet
<1>5. Collects(o, p, S, H)
  BY <1>2, <1>4, AppendsAll
<1> HIDE DEF o
<1>6. o \in Seq(H)
  BY <1>5 DEF Collects
<1>7. Collects(AppendNew(o, h), o, {h}, H)
  BY <1>6, AppendNewIs
<1>8. Visited(cache, p, h) = AppendNew(o, h)
  BY DEF Visited, o, q, S
<1>9. Collects(AppendNew(o, h), p, S \cup {h}, H)
  BY <1>5, <1>7 DEF Collects
<1> QED
  BY <1>8, <1>9 DEF S

\* r is a run that visits the n blocks of a chain.
Visits(r, cache, chain, n, end) ==
    /\ r[0] = <<>> /\ r[n] = end
    /\ \A k \in 1..n : r[k] = Visited(cache, r[k - 1], chain[k])

\* get_linear_sort is one, read backwards.
LEMMA VisitsRun ==
    ASSUME NEW H, IsFiniteSet(H), H \subseteq Nat, NEW D \in SUBSET H,
           NEW cache \in [D -> DataOver(H)], NEW tip,
           NEW n \in Nat, SelectedChain(cache, tip) \in [1..n -> D]
    PROVE  \E o : /\ get_linear_sort(cache, tip) = Reverse(o)
                  /\ \E r \in [0..n -> Seq(H)] : Visits(r, cache, SelectedChain(cache, tip), n, o)
<1> DEFINE q == SelectedChain(cache, tip)
           V == Seq(H)
           S == 1..n
           Eq(g) == g = [u \in SUBSET S |->
                            IF u = {} THEN <<>> ELSE Visited(cache, g[u \ {Max(u)}], q[Max(u)])]
           G == [p \in S \X V |-> Visited(cache, p[2], q[p[1]])]
           h == CHOOSE g : Eq(g)
<1>1. get_linear_sort(cache, tip) = Reverse(h[S])
  <2>1. DOMAIN q = S
    OBVIOUS
  <2>2. get_linear_sort(cache, tip)
          = Reverse(FoldLeft(LAMBDA p, x : Visited(cache, p, x), <<>>, q))
    BY DEF get_linear_sort, Visited
  <2> HIDE DEF q
  <2> QED
    BY <2>1, <2>2 DEF FoldLeft, MapThenFoldSet
<1> HIDE DEF q
<1>2. q \in [1..n -> D]
  BY DEF q
<1>3. G \in [S \X V -> V]
  <2> SUFFICES ASSUME NEW p \in S \X V PROVE Visited(cache, p[2], q[p[1]]) \in V
    OBVIOUS
  <2>1. p[1] \in S /\ p[2] \in V /\ q[p[1]] \in D
    BY <1>2
  <2> QED
    BY <2>1, VisitedIs DEF Collects
<1>4. <<>> \in V
  OBVIOUS
<1> HIDE DEF V
<1>5. \A k \in S, v \in V : G[<<k, v>>] = Visited(cache, v, q[k])
  OBVIOUS
<1> HIDE DEF G
<1>6. PICK g \in [SUBSET S -> V] : LeftFold(g, n, <<>>, G)
  BY <1>3, <1>4, LeftFoldExists
<1>7. ASSUME NEW u \in SUBSET S, u # {} PROVE Max(u) \in S /\ u \ {Max(u)} \in SUBSET S
  BY <1>7, MaxInSet
<1>8. Eq(g)
  <2>1. ASSUME NEW u \in SUBSET S, u # {} PROVE g[u] = Visited(cache, g[u \ {Max(u)}], q[Max(u)])
    <3>1. g[u \ {Max(u)}] \in V
      BY <1>7, <2>1
    <3> QED
      BY <1>5, <1>6, <1>7, <2>1, <3>1 DEF LeftFold
  <2>2. g[{}] = <<>>
    BY <1>6 DEF LeftFold
  <2> QED
    BY <2>1, <2>2
<1>9. Eq(h)
  <2> HIDE DEF Eq
  <2> QED
    BY <1>8
<1> HIDE DEF h
<1>10. h[{}] = <<>>
  BY <1>9
<1>11. FoldsWithin(h, n, V, <<>>, G)
  <2> SUFFICES ASSUME NEW u \in SUBSET S, u # {}, h[u \ {Max(u)}] \in V
               PROVE  h[u] = G[<<Max(u), h[u \ {Max(u)}]>>]
    BY <1>10 DEF FoldsWithin
  <2>1. h[u] = Visited(cache, h[u \ {Max(u)}], q[Max(u)])
    BY <1>9
  <2> HIDE DEF Eq
  <2> QED
    BY <1>5, <1>7, <2>1
<1>12. PICK r \in [0..n -> V] : FoldRuns(r, n, <<>>, G, h[1..n])
  <2> HIDE DEF Eq
  <2> QED
    BY <1>3, <1>4, <1>11, LeftFoldRuns
<1>13. ASSUME NEW k \in 1..n PROVE r[k] = Visited(cache, r[k - 1], q[k])
  <2>1. k - 1 \in 0..n
    OBVIOUS
  <2>2. r[k - 1] \in V
    BY <2>1
  <2> HIDE DEF Eq
  <2> QED
    BY <1>5, <1>12, <2>2 DEF FoldRuns
<1>14. Visits(r, cache, q, n, h[S])
  <2> HIDE DEF Eq
  <2> QED
    BY <1>12, <1>13 DEF Visits, FoldRuns
<1> HIDE DEF Eq, S
<1> QED
  BY <1>1, <1>14 DEF V, q

\* Reading backwards changes neither the blocks nor how often each is there.
LEMMA ReverseIs ==
    ASSUME NEW H, NEW p \in Seq(H)
    PROVE  ToSet(Reverse(p)) = ToSet(p) /\ (IsInjective(p) => IsInjective(Reverse(p)))
<1> DEFINE n == Len(p)
           q == Reverse(p)
<1>1. n \in Nat /\ DOMAIN p = 1..n /\ DOMAIN q = 1..n
  BY DEF Reverse
<1>2. \A i \in 1..n : q[i] = p[(n - i) + 1]
  BY DEF Reverse
<1> HIDE DEF n, q
<1>3. \A i \in 1..n : (n - i) + 1 \in 1..n /\ (n - ((n - i) + 1)) + 1 = i
  BY <1>1
<1>4. ToSet(q) = ToSet(p)
  <2>1. \A i \in 1..n : q[(n - i) + 1] = p[i]
    BY <1>1, <1>2, <1>3
  <2> QED
    BY <1>1, <1>2, <1>3, <2>1 DEF ToSet
<1>5. IsInjective(p) => IsInjective(q)
  BY <1>1, <1>2, <1>3 DEF IsInjective
<1> QED
  BY <1>4, <1>5 DEF q

\* q follows the selected parents down from the tip.
Chain(q, cache, tip) ==
    /\ q \in Seq(DOMAIN cache) /\ q # <<>> /\ q[1] = tip
    /\ \A i \in 1..(Len(q) - 1) : q[i + 1] = cache[q[i]].selected_parent

\* Its blocks have lower and lower ranks.
Descends(q, rank) == \A i, j \in 1..Len(q) : i < j => rank[q[j]] < rank[q[i]]

\* It goes no further.
Ends(q, cache) == cache[Last(q)].selected_parent \notin DOMAIN cache

\* One step of the walk.
Walk(cache, q) ==
    LET sp == cache[Last(q)].selected_parent
    IN  IF sp \in DOMAIN cache THEN Append(q, sp) ELSE q

\* A step makes the chain one longer, unless it has ended.
LEMMA WalkIs ==
    ASSUME NEW D, NEW cache \in [D -> DataOver(D)], NEW rank \in [D -> Nat],
           \A h \in D : cache[h].selected_parent \in D => rank[cache[h].selected_parent] < rank[h],
           NEW tip, NEW q, Chain(q, cache, tip), Descends(q, rank)
    PROVE  /\ Chain(Walk(cache, q), cache, tip) /\ Descends(Walk(cache, q), rank)
           /\ IF Ends(q, cache) THEN Walk(cache, q) = q ELSE Len(Walk(cache, q)) = Len(q) + 1
<1> DEFINE sp == cache[Last(q)].selected_parent
           w == Walk(cache, q)
<1>1. q \in Seq(D) /\ q # <<>> /\ Len(q) \in Nat /\ Len(q) > 0
  BY DEF Chain
<1>2. CASE Ends(q, cache)
  BY <1>2 DEF Ends, Walk
<1>3. CASE ~Ends(q, cache)
  <2>1. sp \in D /\ w = Append(q, sp)
    BY <1>3 DEF Ends, Walk
  <2>2. sp = cache[q[Len(q)]].selected_parent
    BY DEF Last
  <2> HIDE DEF sp, w
  <2>3. /\ w \in Seq(D) /\ Len(w) = Len(q) + 1 /\ w[Len(q) + 1] = sp
        /\ \A i \in 1..Len(q) : w[i] = q[i]
    BY <1>1, <2>1
  <2>4. Chain(w, cache, tip)
    <3>1. w[1] = tip /\ w # <<>>
      BY <1>1, <2>3 DEF Chain
    <3>2. ASSUME NEW i \in 1..(Len(w) - 1) PROVE w[i + 1] = cache[w[i]].selected_parent
      <4>1. CASE i = Len(q)
        BY <1>1, <2>2, <2>3, <4>1
      <4>2. CASE i # Len(q)
        <5>1. i \in 1..(Len(q) - 1) /\ i \in 1..Len(q) /\ i + 1 \in 1..Len(q)
          BY <1>1, <2>3, <4>2
        <5> QED
          BY <2>3, <5>1 DEF Chain
      <4> QED
        BY <4>1, <4>2
    <3> QED
      BY <2>3, <3>1, <3>2 DEF Chain
  <2>5. Descends(w, rank)
    <3>1. \A i \in 1..Len(q) : q[i] \in D /\ rank[q[i]] \in Nat
      BY <1>1
    <3>2. rank[sp] \in Nat /\ rank[sp] < rank[q[Len(q)]] /\ q[Len(q)] \in D
      BY <1>1, <2>1, <2>2
    <3>3. ASSUME NEW i \in 1..Len(q) PROVE rank[sp] < rank[q[i]]
      <4>1. Len(q) \in 1..Len(q)
        BY <1>1
      <4>2. i = Len(q) \/ rank[q[Len(q)]] < rank[q[i]]
        BY <1>1, <4>1 DEF Descends
      <4> QED
        BY <3>1, <3>2, <4>1, <4>2
    <3>4. ASSUME NEW i \in 1..Len(w), NEW j \in 1..Len(w), i < j PROVE rank[w[j]] < rank[w[i]]
      <4>1. CASE j = Len(q) + 1
        <5>1. i \in 1..Len(q)
          BY <1>1, <2>3, <3>4, <4>1
        <5> QED
          BY <2>3, <3>3, <4>1, <5>1
      <4>2. CASE j # Len(q) + 1
        <5>1. i \in 1..Len(q) /\ j \in 1..Len(q)
          BY <1>1, <2>3, <3>4, <4>2
        <5> QED
          BY <2>3, <3>4, <5>1 DEF Descends
      <4> QED
        BY <4>1, <4>2
    <3> QED
      BY <3>4 DEF Descends
  <2> QED
    BY <1>3, <2>3, <2>4, <2>5 DEF w
<1> QED
  BY <1>2, <1>3

\* g is the walk of SelectedChain.
Walks(g, cache, tip, n) ==
    /\ g[0] = <<tip>> /\ SelectedChain(cache, tip) = g[n]
    /\ \A k \in 1..n : g[k] = Walk(cache, g[k - 1])

\* There is one, and it meets known blocks.
LEMMA ChainRun ==
    ASSUME NEW D, IsFiniteSet(D), NEW cache, DOMAIN cache = D, NEW tip \in D
    PROVE  \E g : Walks(g, cache, tip, Cardinality(D)) /\ SelectedChain(cache, tip) \in Seq(D)
<1> DEFINE n == Cardinality(D)
           V == Seq(D)
           base == <<tip>>
           F == [q \in V |-> Walk(cache, q)]
           Eq(g) == g = [k \in 0..n |-> IF k = 0 THEN base ELSE Walk(cache, g[k - 1])]
<1>1. n \in Nat
  BY FS_CardinalityType
<1>2. SelectedChain(cache, tip) = (CHOOSE g : Eq(g))[n]
  BY DEF SelectedChain, Walk
<1>3. base \in V /\ F \in [V -> V]
  <2>1. base \in V
    OBVIOUS
  <2>2. ASSUME NEW q \in V PROVE Walk(cache, q) \in V
    BY DEF Walk
  <2> QED
    BY <2>1, <2>2
<1> HIDE DEF n
<1>4. PICK f \in [0..n -> V] : Iterates(f, n, base, F)
  <2> HIDE DEF V, F, base, Eq
  <2> QED
    BY <1>1, <1>3, IterationExists
<1>5. ASSUME NEW k \in 0..n, k # 0
      PROVE  f[k] = Walk(cache, f[k - 1])
  <2>1. k \in 1..n /\ k - 1 \in 0..n
    BY <1>1, <1>5
  <2>2. f[k - 1] \in V
    BY <2>1
  <2>3. f[k] = F[f[k - 1]]
    BY <1>4, <2>1 DEF Iterates
  <2> HIDE DEF V
  <2> QED
    BY <2>2, <2>3
<1>6. Eq(f)
  <2> HIDE DEF base, V, F
  <2> QED
    BY <1>4, <1>5 DEF Iterates
<1> DEFINE g == CHOOSE g : Eq(g)
<1>7. Eq(g)
  <2> HIDE DEF Eq
  <2> QED
    BY <1>6
<1> HIDE DEF g
<1>8. g[0] = base
  <2> HIDE DEF base
  <2> QED
    BY <1>1, <1>7
<1>9. ASSUME NEW k \in 1..n PROVE g[k] = Walk(cache, g[k - 1])
  <2>1. k \in 0..n /\ k # 0
    BY <1>1
  <2> HIDE DEF base
  <2> QED
    BY <1>7, <2>1
<1> HIDE DEF Eq
<1> DEFINE Q == {k \in Nat : k <= n => g[k] \in V}
<1>10. 0 \in Q
  BY <1>3, <1>8
<1>11. ASSUME NEW k \in Nat, k \in Q PROVE k + 1 \in Q
  <2> SUFFICES ASSUME k + 1 <= n PROVE g[k + 1] \in V
    OBVIOUS
  <2>1. k + 1 \in 1..n /\ (k + 1) - 1 = k /\ g[k] \in V
    BY <1>1, <1>11
  <2>2. g[k + 1] = Walk(cache, g[k])
    BY <1>9, <2>1
  <2> QED
    BY <2>1, <2>2 DEF Walk
<1>12. Nat \subseteq Q
  <2> HIDE DEF Q
  <2> QED
    BY <1>10, <1>11, NatSetInduction
<1>13. g[n] \in V
  BY <1>1, <1>12
<1>14. SelectedChain(cache, tip) = g[n]
  BY <1>2 DEF g
<1>15. Walks(g, cache, tip, n)
  BY <1>8, <1>9, <1>14 DEF Walks
<1> QED
  BY <1>13, <1>14, <1>15 DEF n

\* The walk of SelectedChain ends: a longer one would meet a block twice.
LEMMA ChainIs ==
    ASSUME NEW D, IsFiniteSet(D), NEW cache \in [D -> DataOver(D)], NEW rank \in [D -> Nat],
           \A h \in D : cache[h].selected_parent \in D => rank[cache[h].selected_parent] < rank[h],
           NEW tip \in D
    PROVE  LET q == SelectedChain(cache, tip) IN Chain(q, cache, tip) /\ Ends(q, cache)
<1> DEFINE n == Cardinality(D)
           base == <<tip>>
<1>1. n \in Nat
  BY FS_CardinalityType
<1>2. PICK g : Walks(g, cache, tip, n)
  BY ChainRun
<1> HIDE DEF n
<1>8. g[0] = base
  BY <1>2 DEF Walks
<1>9. ASSUME NEW k \in 1..n PROVE g[k] = Walk(cache, g[k - 1])
  BY <1>2 DEF Walks
<1> DEFINE Good(q, k) == /\ Chain(q, cache, tip) /\ Descends(q, rank)
                         /\ Ends(q, cache) \/ Len(q) = k + 1
           Q == {k \in Nat : k <= n => Good(g[k], k)}
<1>10. 0 \in Q
  <2>1. Chain(base, cache, tip) /\ Descends(base, rank) /\ Len(base) = 1
    BY DEF Chain, Descends
  <2> HIDE DEF base
  <2> QED
    BY <1>8, <2>1
<1>11. ASSUME NEW k \in Nat, k \in Q PROVE k + 1 \in Q
  <2> SUFFICES ASSUME k + 1 <= n PROVE Good(g[k + 1], k + 1)
    OBVIOUS
  <2>1. k + 1 \in 1..n /\ (k + 1) - 1 = k /\ Good(g[k], k)
    BY <1>1, <1>11
  <2>2. g[k + 1] = Walk(cache, g[k])
    BY <1>9, <2>1
  <2> DEFINE q == g[k]
  <2>3. Chain(q, cache, tip) /\ Descends(q, rank)
    BY <2>1
  <2> HIDE DEF q
  <2>4. /\ Chain(Walk(cache, q), cache, tip) /\ Descends(Walk(cache, q), rank)
        /\ IF Ends(q, cache) THEN Walk(cache, q) = q ELSE Len(Walk(cache, q)) = Len(q) + 1
    BY <2>3, WalkIs
  <2>5. Ends(q, cache) \/ Len(q) = k + 1
    BY <2>1 DEF q
  <2>6. Ends(Walk(cache, q), cache) \/ Len(Walk(cache, q)) = (k + 1) + 1
    BY <2>4, <2>5
  <2> QED
    BY <2>2, <2>4, <2>6 DEF q
<1>12. Nat \subseteq Q
  <2> HIDE DEF Q
  <2> QED
    BY <1>10, <1>11, NatSetInduction
<1>13. Good(g[n], n)
  BY <1>1, <1>12
<1> DEFINE q == g[n]
<1>14. Chain(q, cache, tip) /\ Descends(q, rank) /\ (Ends(q, cache) \/ Len(q) = n + 1)
  BY <1>13
<1>15. SelectedChain(cache, tip) = q
  BY <1>2 DEF Walks
<1> HIDE DEF q
<1>16. Len(q) # n + 1
  <2> SUFFICES ASSUME Len(q) = n + 1 PROVE FALSE
    OBVIOUS
  <2> DEFINE S == 1..(n + 1)
  <2>1. q \in [S -> D]
    BY <1>14 DEF Chain
  <2>2. IsFiniteSet(S) /\ Cardinality(S) = n + 1
    BY <1>1, FS_Interval
  <2>3. PICK i \in S, j \in S : i # j /\ q[i] = q[j]
    <3>1. Cardinality(D) < Cardinality(S)
      BY <1>1, <2>2 DEF n
    <3> HIDE DEF S
    <3> QED
      BY <2>1, <2>2, <3>1, FS_PigeonHole
  <2>4. i \in 1..Len(q) /\ j \in 1..Len(q) /\ (i < j \/ j < i) /\ q[i] \in D
    BY <1>1, <2>1, <2>3
  <2>5. rank[q[i]] < rank[q[i]]
    BY <1>14, <2>3, <2>4 DEF Descends
  <2> QED
    BY <2>4, <2>5
<1> QED
  BY <1>14, <1>15, <1>16

\* What a block and its past are, by its data: the blocks behind its selected
\* parent, its blues, its reds and itself.
Below(s, h) == get_past_set(s, h) \cup {h}
Divides(s, c) ==
    \A h \in DOMAIN s :
        LET sp == c[h].selected_parent
        IN  Below(s, h) = c[h].blues \cup c[h].reds \cup {h}
                            \cup (IF sp \in DOMAIN s THEN Below(s, sp) ELSE {})

\* Then get_linear_sort lists a block and its past, each block once.
LEMMA LinearSortIs ==
    ASSUME NEW s, IsFiniteSet(DOMAIN s), DOMAIN s \subseteq Nat,
           NEW c \in [DOMAIN s -> DataOver(DOMAIN s)], Divides(s, c), NEW rank \in [DOMAIN s -> Nat],
           \A h \in DOMAIN s : c[h].selected_parent \in DOMAIN s => rank[c[h].selected_parent] < rank[h],
           NEW tip \in DOMAIN s
    PROVE  LET order == get_linear_sort(c, tip)
           IN  IsInjective(order) /\ ToSet(order) = Below(s, tip)
<1> DEFINE D == DOMAIN s
           q == SelectedChain(c, tip)
           n == Len(q)
<1>1. Chain(q, c, tip) /\ Ends(q, c)
  <2> HIDE DEF D
  <2>1. IsFiniteSet(D) /\ c \in [D -> DataOver(D)] /\ rank \in [D -> Nat] /\ tip \in D
    BY DEF D
  <2>2. \A h \in D : c[h].selected_parent \in D => rank[c[h].selected_parent] < rank[h]
    BY DEF D
  <2> HIDE DEF q
  <2> QED
    BY <2>1, <2>2, ChainIs DEF q
<1>2. q \in Seq(D) /\ n \in Nat /\ n > 0 /\ q \in [1..n -> D]
  BY <1>1 DEF Chain
<1>3. PICK o : /\ get_linear_sort(c, tip) = Reverse(o)
               /\ \E r \in [0..n -> Seq(D)] : Visits(r, c, q, n, o)
  <2> HIDE DEF n
  <2> QED
    BY <1>2, VisitsRun
<1>4. PICK r \in [0..n -> Seq(D)] : Visits(r, c, q, n, o)
  BY <1>3
<1> HIDE DEF q, n
<1> DEFINE left(k) == IF k < n THEN Below(s, q[k + 1]) ELSE {}
           Good(k) == IsInjective(r[k]) /\ ToSet(r[k]) \cup left(k) = Below(s, tip)
           Q == {k \in Nat : k <= n => Good(k)}
<1>5. 0 \in Q
  <2>1. r[0] = <<>> /\ q[0 + 1] = tip
    BY <1>1, <1>4 DEF Visits, Chain
  <2>2. ToSet(<<>>) = {} /\ IsInjective(<<>>)
    BY DEF ToSet, IsInjective
  <2>3. left(0) = Below(s, tip)
    BY <1>2, <2>1
  <2> HIDE DEF left
  <2> QED
    BY <2>1, <2>2, <2>3
<1>6. ASSUME NEW k \in Nat, k \in Q PROVE k + 1 \in Q
  <2> SUFFICES ASSUME k + 1 <= n PROVE Good(k + 1)
    OBVIOUS
  <2>1. k + 1 \in 1..n /\ (k + 1) - 1 = k /\ k \in 0..n /\ k < n /\ Good(k)
    BY <1>2, <1>6
  <2> DEFINE x == q[k + 1]
             sp == c[x].selected_parent
             S == c[x].blues \cup c[x].reds \cup {x}
  <2>2. x \in D /\ r[k] \in Seq(D) /\ r[k + 1] = Visited(c, r[k], x)
    BY <1>2, <1>4, <2>1 DEF Visits
  <2>3. left(k) = Below(s, x)
    BY <2>1
  <2>4. S \cup left(k + 1) = Below(s, x)
    <3>1. CASE k + 1 < n
      <4>1. k + 1 \in 1..(n - 1) /\ (k + 1) + 1 \in 1..n
        BY <1>2, <3>1
      <4>2. q[(k + 1) + 1] = sp /\ q[(k + 1) + 1] \in D
        BY <1>1, <1>2, <4>1 DEF Chain, n
      <4>3. left(k + 1) = Below(s, sp)
        BY <3>1, <4>2
      <4> HIDE DEF x, left
      <4> QED
        BY <2>2, <4>2, <4>3 DEF Divides
    <3>2. CASE ~(k + 1 < n)
      <4>1. k + 1 = n /\ left(k + 1) = {}
        BY <1>2, <2>1, <3>2
      <4>2. sp \notin D
        BY <1>1, <1>2, <4>1 DEF Ends, Last, n
      <4> HIDE DEF x, left
      <4> QED
        BY <2>2, <4>1, <4>2 DEF Divides
    <3> QED
      BY <3>1, <3>2
  <2>5. Collects(r[k + 1], r[k], S, D)
    <3> HIDE DEF x
    <3>1. Collects(Visited(c, r[k], x), r[k], S, D)
      BY <2>2, VisitedIs
    <3> HIDE DEF S
    <3> QED
      BY <2>2, <3>1
  <2>6. IsInjective(r[k]) /\ ToSet(r[k]) \cup Below(s, x) = Below(s, tip)
    BY <2>1, <2>3
  <2> HIDE DEF S, x, left
  <2>7. IsInjective(r[k + 1]) /\ ToSet(r[k + 1]) = ToSet(r[k]) \cup S
    BY <2>5, <2>6 DEF Collects
  <2>8. ToSet(r[k + 1]) \cup left(k + 1) = Below(s, tip)
    BY <2>4, <2>6, <2>7
  <2> QED
    BY <2>7, <2>8
<1>7. Nat \subseteq Q
  <2> HIDE DEF Q
  <2> QED
    BY <1>5, <1>6, NatSetInduction
<1>8. Good(n)
  BY <1>2, <1>7
<1>9. left(n) = {}
  BY <1>2
<1>10. r[n] = o /\ o \in Seq(D)
  BY <1>2, <1>4 DEF Visits
<1>11. IsInjective(o) /\ ToSet(o) = Below(s, tip)
  <2> HIDE DEF left
  <2> QED
    BY <1>8, <1>9, <1>10
<1>12. ToSet(Reverse(o)) = ToSet(o) /\ (IsInjective(o) => IsInjective(Reverse(o)))
  BY <1>10, ReverseIs
<1> QED
  BY <1>3, <1>11, <1>12

\* Whatever the data are, no block is listed twice.
LEMMA SortIsList ==
    ASSUME NEW H, IsFiniteSet(H), H \subseteq Nat, NEW D \in SUBSET H,
           NEW cache \in [D -> DataOver(H)], NEW tip \in D
    PROVE  \E n \in Nat : /\ get_linear_sort(cache, tip) \in [1..n -> H]
                          /\ IsInjective(get_linear_sort(cache, tip))
<1> DEFINE q == SelectedChain(cache, tip)
           n == Len(q)
<1>1. IsFiniteSet(D) /\ DOMAIN cache = D
  BY FS_Subset
<1>2. q \in Seq(D)
  BY <1>1, ChainRun
<1>3. n \in Nat /\ q \in [1..n -> D]
  BY <1>2
<1>4. PICK o : /\ get_linear_sort(cache, tip) = Reverse(o)
               /\ \E r \in [0..n -> Seq(H)] : Visits(r, cache, q, n, o)
  <2> HIDE DEF n
  <2> QED
    BY <1>3, VisitsRun
<1>5. PICK r \in [0..n -> Seq(H)] : Visits(r, cache, q, n, o)
  BY <1>4
<1> HIDE DEF q, n
<1> DEFINE Q == {k \in Nat : k <= n => IsInjective(r[k])}
<1>6. 0 \in Q
  BY <1>5 DEF Visits, IsInjective
<1>7. ASSUME NEW k \in Nat, k \in Q PROVE k + 1 \in Q
  <2> SUFFICES ASSUME k + 1 <= n PROVE IsInjective(r[k + 1])
    OBVIOUS
  <2>1. k + 1 \in 1..n /\ (k + 1) - 1 = k /\ k \in 0..n /\ IsInjective(r[k])
    BY <1>3, <1>7
  <2> DEFINE x == q[k + 1]
             S == cache[x].blues \cup cache[x].reds \cup {x}
  <2>2. x \in D /\ r[k] \in Seq(H) /\ r[k + 1] = Visited(cache, r[k], x)
    BY <1>3, <1>5, <2>1 DEF Visits
  <2> HIDE DEF x
  <2>3. Collects(Visited(cache, r[k], x), r[k], S, H)
    BY <2>2, VisitedIs
  <2> HIDE DEF S
  <2> QED
    BY <2>1, <2>2, <2>3 DEF Collects
<1>8. Nat \subseteq Q
  <2> HIDE DEF Q
  <2> QED
    BY <1>6, <1>7, NatSetInduction
<1>9. IsInjective(r[n]) /\ r[n] = o /\ o \in Seq(H)
  BY <1>3, <1>5, <1>8 DEF Visits
<1>10. IsInjective(Reverse(o))
  BY <1>9, ReverseIs
<1>11. Len(o) \in Nat /\ Reverse(o) \in [1..Len(o) -> H]
  BY <1>9 DEF Reverse
<1> QED
  BY <1>4, <1>10, <1>11

-----------------------------------------------------------------------------
(* Stores with their data. *)

\* A closed store in which the data of each block are what would be computed now.
Coherent(s, c) ==
    /\ Closed(s) /\ DOMAIN s \subseteq Nat
    /\ \A h \in DOMAIN s : s[h] \in Seq(DOMAIN s)
    /\ c \in [DOMAIN s -> DataOver(DOMAIN s)]
    /\ \A h \in DOMAIN s : c[h] = calculate_ghostdag_data(s, c, s[h])

\* A block without parents has the data of genesis.
LEMMA OrphanData ==
    ASSUME NEW s, NEW c
    PROVE  calculate_ghostdag_data(s, c, <<>>) = GenesisData
<1>1. {i \in DOMAIN <<>> : <<>>[i] \in DOMAIN c} = {}
  OBVIOUS
<1>2. selected_parent(c, <<>>) = None
  BY <1>1 DEF selected_parent
<1> QED
  BY <1>2 DEF calculate_ghostdag_data

\* t is s with block h of the given parents, and e the data c with d for it.
Joins(s, c, t, e, h, parents, d) ==
    /\ DOMAIN t = DOMAIN s \cup {h} /\ t[h] = parents /\ \A x \in DOMAIN s : t[x] = s[x]
    /\ e = [x \in DOMAIN t |-> IF x = h THEN d ELSE c[x]]

\* A new block keeps the store coherent.
LEMMA CoherentGrows ==
    ASSUME NEW s, NEW c, Coherent(s, c), NEW h \in Nat, h \notin DOMAIN s,
           NEW parents \in Seq(DOMAIN s),
           NEW t, NEW e, Joins(s, c, t, e, h, parents, calculate_ghostdag_data(s, c, parents))
    PROVE  Coherent(t, e)
<1> DEFINE new == calculate_ghostdag_data(s, c, parents)
<1>1. /\ Closed(s) /\ Refers(s, DOMAIN s) /\ IsFiniteSet(DOMAIN s) /\ DOMAIN s \subseteq Nat
      /\ c \in [DOMAIN s -> DataOver(DOMAIN s)]
      /\ \A x \in DOMAIN s : s[x] \in Seq(DOMAIN s) /\ c[x] = calculate_ghostdag_data(s, c, s[x])
  BY DEF Coherent, Closed, Refers
<1>2. new \in DataOver(DOMAIN s)
  BY <1>1, DataType
<1>3. /\ DOMAIN t = DOMAIN s \cup {h} /\ t[h] = parents /\ \A x \in DOMAIN s : t[x] = s[x]
      /\ e = [x \in DOMAIN t |-> IF x = h THEN new ELSE c[x]]
  BY DEF Joins
<1>4. e[h] = new /\ \A x \in DOMAIN s : e[x] = c[x]
  BY <1>3
<1> HIDE DEF new
<1>5. e \in [DOMAIN t -> DataOver(DOMAIN t)]
  <2>1. \A x \in DOMAIN t : e[x] \in DataOver(DOMAIN s)
    BY <1>1, <1>2, <1>3, <1>4
  <2>2. \A x \in DOMAIN t : e[x] \in DataOver(DOMAIN t)
    BY <1>3, <2>1, DataMonotone
  <2> QED
    BY <1>3, <2>2
<1>6. \A x \in DOMAIN t : t[x] \in Seq(DOMAIN s) /\ t[x] \in Seq(DOMAIN t)
  <2>1. \A x \in DOMAIN t : t[x] \in Seq(DOMAIN s)
    BY <1>1, <1>3
  <2>2. \A q \in Seq(DOMAIN s) : q \in Seq(DOMAIN s \cup {h})
    OBVIOUS
  <2> QED
    BY <1>3, <2>1, <2>2
<1>7. Closed(t) /\ DOMAIN t \subseteq Nat
  <2>1. IsFiniteSet(DOMAIN t)
    BY <1>1, <1>3, FS_AddElement
  <2>2. \A x \in DOMAIN t : ToSet(t[x]) \subseteq DOMAIN t
    BY <1>6 DEF ToSet
  <2> QED
    BY <1>1, <1>3, <2>1, <2>2 DEF Closed, Refers
<1>8. Agree(s, t) /\ Agree(c, e)
  BY <1>1, <1>3, <1>4 DEF Agree
<1>9. ASSUME NEW p \in Seq(DOMAIN s)
      PROVE  calculate_ghostdag_data(s, c, p) = calculate_ghostdag_data(t, e, p)
  <2>1. CASE p = <<>>
    BY <2>1, OrphanData
  <2>2. CASE p # <<>>
    <3>1. DOMAIN s \cap DOMAIN t = DOMAIN s
      BY <1>3
    <3>2. p \in Seq(DOMAIN s \cap DOMAIN t)
      BY <3>1
    <3>3. Comparable(s, t, c, e, p)
      BY <1>1, <1>5, <1>7, <1>8, <2>2, <3>2 DEF Comparable
    <3> QED
      BY <3>3, DataAgree
  <2> QED
    BY <2>1, <2>2
<1>10. ASSUME NEW x \in DOMAIN t PROVE e[x] = calculate_ghostdag_data(t, e, t[x])
  <2>1. CASE x = h
    BY <1>3, <1>4, <1>9, <2>1 DEF new
  <2>2. CASE x # h
    <3>1. x \in DOMAIN s /\ t[x] = s[x] /\ e[x] = calculate_ghostdag_data(s, c, s[x])
      BY <1>1, <1>3, <1>4, <2>2
    <3> QED
      BY <1>1, <1>9, <3>1
  <2> QED
    BY <2>1, <2>2
<1> QED
  BY <1>5, <1>6, <1>7, <1>10 DEF Coherent

\* The data of a block are those of its parents and what the store adds.
LEMMA DataFromParents ==
    ASSUME NEW s, NEW H, NEW D \in SUBSET H, NEW c \in [D -> DataOver(H)], NEW e, D \subseteq DOMAIN e,
           NEW parents \in Seq(D), \A p \in ToSet(parents) : c[p] = e[p]
    PROVE  calculate_ghostdag_data(s, c, parents) = calculate_ghostdag_data(s, e, parents)
<1> DEFINE sp == selected_parent(c, parents)
<1>1. \A i \in DOMAIN parents : /\ parents[i] \in DOMAIN c /\ parents[i] \in DOMAIN e
                                /\ c[parents[i]] = e[parents[i]]
  BY DEF ToSet
<1>2. selected_parent(e, parents) = sp
  BY <1>1, SelectedParentAgree
<1>3. sp = None \/ c[sp] = e[sp]
  <2>1. sp = None \/ sp \in ToSet(parents)
    <3>1. parents \in Seq(H)
      OBVIOUS
    <3>2. selected_parent(c, parents) = None \/ selected_parent(c, parents) \in ToSet(parents)
      BY <3>1, SelectedParentType
    <3> QED
      BY <3>2
  <2> QED
    BY <2>1
<1> HIDE DEF sp
<1>4. CASE sp = None
  BY <1>2, <1>4 DEF calculate_ghostdag_data, sp
<1>5. CASE c[sp] = e[sp]
  BY <1>2, <1>5 DEF calculate_ghostdag_data, sp
<1> QED
  BY <1>3, <1>4, <1>5

\* A store has one coherent set of data: it is determined from below.
LEMMA CoherentOnce ==
    ASSUME NEW s, NEW c, NEW e, Coherent(s, c), Coherent(s, e), NEW rank \in [DOMAIN s -> Nat],
           \A h \in DOMAIN s : \A p \in ToSet(s[h]) : rank[p] < rank[h]
    PROVE  c = e
<1> DEFINE D == DOMAIN s
           Q == {k \in Nat : \A h \in D : rank[h] < k => c[h] = e[h]}
<1>1. /\ c \in [D -> DataOver(D)] /\ e \in [D -> DataOver(D)] /\ \A h \in D : s[h] \in Seq(D)
      /\ \A h \in D : /\ c[h] = calculate_ghostdag_data(s, c, s[h])
                      /\ e[h] = calculate_ghostdag_data(s, e, s[h])
  BY DEF Coherent
<1>2. 0 \in Q
  OBVIOUS
<1>3. ASSUME NEW k \in Nat, k \in Q PROVE k + 1 \in Q
  <2> SUFFICES ASSUME NEW h \in D, rank[h] < k + 1 PROVE c[h] = e[h]
    OBVIOUS
  <2>1. ASSUME NEW p \in ToSet(s[h]) PROVE c[p] = e[p]
    <3>1. p \in D /\ s[h] \in Seq(D)
      BY <1>1 DEF ToSet
    <3>2. rank[p] < rank[h] /\ rank[p] \in Nat /\ rank[h] \in Nat
      BY <3>1
    <3>3. rank[p] < k
      BY <3>2
    <3> QED
      BY <1>3, <3>1, <3>3
  <2>2. s[h] \in Seq(D) /\ DOMAIN e = D
    BY <1>1
  <2> HIDE DEF D
  <2>3. calculate_ghostdag_data(s, c, s[h]) = calculate_ghostdag_data(s, e, s[h])
    BY <1>1, <2>1, <2>2, DataFromParents
  <2> QED
    BY <1>1, <2>3
<1>4. Nat \subseteq Q
  <2> HIDE DEF Q
  <2> QED
    BY <1>2, <1>3, NatSetInduction
<1>5. ASSUME NEW h \in D PROVE c[h] = e[h]
  <2>1. rank[h] + 1 \in Nat /\ rank[h] < rank[h] + 1
    OBVIOUS
  <2>2. rank[h] + 1 \in Q
    BY <1>4, <2>1
  <2> QED
    BY <2>1, <2>2
<1> QED
  BY <1>1, <1>5

-----------------------------------------------------------------------------
(* More blocks. *)

\* The blocks of a set have payloads; two maps agree on a set.
Payloads(blocks, S) == \A h \in S : Payload(blocks[h])
SameOn(f, g, S) == \A h \in S : f[h] = g[h]

\* A replay looks at the known blocks only.
LEMMA ReplayAgree ==
    ASSUME NEW known, NEW blocks, Payloads(blocks, known), NEW more, SameOn(more, blocks, known),
           NEW H, NEW q \in Seq(H)
    PROVE  ReplayAll(more, known, q) = ReplayAll(blocks, known, q)
<1> DEFINE n == Len(q)
<1>0. n \in Nat /\ q \in [1..n -> H]
  OBVIOUS
<1> HIDE DEF n
<1> USE <1>0 DEF Payloads, SameOn
<1>1. PICK r \in [0..n -> Results] : IsReplayRun(r, blocks, known, q, n)
  BY ReplayAllRun
<1>2. PICK m \in [0..n -> Results] : IsReplayRun(m, more, known, q, n)
  <2>1. \A h \in known : Payload(more[h])
    OBVIOUS
  <2> QED
    BY <2>1, ReplayAllRun
<1>3. r[0] = m[0]
  BY <1>1, <1>2 DEF IsReplayRun
<1>4. ASSUME NEW k \in 1..n, r[k - 1] = m[k - 1] PROVE r[k] = m[k]
  <2>1. /\ r[k] = ReplayOne(r[k - 1], blocks, known, q[k])
        /\ m[k] = ReplayOne(r[k - 1], more, known, q[k])
    BY <1>1, <1>2, <1>4 DEF IsReplayRun
  <2> QED
    BY <2>1 DEF ReplayOne
<1>5. r[n] = m[n]
  BY <1>3, <1>4, RunsAgree
<1> QED
  BY <1>1, <1>2, <1>5 DEF IsReplayRun

\* So does what backs a ledger.
LEMMA BackedAgree ==
    ASSUME NEW S, NEW l, NEW blocks, NEW more, \A h \in S : more[h] = blocks[h], BackedBy(l, blocks, S)
    PROVE  BackedBy(l, more, S)
<1>1. {ToSet(more[h].txs) : h \in S} = {ToSet(blocks[h].txs) : h \in S}
  BY Zenon
<1>2. Rewards(more, S) = Rewards(blocks, S)
  <2>1. [h \in S |-> more[h].coinbase.miner + more[h].coinbase.dev]
          = [h \in S |-> blocks[h].coinbase.miner + blocks[h].coinbase.dev]
    OBVIOUS
  <2> QED
    BY <2>1 DEF Rewards
<1> QED
  BY <1>1, <1>2 DEF BackedBy

\* What one more block claims is added.
LEMMA RewardsAdd ==
    ASSUME NEW S, IsFiniteSet(S), NEW blocks, NEW h, h \notin S, NEW T, T = S \cup {h},
           Payloads(blocks, T), NEW x, x = blocks[h].coinbase.miner + blocks[h].coinbase.dev
    PROVE  /\ Rewards(blocks, S) \in Int
           /\ Rewards(blocks, T) = Rewards(blocks, S) + x
<1> DEFINE f == [g \in S |-> blocks[g].coinbase.miner + blocks[g].coinbase.dev]
           e == [g \in T |-> blocks[g].coinbase.miner + blocks[g].coinbase.dev]
<1>1. IsFiniteSet(T) /\ S \in SUBSET (S \cap T) /\ h \in T /\ T \ {h} = S
  BY FS_AddElement
<1>2. f \in [S -> Nat] /\ e \in [T -> Nat] /\ f \in [S -> Int] /\ e \in [T -> Int]
  BY DEF Payload, Payloads
<1>3. \A g \in S : f[g] = e[g]
  OBVIOUS
<1>4. e[h] = x
  OBVIOUS
<1>5. Rewards(blocks, S) = SumFunction(f) /\ Rewards(blocks, T) = SumFunction(e)
  BY DEF Rewards
<1> HIDE DEF f, e
<1>6. SumFunction(f) \in Int
  BY <1>2, SumType
<1>7. PICK g : Sums(g, f, S) /\ SumFunction(f) = g[S]
  BY <1>2, SumIsSum
<1>8. PICK k : Sums(k, e, T) /\ SumFunction(e) = k[T]
  BY <1>1, <1>2, SumIsSum
<1>9. g[S] = k[S]
  BY <1>1, <1>2, <1>3, <1>7, <1>8, SumsAgree
<1>10. k[T] = e[h] + k[S] /\ k[S] \in Int /\ e[h] \in Int
  BY <1>1, <1>2, <1>8 DEF Sums
<1> QED
  BY <1>4, <1>5, <1>6, <1>7, <1>8, <1>9, <1>10

\* A ledger to which a block is applied is backed by that block as well.
LEMMA BackedGrows ==
    ASSUME NEW S, IsFiniteSet(S), NEW blocks, NEW h, h \notin S,
           Payloads(blocks, S \cup {h}),
           NEW l \in Ledgers, BackedBy(l, blocks, S)
    PROVE  BackedBy(apply_block(l, blocks[h]).ledger, blocks, S \cup {h})
<1> DEFINE t == apply_block(l, blocks[h]).ledger
           x == blocks[h].coinbase.miner + blocks[h].coinbase.dev
<1>1. Payload(blocks[h])
  BY DEF Payloads
<1>2. Adds(l, t, ToSet(blocks[h].txs), x)
  BY <1>1, ApplyBlockIs
<1>3. x \in Nat
  BY <1>1 DEF Payload
<1> DEFINE T == S \cup {h}
<1>4. Rewards(blocks, S) \in Int /\ Rewards(blocks, T) = Rewards(blocks, S) + x
  <2>1. T = S \cup {h} /\ Payloads(blocks, T) /\ x = blocks[h].coinbase.miner + blocks[h].coinbase.dev
    OBVIOUS
  <2> HIDE DEF x, t, T
  <2> QED
    BY <2>1, RewardsAdd
<1> HIDE DEF t
<1>5. /\ t \in Ledgers /\ t.confirmed \subseteq l.confirmed \cup ToSet(blocks[h].txs)
      /\ Worth(t) <= Worth(l) + x
  BY <1>2 DEF Adds
<1>6. Worth(t) \in Int /\ Worth(l) \in Int
  BY <1>5, WorthType
<1>7. Worth(l) <= Rewards(blocks, S)
  BY DEF BackedBy
<1>8. Worth(t) <= Rewards(blocks, S \cup {h})
  BY <1>3, <1>4, <1>5, <1>6, <1>7
<1>9. t.confirmed \subseteq UNION {ToSet(blocks[g].txs) : g \in S \cup {h}}
  BY <1>5 DEF BackedBy
<1> QED
  BY <1>8, <1>9 DEF BackedBy, t
=============================================================================
