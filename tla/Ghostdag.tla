------------------------------ MODULE Ghostdag ------------------------------
(***************************************************************************)
(* The GHOSTDAG engine (struct GhostdagManager, ghostdag.rs) as operators  *)
(* on values.  A block hash is a natural number, compared as the code      *)
(* compares the bytes.  A store maps the hash of each known block to the   *)
(* sequence of its parents; a cache maps it to its GhostdagData.  The      *)
(* `blues` and `reds` vectors are sets: no decision depends on their       *)
(* order, and the code never puts a block twice in one.                    *)
(***************************************************************************)
EXTENDS Integers, Sequences, FiniteSets, SequencesExt, FiniteSetsExt

CONSTANT K      \* the k parameter: 3 in main.rs

ASSUME KAssumption == K \in Nat

None == -1      \* no selected parent; hashes are natural numbers

LowestFirst(h, i) == h < i

\* The elements of S in the order Before: the k-th has k - 1 before it.
InOrder(S, Before(_, _)) ==
    [k \in 1..Cardinality(S) |->
        CHOOSE x \in S : Cardinality({y \in S : Before(y, x)}) = k - 1]

\* The elements of a sequence at the positions `at`, as they come.
Filtered(seq, at) ==
    LET order == InOrder(at, LowestFirst) IN [k \in DOMAIN order |-> seq[order[k]]]

-----------------------------------------------------------------------------
(* Graph discovery. *)

\* The breadth-first searches of get_past_set and find_anticone: what is
\* reached from the parents of `from` in the store without entering `walls`.
Reach(store, from, walls) ==
    LET Parents(S) == (UNION {ToSet(store[h]) : h \in S \cap DOMAIN store}) \ walls
        step[n \in 0..Cardinality(DOMAIN store)] ==
            IF n = 0 THEN from \ walls
            ELSE step[n - 1] \cup Parents(step[n - 1])
    IN  step[Cardinality(DOMAIN store)]

get_past_set(store, h) ==
    IF h \in DOMAIN store THEN Reach(store, ToSet(store[h]), {}) ELSE {}

\* Mutant: the search does not go beyond the parents.
find_anticone_parentsOnly(store, parents, sp) ==
    ToSet(parents) \ (get_past_set(store, sp) \cup {sp})

\* Blocks parallel to the selected parent: the search starts at the other
\* parents and does not enter the selected parent or its past.
find_anticone(store, parents, sp) ==
    Reach(store, ToSet(parents), get_past_set(store, sp) \cup {sp})

\* Neither of two blocks is in the other's past.
Parallel(store, h, i) ==
    /\ h # i
    /\ h \notin get_past_set(store, i)
    /\ i \notin get_past_set(store, h)

-----------------------------------------------------------------------------
(* Colouring. *)

\* A candidate is refused if a blue block parallel to it already has K blue
\* blocks parallel to itself.
can_be_blue(store, candidate, blues) ==
    \A b \in blues :
        Parallel(store, b, candidate) =>
            Cardinality({o \in blues : Parallel(store, o, b)}) < K

\* max_by_key keeps the last of the parents with the highest blue score.
selected_parent(cache, parents) ==
    LET known == {i \in DOMAIN parents : parents[i] \in DOMAIN cache}
        best  == Max({cache[parents[i]].blue_score : i \in known})
    IN  IF known = {} THEN None
        ELSE parents[Max({i \in known : cache[parents[i]].blue_score = best})]

GenesisData == [blue_score |-> 0, selected_parent |-> None, blues |-> {}, reds |-> {}]

\* The data of a block with these parents (none of them known: as genesis,
\* which has none).  The anticone is coloured in the
\* order of the hashes, every verdict depending on the blues before it.
calculate_ghostdag_data(store, cache, parents) ==
    LET sp        == selected_parent(cache, parents)
        inherited == {sp} \cup cache[sp].blues
        anticone  == InOrder(find_anticone(store, parents, sp), LowestFirst)
        blues     == FoldLeft(LAMBDA acc, c :
                                 IF can_be_blue(store, c, acc) THEN acc \cup {c} ELSE acc,
                              inherited, anticone)
    IN  IF sp = None THEN GenesisData
        ELSE [blue_score      |-> cache[sp].blue_score + Cardinality(blues),
              selected_parent |-> sp,
              blues           |-> blues,
              reds            |-> ToSet(anticone) \ blues]

-----------------------------------------------------------------------------
(* Fork choice. *)

compute_tips(store) ==
    DOMAIN store \ UNION {ToSet(store[h]) : h \in DOMAIN store}

\* Mutant: lowest hash, whatever the score.
select_best_tip_byHash(cache, candidates) == Min(candidates \cap DOMAIN cache)

\* Highest blue score, then lowest hash.
select_best_tip(cache, candidates) ==
    LET known == candidates \cap DOMAIN cache
        best  == Max({cache[h].blue_score : h \in known})
    IN  Min({h \in known : cache[h].blue_score = best})

select_canonical_tip(store, cache) == select_best_tip(cache, compute_tips(store))

-----------------------------------------------------------------------------
(* Linear order. *)

\* The chain of selected parents from a block down to genesis.
SelectedChain(cache, tip) ==
    LET chain[n \in 0..Cardinality(DOMAIN cache)] ==
            IF n = 0 THEN <<tip>>
            ELSE LET sp == cache[Last(chain[n - 1])].selected_parent
                 IN  IF sp \in DOMAIN cache THEN Append(chain[n - 1], sp)
                                            ELSE chain[n - 1]
    IN  chain[Cardinality(DOMAIN cache)]

AppendNew(order, h) == IF Contains(order, h) THEN order ELSE Append(order, h)

\* Mutant: the reds are not collected.
get_linear_sort_bluesOnly(cache, tip) ==
    LET Visit(order, h) ==
            AppendNew(FoldLeft(AppendNew, order, InOrder(cache[h].blues, LowestFirst)), h)
    IN  Reverse(FoldLeft(Visit, <<>>, SelectedChain(cache, tip)))

\* For each block of the chain: its blues and reds by hash, then itself,
\* each if not there yet; and the whole reversed.
get_linear_sort(cache, tip) ==
    LET Visit(order, h) ==
            AppendNew(FoldLeft(AppendNew, order,
                               InOrder(cache[h].blues \cup cache[h].reds, LowestFirst)),
                      h)
    IN  Reverse(FoldLeft(Visit, <<>>, SelectedChain(cache, tip)))
=============================================================================
