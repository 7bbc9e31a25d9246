---------------------------- MODULE MCDagReplicas ----------------------------
(* The blocks that exist: hashes in any order relative to the graph. *)
EXTENDS DagReplicas

\* Every block with one parent or two parents in either order, and merges of
\* three parents in the order of their hashes.
MCForeign ==
    [hash : Hashes,
     parents : {p \in BoundedSeq(Hashes \cup {Genesis}, 3) :
                   p # <<>> /\ IsInjective(p) /\ (Len(p) = 3 => IsSorted(p, <) /\ p[1] # Genesis)}]

\* Any tree of the blocks 1 to 4, or of 1 to 3 with block 4 merging two of
\* them; block 5 merges two or three of the others.
TreesAndMerges ==
    [hash : {1, 2, 3, 4}, parents : {<<p>> : p \in 0..4}]
        \cup [hash : {5}, parents : {<<2, 4>>, <<4, 2>>, <<1, 3, 4>>}]
        \cup [hash : {4}, parents : {<<1, 2>>, <<3, 1>>}]

MCSymmetry == Permutations(Replicas)
=============================================================================
